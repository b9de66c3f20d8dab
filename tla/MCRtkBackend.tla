---------------------------- MODULE MCRtkBackend ----------------------------
(* A small instance of RtkGnssLedger: four poses of raw odometry and four   *)
(* GNSS samples between and outside them, one on a pose, with gaps that are *)
(* too large when a pose is lost.  Beside it, in behaviours of its own, a   *)
(* small instance of the node that exports what the backend publishes: it   *)
(* takes corrections at any increasing stamps, so it needs nothing of the   *)
(* ledger but last_tf_stamp_ns_.  And the backend's recovery from outages:  *)
(* it takes samples of any quality at any distance, so it needs nothing of  *)
(* the chain that sends them but their order, which FusedInOrder states.    *)
EXTENDS RtkGnssLedger, CameraExport, GnssRecovery

MCRaw  == {1, 3, 6, 8}
MCGnss == {2, 4, 6, 7}

ASSUME MCFloatsFit == FloatsFit

VARIABLE part  \* which of the three a behaviour is about

BackendInit ==
  /\ Init /\ ExportInit /\ RecoveryInit
  /\ \/ part \in {"ledger", "export"} /\ ramp = Max(Ramps)
     \/ part = "recovery"

BackendNext ==
  \/ part = "ledger" /\ Next /\ UNCHANGED <<part, exportVars, recoveryVars>>
  \/ part = "export" /\ ExportNext /\ UNCHANGED <<part, vars, recoveryVars>>
  \/ part = "recovery" /\ RecoveryNext /\ UNCHANGED <<part, vars, exportVars>>

BackendSpec == BackendInit /\ [][BackendNext]_<<part, vars, exportVars, recoveryVars>>
=============================================================================
