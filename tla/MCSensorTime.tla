---------------------------- MODULE MCSensorTime -----------------------------
(* A small instance of SensorTime: two boots of the MCU, an outage long      *)
(* enough to notice and one long enough to give up, a midnight and a jump.   *)
(* Beside the bridge, each in behaviours of its own: the recorder, which     *)
(* needs of the bridge only that sessions change and LOCAL becomes ready;    *)
(* the anchor file by which the Livox driver tells the UWB node its IMU      *)
(* time, with both kinds of readers, and only with the C++ one where stores  *)
(* and loads may show out of order; and GnssChain, which takes positions at  *)
(* any stamps of any session, in the configurations the launch files use     *)
(* (manual, first fixed and averaged origin, stamped and legacy input,       *)
(* status only), from receivers that fix, float, lose the fix and exceed the *)
(* accuracy limits.                                                          *)
EXTENDS SensorTime, SessionRecorder, ImuTimeAnchor, GnssChain

VARIABLE part  \* which of the four a behaviour is about

BothKinds == {"cpp", "mapper"}
CppOnly   == {"cpp"}

Sol(v, d, c, g) == [valid |-> v, fixType |-> 3, diff |-> d, carr |-> c, good |-> g]

MCSolutions == {Sol(TRUE, TRUE, 2, TRUE), Sol(TRUE, TRUE, 2, FALSE),
                Sol(TRUE, TRUE, 1, TRUE)}

Cfg(input, mode, local, mono, acc) ==
  [input |-> input, originMode |-> mode, local |-> local, monotonic |-> mono,
   accept |-> acc, poseQuality |-> "RTK_FLOAT"]

FixedOnly == {"RTK_FIXED"}
WithFloat == {"RTK_FIXED", "RTK_FLOAT"}

MCConfigs == {Cfg("stamped", "average_fixed", TRUE, TRUE, FixedOnly),
              Cfg("legacy", "average_fixed", TRUE, FALSE, FixedOnly),
              Cfg("legacy", "first_fixed", TRUE, TRUE, WithFloat),
              Cfg("legacy", "manual", FALSE, TRUE, WithFloat),
              Cfg("pose", "manual", TRUE, TRUE, WithFloat)}

Fault(mode, b, e) == [mode |-> mode, start |-> b, end |-> e]
MCFaults == {Fault("passthrough", 0, 0), Fault("drop", 3, 5),
             Fault("float", 3, 5), Fault("invalid", 3, 5)}
MCSteps == {-1, 0, 1, 3}
MCSources == {"s1", "s2"}

\* one configuration without a fault, where a run is about another part
MCStatusOnly  == {c \in MCConfigs : c.input = "pose"}
MCPassthrough == {f \in MCFaults : f.mode = "passthrough"}

Idle == [time     |-> TRUE,
         recorder |-> ~setup.dry /\ ~setup.named,
         anchor   |-> reader = "cpp",
         chain    |-> cfg \in MCStatusOnly /\ fault \in MCPassthrough]

\* A reboot, or a BOOT again, and a jump of UTC are in behaviours of their own.
RebootOrJump == jumped = 0 \/ (mcu.boot = 1 /\ resent = 0)

TimeInit ==
  /\ Init /\ RecorderInit /\ AnchorInit /\ ChainInit
  /\ part \in DOMAIN Idle /\ \A other \in DOMAIN Idle \ {part} : Idle[other]

TimeNext ==
  \/ /\ part = "time" /\ Next /\ RebootOrJump'
     /\ UNCHANGED <<part, recorderVars, anchorVars, chainVars>>
  \/ part = "recorder" /\ RecorderNext /\ UNCHANGED <<part, vars, anchorVars, chainVars>>
  \/ part = "anchor" /\ AnchorNext /\ UNCHANGED <<part, vars, recorderVars, chainVars>>
  \/ part = "chain" /\ ChainNext /\ UNCHANGED <<part, vars, recorderVars, anchorVars>>

TimeSpec == TimeInit /\ [][TimeNext]_<<part, vars, recorderVars, anchorVars, chainVars>>
=============================================================================
