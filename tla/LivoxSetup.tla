----------------------------- MODULE LivoxSetup -----------------------------
(***************************************************************************)
(* How the Livox driver brings a LiDAR to the state in which its data is   *)
(* read (livox_lidar_callback.cpp).  The SDK reports a device, the driver  *)
(* sends one command per requested setting, notes it in set_bits, and the  *)
(* answers, which come on another thread, clear the bits: the last one     *)
(* cleared makes the LiDAR "sampling".  config_mutex_ is held while the    *)
(* commands are sent and while a bit is cleared.                           *)
(***************************************************************************)
EXTENDS Naturals, FiniteSets

CONSTANTS
  NumLidars,   \* LiDARs the SDK reports
  Settings,    \* data type, scan pattern, blind spot, dual emission
  Configured,  \* LiDARs of the configuration file
  Requested,   \* settings the file gives (the others are -1)
  MaxInfo      \* bound: device reports of one LiDAR

Lidars == 1..NumLidars

ASSUME SetupAssumption ==
  /\ NumLidars \in Nat \ {0} /\ MaxInfo \in Nat
  /\ Configured \subseteq Lidars
  /\ Requested \subseteq Settings /\ IsFiniteSet(Settings)

VARIABLE setup  \* of each LiDAR: see SetupType

\* A device that is not in the file gets a zeroed configuration, which asks
\* for every setting.
Wanted(l) == IF l \in Configured THEN Requested ELSE Settings

SetupType ==
  [ known : BOOLEAN,                \* cache_index_ has an index for it
    left : SUBSET Settings,         \* commands the running report has yet to send
    bits : SUBSET Settings,         \* livox_config.set_bits
    flying : [Settings -> Nat],     \* commands the SDK has not answered
    sampling : BOOLEAN,             \* connect_state = kConnectStateSampling
    reports : Nat,                  \* bound only
    acked : SUBSET Settings ]       \* history: settings the device accepted

\* A LiDAR not yet reported, and one that answered everything.
Fresh(l) == [known |-> l \in Configured, left |-> {}, bits |-> {},
             flying |-> [s \in Settings |-> 0], sampling |-> FALSE, reports |-> 0, acked |-> {}]
SetUp(l) == [Fresh(l) EXCEPT !.known = TRUE, !.sampling = TRUE, !.reports = MaxInfo, !.acked = Settings]

\* Mutant: the answers do not take the lock.
UnlockedAlways == \A l \in Lidars : setup[l].left \subseteq Settings

\* config_mutex_ is free: no report is between its first and last command.
Unlocked == \A l \in Lidars : setup[l].left = {}

\* LidarInfoChangeCallback: an unknown device only gets an index, a known one
\* is configured.
InfoChange(l) ==
  LET u == setup[l]
  IN /\ u.reports < MaxInfo
     /\ \A k \in Lidars : setup[k].left = {}
     /\ setup' = [setup EXCEPT ![l] =
          [u EXCEPT !.reports = u.reports + 1, !.known = TRUE,
                    !.left = IF u.known THEN Wanted(l) ELSE {}]]

\* One SetLivoxLidar... call of the report, in a fixed order that no property
\* tells apart.
SendSetting(l) ==
  \E s \in setup[l].left :
    LET u == setup[l]
    IN setup' = [setup EXCEPT ![l] =
         [u EXCEPT !.left = u.left \ {s}, !.bits = u.bits \union {s},
                   !.flying = [u.flying EXCEPT ![s] = u.flying[s] + 1]]]

\* Set...Callback: a success clears the bit under the lock, a timeout sends the
\* command again, any other code leaves the bit set for good.
Answer(l) ==
  \E s \in Settings :
    LET u == setup[l]
        answered == [u.flying EXCEPT ![s] = u.flying[s] - 1]
    IN /\ u.flying[s] > 0
       /\ \/ /\ Unlocked
             /\ setup' = [setup EXCEPT ![l] =
                  [u EXCEPT !.flying = answered, !.bits = u.bits \ {s},
                            !.sampling = u.sampling \/ u.bits \subseteq {s},
                            !.acked = u.acked \union {s}]]
          \/ UNCHANGED setup
          \/ setup' = [setup EXCEPT ![l] = [u EXCEPT !.flying = answered]]

SetupStep(l) == InfoChange(l) \/ SendSetting(l) \/ Answer(l)

SetupTypeOK == setup \in [Lidars -> SetupType]

(* Data is read from a LiDAR only once it accepted every setting asked for:  *)
(* an answer that arrives while the report is still sending commands must    *)
(* not find an empty set_bits (Set...Callback, config_mutex_).               *)
SamplingConfigured ==
  \A l \in Lidars : setup[l].sampling => Wanted(l) \subseteq setup[l].acked
=============================================================================
