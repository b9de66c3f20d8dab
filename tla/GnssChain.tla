----------------------------- MODULE GnssChain -----------------------------
(* The receiver's solutions on their way into the adapter: the fault       *)
(* injector node (gnss_fault_injector.cpp and its node) may drop or alter  *)
(* the legacy messages of a window of message time, the topic between two  *)
(* nodes may lose a message when the subscriber queue overflows, and the   *)
(* adapter handles what arrives.  The injector's callback and the          *)
(* adapter's are one step: nothing else reads what lies between them.      *)
EXTENDS GnssAdapter

CONSTANTS
  Solutions,    \* the receiver's solutions: [valid, fixType, diff, carr, good]
  Steps,        \* how far the stamp moves from one message to the next
  Sources,      \* (session, writer epoch) pairs of the stamped wrapper
  Faults,       \* injector settings: [mode, start, end]
  MaxMessages   \* bound: messages the receiver sends

\* "none" stands for a stamped message before which none came
ASSUME GnssInputAssumption ==
  /\ Solutions \subseteq [valid : BOOLEAN, fixType : Nat, diff : BOOLEAN, carr : Nat, good : BOOLEAN]
  /\ Steps \subseteq Int /\ NoSource \notin Sources

\* the injector's constructor refuses an empty window
ASSUME FaultWindowsAssumption ==
  \A f \in Faults :
    /\ f.mode \in {"passthrough", "drop", "float", "invalid"}
    /\ {f.start, f.end} \subseteq Int
    /\ f.mode # "passthrough" => f.start < f.end

VARIABLES
  fault,    \* the injector's mode and window
  inj,      \* its counters and the stamps of its events
  clock,    \* stamp of the receiver's last message
  sent      \* messages sent (bounds the run)

chainVars == <<gnssVars, fault, inj, clock, sent>>

\* Mutant: the first stamp of the window is let through.
InWindowOpen(m) == /\ fault.mode # "passthrough"
                   /\ m.stamp > fault.start /\ m.stamp < fault.end

InWindow(m) == /\ fault.mode # "passthrough"
               /\ m.stamp >= fault.start /\ m.stamp < fault.end

\* the message the injector publishes in its place
Altered(m) ==
  CASE InWindow(m) /\ fault.mode = "float" ->
         [m EXCEPT !.valid = TRUE, !.fixType = 3, !.diff = TRUE, !.carr = 1]
    [] InWindow(m) /\ fault.mode = "invalid" ->
         [m EXCEPT !.valid = FALSE, !.fixType = 0, !.diff = FALSE, !.carr = 0]
    [] OTHER -> m

\* a message whose GPS time cannot be converted is passed on unchanged
HasStamp(m) == m.stamp # 0
Dropped(m) == HasStamp(m) /\ InWindow(m) /\ fault.mode = "drop"
Published(m) == IF HasStamp(m) THEN Altered(m) ELSE m

\* Mutant: a dropped message is counted as passed too.
NoteEventTwice(m) ==
  inj' = [inj EXCEPT !.received = @ + 1, !.passed = @ + 1,
                     !.dropped = IF Dropped(m) THEN @ + 1 ELSE @]

\* first and last faulted stamps, and the first one past the window
NoteEvent(m) ==
  LET first == HasStamp(m) /\ InWindow(m) /\ inj.first = NoTime
      over  == /\ HasStamp(m) /\ ~InWindow(m) /\ m.stamp >= fault.end
               /\ inj.first # NoTime /\ inj.recovered = NoTime
  IN  inj' = [inj EXCEPT !.received = @ + 1,
                         !.dropped = IF Dropped(m) THEN @ + 1 ELSE @,
                         !.passed = IF Dropped(m) THEN @ ELSE @ + 1,
                         !.first = IF first THEN m.stamp ELSE @,
                         !.last = IF HasStamp(m) /\ InWindow(m) THEN m.stamp ELSE @,
                         !.recovered = IF over THEN m.stamp ELSE @]

\* The wrapped message of gnss_serial_driver and the pose message do not
\* pass the injector: it subscribes to the legacy topic.
Inject(m) == IF cfg.input = "legacy" THEN NoteEvent(m) ELSE UNCHANGED inj

Reaches(m) == ~(cfg.input = "legacy" /\ Dropped(m))
Arriving(m) == IF cfg.input = "legacy" THEN Published(m) ELSE m

Message(sol, stamp, src, localValid, fusionValid) ==
  [stamp |-> stamp, valid |-> sol.valid, fixType |-> sol.fixType,
   diff |-> sol.diff, carr |-> sol.carr, good |-> sol.good, src |-> src,
   localValid |-> localValid, fusionValid |-> fusionValid]

\* flags of the stamped wrapper; the legacy message has none (both TRUE)
Flags == IF cfg.input = "stamped" THEN {<<TRUE, TRUE>>, <<TRUE, FALSE>>, <<FALSE, FALSE>>}
                                  ELSE {<<TRUE, TRUE>>}

Origins == IF cfg.input = "stamped" THEN Sources ELSE {NoSource}

Stamps == {s \in {clock + d : d \in Steps} : s >= 0}

Deliver(m) ==
  /\ Inject(m)
  /\ clock' = IF m.stamp > clock THEN m.stamp ELSE clock
  /\ sent' = sent + 1
  /\ UNCHANGED fault
  /\ IF Reaches(m) THEN Process(Arriving(m)) ELSE UNCHANGED gnssVars

\* the adapter's subscriber queue overflowed before its callback ran
Overflow(m) ==
  /\ Inject(m)
  /\ clock' = IF m.stamp > clock THEN m.stamp ELSE clock
  /\ sent' = sent + 1
  /\ UNCHANGED <<fault, gnssVars>>

ChainInit ==
  /\ GnssInit
  /\ fault \in Faults
  /\ cfg.input # "legacy" => fault.mode = "passthrough"
  /\ inj = [received |-> 0, passed |-> 0, dropped |-> 0, first |-> NoTime,
            last |-> NoTime, recovered |-> NoTime]
  /\ clock = 0
  /\ sent = 0

ChainNext ==
  /\ sent < MaxMessages
  /\ \E sol \in Solutions, stamp \in Stamps, src \in Origins, fl \in Flags :
       LET m == Message(sol, stamp, src, fl[1], fl[2])
       IN  Deliver(m) \/ Overflow(m)

ChainSpec == ChainInit /\ [][ChainNext]_chainVars

-----------------------------------------------------------------------------
ChainTypeOK ==
  /\ GnssTypeOK
  /\ inj.received = inj.passed + inj.dropped

(* What the injector takes away stays away: no fused sample lies in the    *)
(* window of a drop or invalid fault, and none of a float fault's window   *)
(* is fused as RTK_FIXED, though the adapter holds a confirmed fix through *)
(* a short loss (GnssFaultInjectorCore::process, updateFixedState).        *)
FaultNotFused ==
  \A i \in DOMAIN fused :
    LET in == fault.start <= fused[i].stamp /\ fused[i].stamp < fault.end
    IN  /\ fault.mode \in {"drop", "invalid"} => ~in
        /\ fault.mode = "float" /\ in => ~IsFixed(fused[i])
=============================================================================
