----------------------------- MODULE TimeMapping -----------------------------
(* MappingStateMachine of sensor_time_bridge: how pairs of LOCAL and UTC     *)
(* time become the mapping that the bridge publishes.                        *)
(*                                                                           *)
(* Times are small integers and the drift of the clocks is left out, so a    *)
(* mapping is the offset UTC - LOCAL. robustAffineFit is abstracted to what  *)
(* its callers see of it: pairs of one offset fit exactly; pairs of several  *)
(* offsets may pass the gates on scale and residuals or not, and then give   *)
(* an offset between theirs. The counters of accepted and rejected pairs and *)
(* the history of mappings, which nothing in the bridge reads, are left out. *)
EXTENDS Integers, Sequences, SequencesExt

CONSTANTS
  None,              \* no value
  Window,            \* mapping_window_size
  MinPairs,          \* min_pps_pairs
  RelockCount,       \* relock_confirm_count
  MinSpan,           \* min_fit_span_ns
  MaxIntervalError,  \* max_pair_interval_error_ns
  MaxRelockStep,     \* max_relock_step_ns
  PpsTimeout,        \* pps_timeout_ns
  InvalidTimeout     \* holdover_invalid_timeout_ns

\* The constructor raises smaller sizes to these.
ASSUME MappingAssumption ==
  /\ {Window, MinPairs, RelockCount} \subseteq Nat \ {0, 1}
  /\ {MinSpan, MaxIntervalError, MaxRelockStep, PpsTimeout, InvalidTimeout} \subseteq Nat

Usable == {"LOCKED", "HOLDOVER", "RELOCKING"}

\* A state machine just reset: lost is holdover_start_local_ns_, last is
\* last_pair_local_ns_ with 0 for have_last_pair_ = false.
NoMapping == [state |-> "LOCAL_ONLY", active |-> None, pairs |-> <<>>, candidate |-> <<>>, last |-> 0, lost |-> 0]

Gap(a, b) == IF a > b THEN a - b ELSE b - a

Offset(p) == p.utc - p.local

Offsets(ps) == {Offset(ps[i]) : i \in DOMAIN ps}

\* Pairs whose fit passes every gate for sure.
Exact(ps) == \A i, j \in DOMAIN ps : Offset(ps[i]) = Offset(ps[j])

Appendable(ps, p) ==
  /\ p.local # 0 /\ p.utc # 0
  /\ ps # <<>> =>
       /\ p.local > Last(ps).local /\ p.utc > Last(ps).utc
       /\ Gap(p.local - Last(ps).local, p.utc - Last(ps).utc) <= MaxIntervalError

Newest(ps, n) == SubSeq(ps, IF Len(ps) > n THEN Len(ps) - n + 1 ELSE 1, Len(ps))

\* mapping_version_ is left out: it is 0 as long as there is no mapping.
Install(m, o) == [m EXCEPT !.active = o]

\* Mutant: a candidate is installed however far it steps the mapping.
ContinuousAlways(m, o) == TRUE
Continuous(m, o) == m.active = None \/ Gap(m.active, o) <= MaxRelockStep

\* The mapping becomes o; a relock's pairs replace those of before the loss.
Lock(m, o) ==
  LET i == [Install(m, o) EXCEPT !.state = "LOCKED"]
  IN  IF m.candidate = <<>> THEN i
      ELSE [i EXCEPT !.pairs = m.candidate, !.candidate = <<>>]

\* addPair after HOLDOVER has become RELOCKING.
Enter(m) == IF m.state = "HOLDOVER"
            THEN [m EXCEPT !.state = "RELOCKING", !.candidate = <<>>] ELSE m

Ready(m, ps) ==
  /\ Len(ps) >= (IF m.state = "RELOCKING" THEN RelockCount ELSE MinPairs)
  /\ Last(ps).local - Head(ps).local >= MinSpan

Grow(m, p) ==
  LET add(ps) == Newest(Append(ps, p), Window)
  IN  [m EXCEPT
         !.candidate = IF m.state = "RELOCKING" THEN add(@) ELSE @,
         !.pairs = IF m.state = "RELOCKING" THEN @ ELSE add(@),
         !.last = p.local,
         !.state = IF @ = "LOCAL_ONLY" THEN "ACQUIRING" ELSE @]

Fitted(m) == IF m.state = "RELOCKING" THEN m.candidate ELSE m.pairs

\* What candidateReady's fit leads to, and what a fit that fails a gate does.
Accepted(m) ==
  IF ~Ready(m, Fitted(m)) THEN {}
  ELSE {IF m.state = "RELOCKING" /\ ~Continuous(m, o) THEN m ELSE Lock(m, o) :
          o \in Offsets(Fitted(m))}
Refused(m) ==
  IF Ready(m, Fitted(m)) /\ Exact(Fitted(m)) THEN {}
  ELSE IF m.state # "LOCKED" THEN {m}
  ELSE (IF Exact(m.pairs) THEN {} ELSE {m})
       \cup (IF Len(m.pairs) < 2 THEN {m} ELSE {Install(m, o) : o \in Offsets(m.pairs)})

\* addPair: the state machines that may result from one more pair.
AddPair(m, p) ==
  LET e == Enter(m)
  IN  IF ~Appendable(Fitted(e), p) THEN {e}
      ELSE Accepted(Grow(e, p)) \cup Refused(Grow(e, p))

\* update: the loss of the pairs is noticed by LOCAL time going on without them.
Since(m, local) == IF local > m.last THEN local - m.last ELSE 0
Outage(m, local) ==
  IF m.state \notin {"LOCKED", "ACQUIRING"} \/ Since(m, local) <= PpsTimeout THEN m
  ELSE IF m.active # None THEN [m EXCEPT !.state = "HOLDOVER", !.lost = m.last]
  ELSE [m EXCEPT !.state = "LOCAL_ONLY", !.pairs = <<>>]
Expired(m, local) ==
  IF m.state \in {"HOLDOVER", "RELOCKING"} /\ Since(m, local) > InvalidTimeout
  THEN [m EXCEPT !.state = "INVALID"] ELSE m
Update(m, local) ==
  IF m.last = 0 \/ local = 0 THEN m ELSE Expired(Outage(m, local), local)
=============================================================================
