---------------------------- MODULE RtkGnssLedger ----------------------------
(***************************************************************************)
(* The GNSS path of the RTK fixed-lag backend: status and odometry         *)
(* messages of one GNSS sample arrive on two topics and are paired by      *)
(* stamp; before the alignment a sample waits for raw LIVO odometry around *)
(* it and becomes an alignment pair, afterwards it waits in the same way   *)
(* and becomes a factor of the graph, or it is rejected.  The backend      *)
(* counts where every received sample ends.                                *)
(*                                                                         *)
(* Each callback runs under state_mutex_.  Its loops are steps here: pc is *)
(* the place inside the callback, and "idle" is the released mutex.        *)
(* Stamps are integer ticks; gates, solver results and the motion          *)
(* criterion for keyframes are free choices.  UWB ranging is off           *)
(* (uwb_factor_backend_en, its default).                                   *)
(***************************************************************************)
EXTENDS Integers, Sequences, SequencesExt, FiniteSets, FiniteSetsExt, TLC

CONSTANTS
  RawStamps,        \* stamps of the raw LIVO odometry
  GnssStamps,       \* stamps of the GNSS samples
  MaxResent,        \* how many messages may arrive again
  MaxUnpaired,      \* kMaximumUnpairedGnssMessages
  PairDiff,         \* alignment_max_pair_time_diff_s
  MaxGap,           \* max_raw_odom_interpolation_gap_s
  MinPairs,         \* alignment_min_pairs
  MaxPairs,         \* kMaximumAlignmentPairs
  PairsToDrop,      \* kAlignmentPairsToDropAtCapacity
  Reuse,            \* reuse_existing_node_time_diff_s
  NodeInterval,     \* gnss_node_min_interval_s
  Lag,              \* lag_seconds of the smoother
  MaxActive,        \* max_active_states
  MaxPending,       \* 10 * max_active_states
  RawBuffer,        \* raw_odom_buffer_seconds
  MayThrow          \* the smoother's estimate may throw

ASSUME StampsAssumption == RawStamps \subseteq Nat /\ GnssStamps \subseteq Nat
ASSUME BoundsAssumption ==
  /\ {MaxResent, MaxUnpaired, PairDiff, MaxGap, MaxPairs, PairsToDrop, Reuse, NodeInterval,
      Lag, MaxActive, MaxPending, RawBuffer} \subseteq Nat
  /\ MinPairs \in Nat /\ MinPairs >= 2 /\ PairsToDrop <= MaxPairs
ASSUME ThrowAssumption == MayThrow \in BOOLEAN

Unset == -1
Times == Nat \cup {Unset}

VARIABLES
  pc,           \* place inside the running callback
  who,          \* the running callback: "raw", "gnss" or "none"
  pairing,      \* the sample a GNSS callback has paired
  sent,         \* messages delivered so far
  raw,          \* raw_odom_buffer_ (stamps)
  last_raw,     \* last_raw_odom_stamp_ns_
  status,       \* pending_status_ (stamps)
  odom,         \* pending_gnss_odom_: stamps, and if covariance and position are valid
  last_enq,     \* last_enqueued_gnss_stamp_ns_
  aligned,      \* alignment_.valid
  pairs,        \* alignment_pairs_.size()
  cutoff,       \* alignment_last_used_gnss_stamp_ns_
  pend_align,   \* pending_alignment_gnss_
  pend_factor,  \* pending_factor_gnss_
  initialized, halted,  \* initialized_, backend_halted_
  keyframes,    \* keyframes_ (stamps)
  last_node,    \* last_gnss_triggered_node_stamp_ns_
  last_added,   \* last_added_gnss_factor_stamp_ns_
  count,        \* the counters
  hist          \* history: the samples used for the alignment, and in factors

inputVars == <<sent, raw, last_raw>>
pairVars  == <<status, odom, last_enq>>
alignVars == <<aligned, pairs, cutoff, pend_align>>
graphVars == <<initialized, halted, keyframes, last_node, last_added>>
vars == <<pc, who, pairing, inputVars, pairVars, alignVars, pend_factor,
          graphVars, count, hist>>

Counters == [received : Nat, rejected : Nat, odom_only : Nat, used : Nat, factors : Nat]

\* Mutant: a rejection is taken back.
Unreject(n) == [count EXCEPT !.rejected = @ - n]

Reject(n) == [count EXCEPT !.rejected = @ + n]

\* Where a callback continues after tryCollectAlignmentPairs or
\* processPendingGnss: a GNSS callback erases the pair it has processed, the
\* odometry callback prunes its buffer.
Return == IF who = "raw" THEN "prune" ELSE "unpair"

\* An exception is caught in the odometry callback, which then leaves out the
\* rest; from a GNSS callback it leaves ros::spin and ends the node.
Throw == IF who = "raw" THEN pc' = "idle" /\ who' = "none"
         ELSE pc' = "dead" /\ UNCHANGED who

-----------------------------------------------------------------------------
(* Raw odometry.                                                           *)

\* rawOdomCallback: repeated and older stamps are rejected.
RawOdom(t) ==
  /\ pc = "idle" /\ t > last_raw
  /\ raw' = Append(raw, t) /\ last_raw' = t
  /\ who' = "raw" /\ pc' = IF aligned THEN "init" ELSE "collect"
  /\ UNCHANGED <<pairing, sent, pairVars, alignVars, pend_factor, graphVars, count, hist>>

\* pruneRawOdomBuffer.
Prune ==
  /\ pc = "prune"
  /\ IF Len(raw) > 2 /\ Last(raw) - Head(raw) > RawBuffer
     THEN raw' = Tail(raw) /\ UNCHANGED <<pc, who>>
     ELSE pc' = "idle" /\ who' = "none" /\ UNCHANGED raw
  /\ UNCHANGED <<pairing, sent, last_raw, pairVars, alignVars, pend_factor, graphVars,
                 count, hist>>

-----------------------------------------------------------------------------
(* GNSS messages.                                                          *)

Qualities == {"usable", "refused", "disabled"}  \* refused: not accepted by the adapter

\* The GNSS adapter (external): any order, messages lost, some sent again.
Again(t, stamps) == IF t \in stamps THEN sent.again + 1 ELSE sent.again
MaySend(t, stamps) == Again(t, stamps) <= MaxResent

OdomStamps == {o.t : o \in odom}

\* Mutant: a reset forgets the waiting samples without counting them.
ResetSilently == [count EXCEPT !.received = @ + 1, !.rejected = @ + 1]

\* gnssStatusCallback with resetAlignmentCollection: the waiting samples are
\* rejected with the message.
ResetRejects ==
  [count EXCEPT !.received = @ + 1, !.rejected = @ + 1 + Len(pend_align)]

StatusUnusable(q) ==
  /\ q # "usable"
  /\ IF q = "disabled" /\ ~aligned
     THEN /\ count' = ResetRejects
          /\ pairs' = 0 /\ cutoff' = Unset /\ pend_align' = <<>>
     ELSE /\ count' = [count EXCEPT !.received = @ + 1, !.rejected = @ + 1]
          /\ UNCHANGED <<pairs, cutoff, pend_align>>
  /\ UNCHANGED <<pc, who, pairing, status, aligned>>

StatusDuplicate(t, q) ==
  /\ q = "usable" /\ t \in status
  /\ count' = [count EXCEPT !.received = @ + 1, !.rejected = @ + 1]
  /\ UNCHANGED <<pc, who, pairing, status, alignVars>>

\* The oldest messages are evicted over the capacity.
Kept(stamps, extra) == IF Cardinality(stamps) > MaxUnpaired THEN stamps \ extra ELSE stamps

Oldest(stamps) == {CHOOSE t \in stamps : \A u \in stamps : t <= u}

StatusStored(t, q) ==
  /\ q = "usable" /\ t \notin status
  /\ UNCHANGED alignVars
  /\ LET grown == status \cup {t} IN
     IF t \in OdomStamps
     THEN /\ status' = grown /\ count' = [count EXCEPT !.received = @ + 1]
          /\ pc' = "enqueue" /\ who' = "gnss" /\ pairing' = t
     ELSE /\ status' = Kept(grown, Oldest(grown))
          /\ count' = [count EXCEPT !.received = @ + 1,
                                    !.rejected = @ + (IF status' = grown THEN 0 ELSE 1)]
          /\ UNCHANGED <<pc, who, pairing>>

GnssStatus(t, q) ==
  /\ pc = "idle" /\ MaySend(t, sent.status)
  /\ sent' = [sent EXCEPT !.status = @ \cup {t}, !.again = Again(t, sent.status)]
  /\ StatusUnusable(q) \/ StatusDuplicate(t, q) \/ StatusStored(t, q)
  /\ UNCHANGED <<raw, last_raw, odom, last_enq, pend_factor, graphVars, hist>>

OldestOdom(set) == {o \in set : \A p \in set : o.t <= p.t}

\* gnssOdomCallback: evicted odometry was never counted as received.
GnssOdom(t, good) ==
  /\ pc = "idle" /\ MaySend(t, sent.odom)
  /\ sent' = [sent EXCEPT !.odom = @ \cup {t}, !.again = Again(t, sent.odom)]
  /\ IF t \in OdomStamps
     THEN /\ count' = [count EXCEPT !.odom_only = @ + 1, !.rejected = @ + 1]
          /\ UNCHANGED <<odom, pc, who, pairing>>
     ELSE LET grown == odom \cup {[t |-> t, good |-> good]} IN
          /\ UNCHANGED count
          /\ IF t \in status
             THEN odom' = grown /\ pc' = "enqueue" /\ who' = "gnss" /\ pairing' = t
             ELSE odom' = Kept(grown, OldestOdom(grown)) /\ UNCHANGED <<pc, who, pairing>>
  /\ UNCHANGED <<raw, last_raw, status, last_enq, alignVars, pend_factor, graphVars, hist>>

\* upper_bound and insert.
InsertSorted(s, t) ==
  LET n == Cardinality({i \in DOMAIN s : s[i] <= t}) IN
  SubSeq(s, 1, n) \o <<t>> \o SubSeq(s, n + 1, Len(s))

\* Mutant: a stamp that was processed before is enqueued again.
AlwaysNew(t) == TRUE

Newer(t) == t > last_enq

\* Mutant: the sample waits for the next odometry even if it is bracketed.
ProcessLater == "unpair"

\* processPendingGnss is called at once, and returns when halted.
ProcessNow == IF halted THEN "unpair" ELSE "process"

\* processAcceptedGnss.
Enqueue ==
  /\ pc = "enqueue"
  /\ IF ~Newer(pairing) \/ [t |-> pairing, good |-> FALSE] \in odom
     THEN /\ count' = Reject(1) /\ pc' = "unpair"
          /\ UNCHANGED <<last_enq, pend_align, pend_factor>>
     ELSE /\ last_enq' = pairing /\ UNCHANGED count
          /\ IF aligned
             THEN /\ pend_factor' = InsertSorted(pend_factor, pairing)
                  /\ pc' = ProcessNow
                  /\ UNCHANGED pend_align
             ELSE /\ pend_align' = Append(pend_align, pairing)
                  /\ pc' = "collect" /\ UNCHANGED pend_factor
  /\ UNCHANGED <<who, pairing, inputVars, status, odom, aligned, pairs, cutoff,
                 graphVars, hist>>

\* tryPairGnssMessages, after processAcceptedGnss has returned.
Unpair ==
  /\ pc = "unpair"
  /\ status' = status \ {pairing} /\ odom' = {o \in odom : o.t # pairing}
  /\ pc' = "idle" /\ who' = "none"
  /\ UNCHANGED <<pairing, inputVars, last_enq, alignVars, pend_factor, graphVars,
                 count, hist>>

-----------------------------------------------------------------------------
(* Alignment.                                                              *)

Distance(a, b) == IF a > b THEN a - b ELSE b - a

\* interpolateRawPose: a sample at m, or two around it with a small gap.
Interpolates(m) ==
  \E i \in DOMAIN raw :
    \/ raw[i] = m
    \/ i < Len(raw) /\ raw[i] < m /\ m < raw[i + 1] /\ raw[i + 1] - raw[i] <= MaxGap

Waiting(m) == IF raw = <<>> THEN TRUE ELSE m > Last(raw)

\* A sample the odometry around it supports as an alignment pair.
Pairable(m) ==
  /\ m >= Head(raw) /\ Interpolates(m)
  /\ \E i \in DOMAIN raw : Distance(raw[i], m) <= PairDiff

GrownPairs == IF pairs + 1 > MaxPairs THEN pairs + 1 - PairsToDrop ELSE pairs + 1

\* One turn of the loop of tryCollectAlignmentPairs.
Collect ==
  /\ pc = "collect" /\ pend_align # <<>> /\ ~Waiting(Head(pend_align))
  /\ pend_align' = Tail(pend_align)
  /\ LET m == Head(pend_align) IN
     IF Pairable(m)
     THEN /\ pairs' = GrownPairs /\ cutoff' = m
          /\ count' = [count EXCEPT !.used = @ + 1]
          /\ hist' = [hist EXCEPT !.aligned = @ \cup {m}]
     ELSE count' = Reject(1) /\ UNCHANGED <<pairs, cutoff, hist>>
  /\ UNCHANGED <<pc, who, pairing, inputVars, pairVars, aligned, pend_factor, graphVars>>

\* The end of the loop, and tryFinishAlignment: solved when yaw, baseline and
\* residual are good.
Align(solved) ==
  /\ pc = "collect"
  /\ pend_align # <<>> => Waiting(Head(pend_align))
  /\ solved => pairs >= MinPairs
  /\ aligned' = solved
  /\ pc' = IF solved THEN "transition" ELSE Return
  /\ UNCHANGED <<who, pairing, inputVars, pairVars, pairs, cutoff, pend_align,
                 pend_factor, graphVars, count, hist>>

\* transitionPendingGnssAfterAlignment, one waiting sample at a time.
Transition ==
  /\ pc = "transition"
  /\ IF pend_align = <<>>
     THEN pc' = "init" /\ UNCHANGED <<pend_align, pend_factor, count>>
     ELSE LET m == Head(pend_align) IN
          /\ pend_align' = Tail(pend_align)
          /\ IF m > cutoff /\ m >= Head(raw)
             THEN pend_factor' = InsertSorted(pend_factor, m) /\ UNCHANGED count
             ELSE count' = Reject(1) /\ UNCHANGED pend_factor
          /\ UNCHANGED pc
  /\ UNCHANGED <<who, pairing, inputVars, pairVars, aligned, pairs, cutoff, graphVars, hist>>

-----------------------------------------------------------------------------
(* The graph.                                                              *)

\* Mutant: the smoother is used after the backend has halted.
SolvesAlways(solved) == TRUE

\* updateSmoother: refuses once halted, halts on an exception of the solver.
Solves(solved) == solved => ~halted

\* refreshEstimateAndPublish: states older than the lag are gone, too many
\* active ones halt the backend.
Refreshed(frames, t) == {k \in frames \cup {t} : k >= t - Lag}
TooMany(frames) == Cardinality(frames) > MaxActive

AddNode(t, throws) ==
  /\ keyframes' = Refreshed(keyframes, t)
  /\ halted' = (halted \/ (~throws /\ TooMany(keyframes')))

\* initializeGraph at the newest odometry; where the odometry callback calls
\* it and processPendingGnss a second time, the second call finds nothing to do.
InitializeGraph(solved, throws) ==
  /\ pc = "init"
  /\ throws => MayThrow
  /\ Solves(solved)
  /\ IF initialized THEN UNCHANGED <<initialized, keyframes, halted>>
     ELSE IF solved THEN initialized' = TRUE /\ AddNode(Last(raw), throws)
     ELSE halted' = TRUE /\ UNCHANGED <<initialized, keyframes>>
  /\ \/ throws /\ ~initialized /\ solved /\ Throw
     \/ ~throws /\ pc' = (IF initialized' /\ ~halted' THEN "process" ELSE Return)
        /\ UNCHANGED who
  /\ UNCHANGED <<pairing, inputVars, pairVars, alignVars, pend_factor, last_node,
                 last_added, count, hist>>

Reusable(m) == \E k \in keyframes : Distance(k, m) <= Reuse

\* processPendingGnss, one turn: the tests before a factor is tried.
Untimely(m) ==
  \/ m < Head(raw) \/ ~Interpolates(m)
  \/ ~initialized \/ keyframes = {}
  \/ /\ ~Reusable(m)
     /\ \/ m <= Max(keyframes)
        \/ last_node >= 0 /\ m - last_node < NodeInterval

InProcess == pc = "process" /\ pend_factor # <<>> /\ ~Waiting(Head(pend_factor))

\* A sample is rejected by these tests, or by the rate limit of the recovery.
RejectPending(limited) ==
  /\ InProcess /\ (limited \/ Untimely(Head(pend_factor)))
  /\ pend_factor' = Tail(pend_factor) /\ count' = Reject(1)
  /\ UNCHANGED <<pc, who, pairing, inputVars, pairVars, alignVars, graphVars, hist>>

\* createGraphNode at the sample: it fails when the solver does.
CreateNode(solved, throws) ==
  /\ InProcess /\ ~Untimely(Head(pend_factor)) /\ ~Reusable(Head(pend_factor))
  /\ Solves(solved) /\ (throws => MayThrow /\ solved)
  /\ IF solved
     THEN /\ AddNode(Head(pend_factor), throws)
          /\ last_node' = IF throws THEN last_node ELSE Head(pend_factor)
          /\ IF throws THEN Throw ELSE pc' = "factor of node" /\ UNCHANGED who
          /\ UNCHANGED <<pend_factor, count>>
     ELSE /\ halted' = TRUE /\ count' = Reject(1) /\ pend_factor' = Tail(pend_factor)
          /\ UNCHANGED <<keyframes, last_node, pc, who>>
  /\ UNCHANGED <<pairing, inputVars, pairVars, alignVars, initialized, last_added, hist>>

ReuseNode ==
  /\ InProcess /\ ~Untimely(Head(pend_factor)) /\ Reusable(Head(pend_factor))
  /\ pc' = "factor"
  /\ UNCHANGED <<who, pairing, inputVars, pairVars, alignVars, pend_factor, graphVars,
                 count, hist>>

\* Mutant: the stamp of the last factor is not looked at.
AlwaysLater(m) == TRUE

Later(m) == m > last_added

Gates == {"passed", "refused", "failed"}  \* failed: the solver threw

\* addGnssFactor: a sample newer than the last factor that passes the gates.
Accepted(gate) == Later(Head(pend_factor)) /\ gate = "passed" /\ Solves(TRUE)

CountFactor(gate) ==
  IF Accepted(gate)
  THEN /\ count' = [count EXCEPT !.factors = @ + 1] /\ last_added' = Head(pend_factor)
       /\ hist' = [hist EXCEPT !.fused = @ \cup {Head(pend_factor)}] /\ UNCHANGED halted
  ELSE /\ count' = Reject(1) /\ UNCHANGED <<last_added, hist>>
       /\ halted' = (halted \/ (Later(Head(pend_factor)) /\ gate = "failed"))

\* addGnssFactor, refreshEstimateAndPublish and the erase after it.
AddFactor(gate) ==
  /\ pc \in {"factor", "factor of node"}
  /\ CountFactor(gate)
  /\ pc' = "process" /\ pend_factor' = Tail(pend_factor)
  /\ UNCHANGED <<who, pairing, inputVars, pairVars, alignVars, initialized, keyframes, last_node>>

\* An exception before the factor is tried (the marginal covariance) leaves
\* everything as it was; one in the refresh leaves a counted sample pending.
FactorThrows(gate, early) ==
  /\ pc \in {"factor", "factor of node"} /\ MayThrow
  /\ IF early THEN Later(Head(pend_factor)) /\ UNCHANGED <<count, last_added, hist, halted>>
     ELSE CountFactor(gate) /\ (Accepted(gate) \/ pc = "factor of node")
  /\ Throw
  /\ UNCHANGED <<pairing, inputVars, pairVars, alignVars, pend_factor, initialized,
                 keyframes, last_node>>

\* After the loop the oldest samples over the capacity are rejected.
Trim ==
  /\ pc = "process"
  /\ pend_factor # <<>> => Waiting(Head(pend_factor))
  /\ IF Len(pend_factor) > MaxPending
     THEN pend_factor' = Tail(pend_factor) /\ count' = Reject(1) /\ UNCHANGED pc
     ELSE pc' = (IF who = "raw" THEN "key" ELSE Return) /\ UNCHANGED <<pend_factor, count>>
  /\ UNCHANGED <<who, pairing, inputVars, pairVars, alignVars, graphVars, hist>>

\* maybeAddKeyframe: moved when the motion since the last keyframe asks for one.
MaybeAddKeyframe(moved, solved, throws) ==
  /\ pc = "key"
  /\ moved => ~halted /\ Last(raw) > Max(keyframes)
  /\ throws => MayThrow /\ moved /\ solved
  /\ IF ~moved THEN UNCHANGED <<keyframes, halted>>
     ELSE IF solved THEN AddNode(Last(raw), throws)
     ELSE halted' = TRUE /\ UNCHANGED keyframes
  /\ IF throws THEN Throw ELSE pc' = "prune" /\ UNCHANGED who
  /\ UNCHANGED <<pairing, inputVars, pairVars, alignVars, pend_factor, initialized,
                 last_node, last_added, count, hist>>

-----------------------------------------------------------------------------
Init ==
  /\ pc = "idle" /\ who = "none" /\ pairing = Unset
  /\ sent = [status |-> {}, odom |-> {}, again |-> 0]
  /\ raw = <<>> /\ last_raw = Unset
  /\ status = {} /\ odom = {} /\ last_enq = Unset
  /\ aligned = FALSE /\ pairs = 0 /\ cutoff = Unset
  /\ pend_align = <<>> /\ pend_factor = <<>>
  /\ initialized = FALSE /\ halted = FALSE /\ keyframes = {}
  /\ last_node = Unset /\ last_added = Unset
  /\ count = [received |-> 0, rejected |-> 0, odom_only |-> 0, used |-> 0, factors |-> 0]
  /\ hist = [aligned |-> {}, fused |-> {}]

Receive ==
  \/ \E t \in RawStamps : RawOdom(t)
  \/ \E t \in GnssStamps, q \in Qualities : GnssStatus(t, q)
  \/ \E t \in GnssStamps, good \in BOOLEAN : GnssOdom(t, good)

\* The rest of a callback.
Step ==
  \/ Prune \/ Enqueue \/ Unpair
  \/ Collect \/ Transition \/ \E solved \in BOOLEAN : Align(solved)
  \/ \E solved, throws \in BOOLEAN : InitializeGraph(solved, throws)
  \/ \E limited \in BOOLEAN : RejectPending(limited)
  \/ \E solved, throws \in BOOLEAN : CreateNode(solved, throws)
  \/ ReuseNode
  \/ \E gate \in Gates : AddFactor(gate)
  \/ \E gate \in Gates, early \in BOOLEAN : FactorThrows(gate, early)
  \/ Trim
  \/ \E moved, solved, throws \in BOOLEAN : MaybeAddKeyframe(moved, solved, throws)

Next == Receive \/ Step

Spec == Init /\ [][Next]_vars

-----------------------------------------------------------------------------
(* Properties.                                                             *)

TypeOK ==
  /\ pc \in {"idle", "enqueue", "unpair", "collect", "transition", "init", "process",
             "factor", "factor of node", "key", "prune", "dead"}
  /\ who \in {"none", "raw", "gnss"} /\ pairing \in GnssStamps \cup {Unset}
  /\ sent \in [status : SUBSET GnssStamps, odom : SUBSET GnssStamps, again : 0..MaxResent]
  /\ raw \in Seq(RawStamps) /\ last_raw \in RawStamps \cup {Unset}
  /\ status \subseteq GnssStamps /\ odom \subseteq [t : GnssStamps, good : BOOLEAN]
  /\ last_enq \in Times /\ aligned \in BOOLEAN /\ pairs \in Nat /\ cutoff \in Times
  /\ pend_align \in Seq(GnssStamps) /\ pend_factor \in Seq(GnssStamps)
  /\ initialized \in BOOLEAN /\ halted \in BOOLEAN /\ keyframes \subseteq Nat
  /\ last_node \in Times /\ last_added \in Times
  /\ count \in Counters
  /\ hist \in [aligned : SUBSET GnssStamps, fused : SUBSET GnssStamps]

\* gnssConservationDelta.
Delta ==
  count.received - ((count.rejected - count.odom_only) + count.used + count.factors
    + Cardinality(status) + Len(pend_align) + Len(pend_factor))

\* No GNSS sample is dropped silently or counted twice: between callbacks every
\* received status is rejected, an alignment pair, a factor, or waiting.  The
\* backend reports anything else as GNSS_CONSERVATION_ERROR when it ends.
Conservation == pc = "idle" => Delta = 0

\* A GNSS sample is used once: what aligned the frames is not fused again as a
\* factor, no sample is two pairs or two factors.
SampleUsedOnce ==
  /\ \A a \in hist.aligned, f \in hist.fused : a < f
  /\ count.used = Cardinality(hist.aligned) /\ count.factors = Cardinality(hist.fused)

\* Nothing waits for what is already there: between callbacks no pair is left
\* unprocessed, and every waiting sample is newer than the raw odometry.
NothingOverdue ==
  pc = "idle" /\ ~halted =>
    /\ status \cap OdomStamps = {}
    /\ \A i \in DOMAIN pend_align : Waiting(pend_align[i])
    /\ \A i \in DOMAIN pend_factor : Waiting(pend_factor[i])

\* A halted backend changes the graph no more, even inside the callback that
\* halted it.
HaltedGraphFrozen ==
  [][halted => count'.factors = count.factors /\ keyframes' = keyframes]_vars
=============================================================================
