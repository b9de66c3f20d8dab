------------------------------- MODULE UwbChain -------------------------------
(***************************************************************************)
(* A UWB range from the line of the tag to a factor of the RTK fixed-lag   *)
(* backend: the serial node (UwbRounds) publishes rounds, UwbManager       *)
(* queues or replays them and forwards at the events of the front end, the *)
(* backend holds a range until raw odometry has passed it and then ties it *)
(* to the nearest keyframe or to a node of its own.                        *)
(*                                                                         *)
(* Topics deliver in order and each at its own pace.  Times are ticks:     *)
(* now is the host clock, lio the time of the front end's last update,     *)
(* which is behind it.  The IMU clock is ahead of the host by an error of  *)
(* its own in each epoch of the Livox driver.  Gates, solver results, the  *)
(* alignment and the nodes of GNSS samples and motion are free choices.    *)
(* The smoother's estimate does not throw here (RtkGnssLedger shows what   *)
(* happens when it does).                                                  *)
(***************************************************************************)
EXTENDS UwbManager

CONSTANTS
  Enabled,       \* anchors the backend knows and lets pass
  TimeOffset,    \* uwb_time_offset_s
  MaxGap,        \* max_raw_odom_interpolation_gap_s
  AssocMax,      \* uwb_association_max_dt_s
  Lag,           \* lag_seconds
  MaxActive,     \* max_active_states
  MaxPending,    \* 20 * max_active_states
  RawBuffer,     \* raw_odom_buffer_seconds
  LidarStart,    \* _first_lidar_time
  NodeSetups,    \* the setups of the serial node a run starts from
  Files,         \* the recordings a run replays
  ClockErrors,   \* how far the IMU clock is ahead of the host in each epoch
  MaxNow, MaxLines, MaxWire, MaxBack  \* bounds: time, lines of a kind,
                 \* messages in flight, how often the front end's time goes back

\* A line of a recording.
Recorded == [stamp : Int, anchor : Anchors, value : Int, format : {"distance", "uwbdbg"}, diag : Int]

\* Lines of the tag for the node, rounds or records, and at the manager's own port.
LineKinds == {"debug", "distance", "record", "serial"}

ASSUME ChainAssumption ==
  /\ {MaxGap, AssocMax, Lag, MaxActive, MaxPending, RawBuffer} \subseteq Nat
  /\ RawBuffer > 0 /\ MaxGap > 0 /\ MaxActive > 0 /\ MaxGap <= RawBuffer
  /\ TimeOffset \in Int /\ LidarStart \in Nat \ {0} /\ NodeSetups \subseteq Setups
  /\ ClockErrors \in Seq(Int) \ {<<>>} /\ Enabled \subseteq Anchors
  /\ Files \subseteq Seq(Recorded) /\ {MaxNow, MaxWire, MaxBack} \subseteq Nat
  /\ MaxLines \in [LineKinds -> Nat]

VARIABLES
  now, lines,       \* the host clock, the lines read so far
  imu,              \* the clock in the IMU anchor: its writer's epoch and error
  setup, node,      \* the serial node
  source, file, start,  \* input_source_, replay_measurements_, replay_file_start_stamp_
  arrays,           \* /uwb/ranges in flight
  queue, replay,    \* measurement_queue_, the state of the replay
  lio, back,        \* last_lio_update_time, how often it went back
  ranges, odoms,    \* /uwb/backend_ranges and raw odometry in flight
  pc,               \* place in the running callback of the backend
  raw,              \* raw_odom_buffer_ (stamps)
  aligned, halted,  \* alignment_.valid with an initialized graph, backend_halted_
  keyframes,        \* keyframes_ (stamps)
  pending,          \* pending_uwb_
  enqueued, added,  \* last_enqueued_uwb_stamp_ns_, last_added_uwb_stamp_ns_
  count             \* uwb_received_, uwb_rejected_, uwb_accepted_

nodeVars    == <<now, lines, imu, setup, node, arrays>>
managerVars == <<source, file, start, queue, replay, lio, back>>
wireVars    == <<ranges, odoms>>
backendVars == <<pc, raw, aligned, halted, keyframes, pending, enqueued, added, count>>
vars == <<nodeVars, managerVars, wireVars, backendVars>>

Last1(s) == s[Len(s)]

-----------------------------------------------------------------------------
(* The serial node.                                                        *)

Tick ==
  /\ now < MaxNow /\ now' = now + 1
  /\ UNCHANGED <<lines, imu, setup, node, arrays, managerVars, wireVars, backendVars>>

\* The Livox driver starts again: another epoch, another clock error.
NewEpoch ==
  /\ source = "external_topic" /\ setup.time = "livox_imu_anchor"
  /\ imu.epoch < Len(ClockErrors)
  /\ imu' = [epoch |-> imu.epoch + 1, err |-> ClockErrors[imu.epoch + 1]]
  /\ UNCHANGED <<now, lines, setup, node, arrays, managerVars, wireVars, backendVars>>

\* A line of the tag: any may be lost or damaged on the way.
ReadLine(kind) ==
  /\ source = "external_topic" /\ lines[kind] < MaxLines[kind]
  /\ lines' = [lines EXCEPT ![kind] = @ + 1]

\* _timestamp_for_line maps every line, also one that carries no range.
Timed(reading) == [node EXCEPT !.mapper =
  IF setup.time = "host_local" THEN @ ELSE MapperAfter(@, imu, now, reading)]

ReadDebug(reading) ==
  /\ ReadLine("debug")
  /\ node' = DebugLine(setup, Timed(reading), now)
  /\ UNCHANGED <<now, imu, setup, arrays, managerVars, wireVars, backendVars>>

\* _handle_line, a distance line.
ReadDistance(anchor, value, reading) ==
  /\ ReadLine(IF setup.parser = "distance" THEN "record" ELSE "distance") /\ Len(arrays) < MaxWire
  /\ LET context == [at |-> now, stamp |-> StampOf(setup, node.mapper, imu, now, reading)]
         done == DistanceLine(setup, Timed(reading), anchor, value, context) IN
     node' = done.node /\ arrays' = arrays \o done.out
  /\ UNCHANGED <<now, imu, setup, managerVars, wireVars, backendVars>>

\* No input for a while: an overdue round is dropped.
ReadNothing ==
  /\ node' = Idle(node, now) /\ node' # node
  /\ UNCHANGED <<now, lines, imu, setup, arrays, managerVars, wireVars, backendVars>>

-----------------------------------------------------------------------------
(* UwbManager.                                                             *)

\* externalRangeCallback.
IngestExternal ==
  /\ arrays # <<>> /\ arrays' = Tail(arrays)
  /\ queue' = Ingested(queue, Head(arrays))
  /\ UNCHANGED <<now, lines, imu, setup, node, source, file, start, replay, lio, back,
                 wireVars, backendVars>>

\* readLoop, on a thread of its own.
ReadSerial(anchor, value) ==
  /\ source = "serial" /\ lines["serial"] < MaxLines["serial"]
  /\ lines' = [lines EXCEPT !["serial"] = @ + 1]
  /\ queue' = Queued(queue, <<Parsed(anchor, value, now)>>)
  /\ UNCHANGED <<now, imu, setup, node, arrays, source, file, start, replay, lio, back,
                 wireVars, backendVars>>

\* forwardMeasurementsAt at an event of the front end, whose time is t after it:
\* the age of a range is measured before that, at the last update.
Forwarded ==
  IF source = "file"
  THEN LET took == TakeReplay(file, replay, start, lio - LidarStart) IN
       replay' = took.replay /\ ranges' = ranges \o Rebased(took.taken, start, LidarStart)
       /\ UNCHANGED queue
  ELSE /\ ranges' = ranges \o Recent(queue, IF source = "serial" THEN now ELSE lio)
       /\ queue' = <<>> /\ UNCHANGED replay

\* stateEstimationAndMapping: forward, update, and the raw odometry of the update.
\* The time goes back only when recorded data starts again.
Event(t) ==
  /\ t # lio /\ t <= now /\ t >= LidarStart
  /\ t < lio => source = "file" /\ back < MaxBack
  /\ Len(ranges) < MaxWire /\ Len(odoms) < MaxWire
  /\ back' = IF t < lio THEN back + 1 ELSE back
  /\ Forwarded
  /\ lio' = t /\ odoms' = Append(odoms, t)
  /\ UNCHANGED <<nodeVars, source, file, start, backendVars>>

-----------------------------------------------------------------------------
(* The backend.                                                            *)

Distance(a, b) == IF a > b THEN a - b ELSE b - a

Reject(n) == [count EXCEPT !.rejected = @ + n]

\* Mutant: the stamp of the last range of the anchor is not looked at.
AlwaysNewer(r) == TRUE

Newer(r) == r.stamp > enqueued[r.anchor]

\* insertPendingUwb.
InsertSorted(s, r) ==
  LET n == Cardinality({i \in DOMAIN s : s[i].stamp <= r.stamp}) IN
  SubSeq(s, 1, n) \o <<r>> \o SubSeq(s, n + 1, Len(s))

\* processPendingUwb returns at once without an alignment and once halted.
StartProcessing == IF aligned /\ ~halted THEN "uwb" ELSE "idle"

\* uwbRangeCallback: an invalid range, one of an anchor that is not enabled or one
\* behind the last of its anchor is rejected, the others wait.
UwbRange ==
  /\ pc = "idle" /\ ranges # <<>> /\ ranges' = Tail(ranges)
  /\ LET r == [Head(ranges) EXCEPT !.stamp = @ + TimeOffset] IN
     IF ~r.valid \/ r.stamp <= 0 \/ r.anchor \notin Enabled \/ ~Newer(r)
     THEN /\ count' = [count EXCEPT !.received = @ + 1, !.rejected = @ + 1]
          /\ UNCHANGED <<enqueued, pending>>
     ELSE /\ count' = [count EXCEPT !.received = @ + 1]
          /\ enqueued' = [enqueued EXCEPT ![r.anchor] = r.stamp]
          /\ pending' = InsertSorted(pending, r)
  /\ pc' = StartProcessing
  /\ UNCHANGED <<nodeVars, managerVars, odoms, raw, aligned, halted, keyframes, added>>

Pruned(s) ==
  LET Old(i) == i <= Len(s) - 2 /\ Last1(s) - s[i] > RawBuffer IN
  SubSeq(s, Cardinality({i \in DOMAIN s : Old(i)}) + 1, Len(s))

\* rawOdomCallback: repeated and older stamps are rejected.
RawOdomStale ==
  /\ pc = "idle" /\ odoms # <<>> /\ raw # <<>> /\ Head(odoms) <= Last1(raw)
  /\ odoms' = Tail(odoms)
  /\ UNCHANGED <<nodeVars, managerVars, ranges, backendVars>>

RawOdom ==
  /\ pc = "idle" /\ odoms # <<>> /\ (raw # <<>> => Head(odoms) > Last1(raw))
  /\ odoms' = Tail(odoms) /\ raw' = Append(raw, Head(odoms))
  /\ pc' = IF aligned /\ ~halted THEN "gnss" ELSE "prune"
  /\ UNCHANGED <<nodeVars, managerVars, ranges, aligned, halted, keyframes, pending,
                 enqueued, added, count>>

Refreshed(frames, t) == {k \in frames \cup {t} : k >= t - Lag}

\* createGraphNode and refreshEstimateAndPublish: too many active states halt.
AddNode(t) ==
  /\ keyframes' = Refreshed(keyframes, t)
  /\ halted' = (Cardinality(keyframes') > MaxActive)

Newest(frames) == CHOOSE k \in frames : \A j \in frames : j <= k

\* tryFinishAlignment and initializeGraph, in a GNSS callback, where the ranges
\* that wait are left to the next callback, or in the odometry callback.
Align(solved) ==
  /\ pc \in {"idle", "prune"} /\ ~aligned /\ Len(raw) >= 2
  /\ aligned' = TRUE
  /\ IF solved THEN AddNode(Last1(raw)) ELSE halted' = TRUE /\ UNCHANGED keyframes
  /\ pc' = IF pc = "prune" /\ ~halted' THEN "gnss" ELSE pc
  /\ UNCHANGED <<nodeVars, managerVars, wireVars, raw, pending, enqueued, added, count>>

\* processPendingGnss, in a GNSS callback or before the ranges in the odometry
\* callback: it may make a node at a sample behind the newest odometry.
GnssNode(t) ==
  /\ pc \in {"idle", "gnss"} /\ aligned /\ ~halted /\ t > Newest(keyframes) /\ t <= Last1(raw)
  /\ AddNode(t)
  /\ UNCHANGED <<nodeVars, managerVars, wireVars, pc, raw, aligned, pending, enqueued, added,
                 count>>

GnssDone ==
  /\ pc = "gnss" /\ pc' = IF halted THEN "key" ELSE "uwb of raw"
  /\ UNCHANGED <<nodeVars, managerVars, wireVars, raw, aligned, halted, keyframes, pending,
                 enqueued, added, count>>

InUwb == pc \in {"uwb", "uwb of raw"}

\* The head of pending_uwb_ has been passed by raw odometry.
Passed ==
  /\ InUwb /\ pending # <<>> /\ raw # <<>>
  /\ Head(pending).stamp <= Last1(raw)

\* interpolateRawPose: a sample at m, or two around it with a small gap.
Interpolates(m) ==
  \E i \in DOMAIN raw :
    \/ raw[i] = m
    \/ i < Len(raw) /\ raw[i] < m /\ m < raw[i + 1] /\ raw[i + 1] - raw[i] <= MaxGap

Near(m) == \E k \in keyframes : Distance(k, m) <= AssocMax

\* processPendingUwb, one turn: too old, no odometry around it, or between two
\* keyframes and far from both.
Unusable(m) ==
  \/ m < Head(raw) \/ ~Interpolates(m) \/ keyframes = {}
  \/ ~Near(m) /\ m <= Newest(keyframes)

\* Mutant: the rejected range is erased, and rejectUwb not called.
RejectUwbSilently ==
  /\ Passed /\ Unusable(Head(pending).stamp)
  /\ pending' = Tail(pending)
  /\ UNCHANGED <<nodeVars, managerVars, wireVars, pc, raw, aligned, halted, keyframes,
                 enqueued, added, count>>

RejectUwb ==
  /\ Passed /\ Unusable(Head(pending).stamp)
  /\ pending' = Tail(pending) /\ count' = Reject(1)
  /\ UNCHANGED <<nodeVars, managerVars, wireVars, pc, raw, aligned, halted, keyframes,
                 enqueued, added>>

Gates == {"passed", "refused", "failed"}  \* failed: the solver threw

\* addUwbFactor, after a node if one was made; it is refused once halted.
CountUwb(gate, stopped) ==
  LET r == Head(pending) IN
  /\ pending' = Tail(pending)
  /\ IF r.stamp > added[r.anchor] /\ gate = "passed" /\ ~stopped
     THEN /\ count' = [count EXCEPT !.accepted = @ + 1]
          /\ added' = [added EXCEPT ![r.anchor] = r.stamp]
     ELSE count' = Reject(1) /\ UNCHANGED added

\* The range belongs to a keyframe near it.
UwbFactor(gate) ==
  /\ Passed /\ ~Unusable(Head(pending).stamp) /\ Near(Head(pending).stamp)
  /\ CountUwb(gate, halted)
  /\ halted' = (halted \/ gate = "failed")
  /\ UNCHANGED <<nodeVars, managerVars, wireVars, pc, raw, aligned, keyframes, enqueued>>

\* The range gets a node of its own; without one it is rejected.
UwbNode(solved, gate) ==
  /\ Passed /\ ~Unusable(Head(pending).stamp) /\ ~Near(Head(pending).stamp)
  /\ solved => ~halted
  /\ IF solved
     THEN /\ keyframes' = Refreshed(keyframes, Head(pending).stamp)
          /\ LET full == Cardinality(keyframes') > MaxActive IN
             CountUwb(gate, full) /\ halted' = (full \/ gate = "failed")
     ELSE /\ halted' = TRUE /\ pending' = Tail(pending) /\ count' = Reject(1)
          /\ UNCHANGED <<keyframes, added>>
  /\ UNCHANGED <<nodeVars, managerVars, wireVars, pc, raw, aligned, enqueued>>

\* The end of the loop: what is over the capacity is rejected, the oldest first.
UwbDone ==
  /\ InUwb /\ ~Passed
  /\ LET extra == IF Len(pending) > MaxPending THEN Len(pending) - MaxPending ELSE 0 IN
     pending' = SubSeq(pending, extra + 1, Len(pending)) /\ count' = Reject(extra)
  /\ pc' = IF pc = "uwb" THEN "idle" ELSE "key"
  /\ UNCHANGED <<nodeVars, managerVars, wireVars, raw, aligned, halted, keyframes, enqueued, added>>

\* maybeAddKeyframe, when the motion asks for one.
MaybeAddKeyframe(moved) ==
  /\ pc = "key" /\ pc' = "prune"
  /\ moved => ~halted /\ Last1(raw) > Newest(keyframes)
  /\ IF moved THEN AddNode(Last1(raw)) ELSE UNCHANGED <<keyframes, halted>>
  /\ UNCHANGED <<nodeVars, managerVars, wireVars, raw, aligned, pending, enqueued, added, count>>

PruneRaw ==
  /\ pc = "prune" /\ pc' = "idle" /\ raw' = Pruned(raw)
  /\ UNCHANGED <<nodeVars, managerVars, wireVars, aligned, halted, keyframes, pending,
                 enqueued, added, count>>

-----------------------------------------------------------------------------
Init ==
  /\ now = LidarStart /\ lines = [kind \in LineKinds |-> 0] /\ imu = [epoch |-> 1, err |-> ClockErrors[1]]
  /\ source \in Sources
  /\ setup \in IF source = "external_topic" THEN NodeSetups
               ELSE {CHOOSE s \in NodeSetups : TRUE}
  /\ node = NewNode /\ arrays = <<>>
  /\ \E f \in IF source = "file" THEN Files ELSE {<<>>} :
       /\ file \in LoadReplayFile(f) /\ (source = "file" => file # <<>>)
       /\ start = IF f = <<>> THEN 0 ELSE f[1].stamp
  /\ queue = <<>> /\ replay = NewReplay /\ lio = 0 /\ back = 0
  /\ ranges = <<>> /\ odoms = <<>> /\ pc = "idle" /\ raw = <<>>
  /\ aligned = FALSE /\ halted = FALSE /\ keyframes = {} /\ pending = <<>>
  /\ enqueued = [a \in Anchors |-> 0] /\ added = [a \in Anchors |-> 0]
  /\ count = [received |-> 0, rejected |-> 0, accepted |-> 0]

SerialNode ==
  \/ NewEpoch
  \/ \E reading \in Readings : ReadDebug(reading)
  \/ \E a \in Anchors, v \in {0} \cup Good \cup Bad, reading \in Readings : ReadDistance(a, v, reading)
  \/ ReadNothing

Manager ==
  \/ IngestExternal
  \/ \E a \in Anchors, v \in {0} \cup Good \cup Bad : ReadSerial(a, v)
  \/ \E t \in 0..MaxNow : Event(t)

Backend ==
  \/ UwbRange \/ RawOdomStale \/ RawOdom \/ GnssDone \/ RejectUwb \/ UwbDone \/ PruneRaw
  \/ \E solved \in BOOLEAN : Align(solved)
  \/ \E t \in 0..MaxNow : GnssNode(t)
  \/ \E gate \in Gates : UwbFactor(gate)
  \/ \E solved \in BOOLEAN, gate \in Gates : UwbNode(solved, gate)
  \/ \E moved \in BOOLEAN : MaybeAddKeyframe(moved)

Next == Tick \/ SerialNode \/ Manager \/ Backend

Spec == Init /\ [][Next]_vars

-----------------------------------------------------------------------------
(* Properties.                                                             *)

\* Every range on its way carries a stamp that is less than a round's timeout
\* older than its reading: rounds are not joined over a gap, no stamp outlives
\* the round it was read in.
Spanned(s) == \A i \in DOMAIN s : s[i].gap < RoundTimeout
RangeNearItsStamp ==
  /\ \A i \in DOMAIN arrays : Spanned(arrays[i].ranges)
  /\ Spanned(queue) /\ Spanned(ranges) /\ Spanned(pending)

\* No range is lost or counted twice in the backend: between callbacks each one
\* received is rejected, a factor, or waits.
UwbConservation ==
  pc = "idle" => count.received = count.rejected + count.accepted + Len(pending)

\* The ranges that wait are in order and each is newer than the last factor of its
\* anchor, also when a recording starts again or the clock of the stamps goes back.
UwbInOrder ==
  /\ \A i, j \in DOMAIN pending : i < j => pending[i].stamp <= pending[j].stamp
  /\ \A i \in DOMAIN pending : pending[i].stamp > added[pending[i].anchor]
=============================================================================
