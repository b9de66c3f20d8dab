---------------------------- MODULE LivoFrontend ----------------------------
(***************************************************************************)
(* The LIVO estimator of FAST-LIVO2 (slam_mode_ = LIVO): the sensor        *)
(* callbacks that fill the buffers, sync_packages, which turns them into a *)
(* time-ordered stream of VIO and LIO events, the IMU propagation with its *)
(* coverage bookkeeping, and the working transaction that commits an event *)
(* to the persistent core or rolls it back.  One thread runs everything:   *)
(* run() spins the callbacks, then processes at most one event.            *)
(*                                                                         *)
(* Times are integer ticks.  A message is its stamp (a scan: its first and *)
(* last point time); a state is the time it represents; the outcome of a   *)
(* measurement update is a free choice.  The exposure offset is folded     *)
(* into the image stamps, and distinct ticks of images are far enough      *)
(* apart for the duplicate and minimum-interval tests of img_cbk.          *)
(***************************************************************************)
EXTENDS Integers, Sequences, FiniteSets, TLC

CONSTANTS
  Scans,            \* the LiDAR scans in the order the driver sends them
  ImuStamps,        \* stamps of the IMU samples the sensor sends
  ImuCopies,        \* how often one stamp may be sent (1: stamps are unique)
  ImuLag,           \* how far behind the newest stamp a sample may arrive
  ImgStamps,        \* stamps of the images the camera sends
  ImgLag,           \* how far behind the newest stamp an image may arrive
  MaxLidar, MaxImu, MaxImg, MaxPropImu,   \* buffer capacities, 0: unbounded
  ImgBufferMin,     \* sync_img_buffer_min_size_
  AcceptOutOfOrder, \* deterministic_imu_accept_out_of_order_en_
  MaxIniCount,      \* samples IMU_init needs
  ImuPropEnable     \* imu_prop_enable: the IMU-rate odometry

Scan == [beg : Nat, end : Nat, tiny : BOOLEAN]   \* tiny: at most one point

ASSUME ScansAssumption == Scans \in Seq(Scan)
ASSUME StampsAssumption ==
  /\ ImuStamps \in SUBSET (Nat \ {0}) /\ ImgStamps \in SUBSET (Nat \ {0})
  /\ \A i \in DOMAIN Scans : Scans[i].beg > 0
ASSUME SizesAssumption ==
  {ImuCopies, ImuLag, ImgLag, MaxLidar, MaxImu, MaxImg, MaxPropImu,
   ImgBufferMin, MaxIniCount} \subseteq Nat
ASSUME FlagsAssumption == {AcceptOutOfOrder, ImuPropEnable} \subseteq BOOLEAN

Unset == -1         \* a time not assigned yet: -1.0 in the code

VARIABLES
  pc,               \* where run() is: "spin", "imu", "estimate", "finish", or
                    \* "dead" by an exception
  sent,             \* the sensors: what has been sent so far
  lid_buffer, imu_buffer, img_buffer,     \* lid_raw_data_, imu_ and img_time_buffer
  newest,           \* last_timestamp_lidar, _imu and _img
  lidar_pushed, scan,                     \* the scan sync_packages has opened
  clock,            \* LidarMeasures.last_lio_update_time
  event,            \* the event dispatched by sync_packages
  need_init, init_iter_num,               \* imu_need_init and its counter
  core,             \* _state with the IMU propagation state, see Core
  working, before,  \* imu_working_: is a transaction open, its checkpoint
  accepted,         \* was the measurement update accepted
  pending_odom,     \* pending_raw_backend_odom_
  last_odom,        \* last_raw_backend_odom_stamp_ns_
  map_inited,       \* lidar_map_inited
  life,             \* livo_scan_lifecycle_
  prop,             \* the IMU-rate propagation, see PropState
  hist              \* history: samples lost, images late, end of initialization

sensorVars == <<sent>>
bufferVars == <<lid_buffer, imu_buffer, img_buffer, newest>>
syncVars   == <<lidar_pushed, scan, clock, event>>
imuVars    == <<need_init, init_iter_num>>
txVars     == <<core, working, before, accepted, pending_odom, last_odom>>
vars == <<pc, sensorVars, bufferVars, syncVars, imuVars, txVars, map_inited,
          life, prop, hist>>

\* The persistent core: the time _state represents, last_prop_end_time, the
\* stamp of last_imu and coverage_complete_.
Core == [state : Nat, cov : Nat, carry : Nat, complete : BOOLEAN]
NoCore == [state |-> 0, cov |-> 0, carry |-> 0, complete |-> FALSE]

Times == Nat \cup {Unset}

Sensors == [lid : 0..Len(Scans), imu : [ImuStamps -> 0..ImuCopies],
            img : SUBSET ImgStamps]

Newest == [lid : Times, imu : Times, img : Times]

\* LivoScanLifecycle: end and state-transaction counts of the current scan.
Lifecycle == [active : BOOLEAN, required : BOOLEAN, end : Nat, lio : Nat,
              ins : Nat, last_t : Times]

\* The IMU-rate propagation: its buffer, newest_imu and new_imu, the state it
\* restarts from (latest_ekf_time and the time latest_ekf_state represents,
\* state_update_flg), and where it got.
PropState == [buf : Seq(ImuStamps), newest : Times, new : BOOLEAN, once : BOOLEAN,
              latest : Times, at : Nat, update : BOOLEAN, reached : Times]

History == [late : SUBSET ImgStamps, ready : Times]

Events == [kind : {"VIO", "LIO"}, time : Nat, imu : Seq(ImuStamps)]
NoEvent == [kind |-> "LIO", time |-> 0, imu |-> <<>>]

-----------------------------------------------------------------------------
(* Buffers.                                                                *)

\* Length of the longest prefix of s with stamps up to t: where the loops
\* `while (!empty && front <= t) pop_front` stop.
Upto(s, t) == CHOOSE n \in 0..Len(s) :
                /\ \A i \in 1..n : s[i] <= t
                /\ n < Len(s) => s[n + 1] > t

PopUpto(s, t) == SubSeq(s, Upto(s, t) + 1, Len(s))

\* Mutant: an overflow clears the buffer.
KeepNone(s, cap) == IF cap > 0 /\ Len(s) > cap THEN <<>> ELSE s

\* push_back, then evict from the front while the capacity is exceeded.
KeepNewest(s, cap) == IF cap > 0 /\ Len(s) > cap
                      THEN SubSeq(s, Len(s) - cap + 1, Len(s)) ELSE s

Insert(s, t) == SubSeq(s, 1, Upto(s, t - 1)) \o <<t>> \o PopUpto(s, t - 1)

Ordered(s) == \A i, j \in DOMAIN s : i < j => s[i] <= s[j]

Elements(s) == {s[i] : i \in DOMAIN s}

Occurrences(s, x) == Cardinality({i \in DOMAIN s : s[i] = x})

Rank(s, i) == Cardinality({j \in DOMAIN s : s[j] < s[i] \/ (s[j] = s[i] /\ j <= i)})

\* What std::sort leaves in a buffer: its ordered rearrangement.
SortedForms(s) ==
  {t \in {[k \in 1..Len(s) |-> s[CHOOSE i \in DOMAIN s : Rank(s, i) = k]]} :
     /\ Ordered(t) /\ Elements(t) = Elements(s)
     /\ \A x \in Elements(s) : Occurrences(t, x) = Occurrences(s, x)}

\* An exception leaves run(): the node is gone.
Throw == pc' = "dead" /\ UNCHANGED <<sensorVars, bufferVars, syncVars, imuVars,
                                     txVars, map_inited, life, prop, hist>>

-----------------------------------------------------------------------------
(* The callbacks, run by spinOnce between two events.                      *)

\* The sensors (external): a message may be lost (never sent) and may arrive
\* after newer ones, as far behind as the lag allows.
InLag(t, stamps, lag) == \A u \in stamps : u - t <= lag

ReceiveScan ==
  /\ pc = "spin" /\ sent.lid < Len(Scans)
  /\ LET s == Scans[sent.lid + 1] IN
     /\ sent' = [sent EXCEPT !.lid = @ + 1]
     /\ IF s.beg < newest.lid THEN UNCHANGED <<lid_buffer, newest>>
        ELSE /\ lid_buffer' = KeepNewest(Append(lid_buffer, s), MaxLidar)
             /\ newest' = [newest EXCEPT !.lid = s.beg]
  /\ UNCHANGED <<pc, imu_buffer, img_buffer, syncVars, imuVars, txVars,
                 map_inited, life, prop, hist>>

\* imu_cbk's part for the IMU-rate odometry.
BufferPropImu(t) ==
  prop' = IF ~ImuPropEnable THEN prop
          ELSE [prop EXCEPT !.buf = IF need_init THEN @
                                    ELSE KeepNewest(Append(@, t), MaxPropImu),
                            !.newest = t, !.new = TRUE]

ReceiveImu(t) ==
  /\ pc = "spin" /\ sent.imu[t] < ImuCopies
  /\ InLag(t, {u \in ImuStamps : sent.imu[u] > 0}, ImuLag)
  /\ sent' = [sent EXCEPT !.imu[t] = @ + 1]
  /\ IF newest.imu > 0 /\ t < newest.imu /\ ~AcceptOutOfOrder
     THEN UNCHANGED <<imu_buffer, newest, prop>>
     ELSE /\ newest' = [newest EXCEPT !.imu = IF t > @ THEN t ELSE @]
          /\ imu_buffer' = KeepNewest(Append(imu_buffer, t), MaxImu)
          /\ BufferPropImu(t)
  /\ UNCHANGED <<pc, lid_buffer, img_buffer, syncVars, imuVars, txVars,
                 map_inited, life, hist>>

ReceiveImg(t) ==
  /\ pc = "spin" /\ t \notin sent.img /\ InLag(t, sent.img, ImgLag)
  /\ sent' = [sent EXCEPT !.img = @ \cup {t}]
  /\ IF t \in Elements(img_buffer) THEN UNCHANGED <<img_buffer, newest, hist>>
     ELSE /\ img_buffer' = KeepNewest(Insert(img_buffer, t), MaxImg)
          /\ newest' = [newest EXCEPT !.img = IF t > @ THEN t ELSE @]
          /\ hist' = IF t < newest.img THEN [hist EXCEPT !.late = @ \cup {t}] ELSE hist
  /\ UNCHANGED <<pc, lid_buffer, imu_buffer, syncVars, imuVars, txVars,
                 map_inited, life, prop>>

-----------------------------------------------------------------------------
(* sync_packages: one call opens a scan when none is open, drops stale     *)
(* images, and dispatches the next event or waits.                         *)

Opened == IF lidar_pushed THEN scan ELSE Head(lid_buffer)

OpenedClock == IF ~lidar_pushed /\ clock < 0 THEN Opened.beg ELSE clock

\* ImuProcess::beginLidarScan gives the first propagation interval a start.
OpenedCore ==
  IF lidar_pushed \/ core.cov > 0 THEN core
  ELSE [core EXCEPT !.cov = IF core.carry > 0 THEN core.carry ELSE Opened.beg]

\* LivoScanLifecycle::validateCompleted finds the last scan not closed once.
ScanIncomplete == life.active /\ life.required /\ (life.lio # 1 \/ life.ins > 1)

BeginThrows == ~lidar_pushed /\ (ScanIncomplete \/ Opened.end <= Opened.beg)

OpenedLife ==
  IF lidar_pushed THEN life
  ELSE [active |-> TRUE, required |-> ~need_init, end |-> Opened.end,
        lio |-> 0, ins |-> 0, last_t |-> OpenedClock]

\* Mutant: an image older than the state is kept.
StaleImages == img_buffer

FreshImages == PopUpto(img_buffer, OpenedClock - 1)

ImageInsideScan == /\ ~need_init /\ FreshImages # <<>>
                   /\ Head(FreshImages) < Opened.end

EventTime == IF ImageInsideScan THEN Head(FreshImages) ELSE Opened.end

\* Mutant: a scan is closed without waiting for the image stream.
StreamsBehindNoImageWait ==
  \/ ImageInsideScan /\ Len(FreshImages) < ImgBufferMin
  \/ newest.imu < EventTime

\* Mutant: the image stream has to pass the scan end, not only to reach it.
StreamsBehindBeyond ==
  \/ ImageInsideScan /\ Len(FreshImages) < ImgBufferMin
  \/ ~ImageInsideScan /\ ~need_init /\ newest.img <= Opened.end
  \/ newest.imu < EventTime

\* The streams have not advanced far enough to order the next event.
StreamsBehind ==
  \/ ImageInsideScan /\ Len(FreshImages) < ImgBufferMin
  \/ ~ImageInsideScan /\ ~need_init /\ newest.img < Opened.end
  \/ newest.imu < EventTime

\* ImuProcess::coverageNeedsRight: at most one new sample and none at the
\* request, so a sample beyond it has to support the prediction.
NeedsRight(c, request, count, last) ==
  /\ request > c.cov /\ count <= 1 /\ last < request
  /\ count = 0 \/ c.carry < c.cov

\* imu_transaction::view: the samples in (cov, target], and the right support.
View(buf, c, target) ==
  LET lo == Upto(buf, c.cov)
      hi == Upto(buf, target)
      last == IF hi > lo THEN buf[hi] ELSE c.carry
      right == NeedsRight(c, target, hi - lo, last)
  IN [ready |-> right => hi < Len(buf),
      imu   |-> SubSeq(buf, lo + 1, IF right THEN hi + 1 ELSE hi)]

\* During initialization the event consumes the samples it is given.
Drain(buf, target) ==
  SubSeq(buf, Upto(buf, OpenedClock) + 1, Upto(buf, target))

OpenScan == scan' = Opened /\ clock' = OpenedClock /\ core' = OpenedCore

\* sync_packages returns false, keeping what it did before the return.
SyncWait(buf) ==
  /\ OpenScan /\ life' = OpenedLife /\ lidar_pushed' = TRUE
  /\ img_buffer' = FreshImages /\ imu_buffer' = buf
  /\ UNCHANGED <<pc, lid_buffer, event>>

\* The images of the scan come first, one VIO event each.  noteImage throws
\* when the event is older than the last one of the scan.
DispatchVIO(buf) ==
  /\ ImageInsideScan
  /\ OpenScan /\ lidar_pushed' = TRUE
  /\ img_buffer' = Tail(FreshImages) /\ imu_buffer' = buf
  /\ event' = [kind |-> "VIO", time |-> EventTime,
               imu |-> View(buf, OpenedCore, EventTime).imu]
  /\ life' = [OpenedLife EXCEPT !.last_t = IF EventTime > @ THEN EventTime ELSE @]
  /\ pc' = IF EventTime < OpenedLife.last_t THEN "dead" ELSE "imu"
  /\ UNCHANGED lid_buffer

\* Then the scan end closes it with one LIO event and leaves the buffer.
DispatchLIO(buf) ==
  /\ ~ImageInsideScan
  /\ OpenScan /\ life' = OpenedLife /\ lidar_pushed' = FALSE
  /\ lid_buffer' = Tail(lid_buffer) /\ img_buffer' = FreshImages
  /\ imu_buffer' = IF need_init THEN PopUpto(buf, EventTime) ELSE buf
  /\ event' = [kind |-> "LIO", time |-> EventTime,
               imu |-> IF need_init THEN Drain(buf, EventTime)
                       ELSE View(buf, OpenedCore, EventTime).imu]
  /\ pc' = "imu"

\* view throws for a target before the persistent state, and waits for the
\* right support when the prediction needs one.
SyncEvent(buf) ==
  \/ ~need_init /\ EventTime < OpenedCore.cov /\ Throw
  \/ /\ need_init \/ EventTime >= OpenedCore.cov
     /\ IF need_init \/ View(buf, OpenedCore, EventTime).ready
        THEN DispatchVIO(buf) \/ DispatchLIO(buf)
        ELSE SyncWait(buf)
     /\ UNCHANGED <<sensorVars, newest, imuVars, working, before, accepted, pending_odom,
                    last_odom, map_inited, prop, hist>>

Sync ==
  /\ pc = "spin"
  /\ lidar_pushed \/ (lid_buffer # <<>> /\ ~Head(lid_buffer).tiny)
  /\ \/ BeginThrows /\ Throw
     \/ /\ ~BeginThrows /\ StreamsBehind /\ SyncWait(imu_buffer)
        /\ UNCHANGED <<sensorVars, newest, imuVars, working, before, accepted, pending_odom,
                       last_odom, map_inited, prop, hist>>
     \/ /\ ~BeginThrows /\ ~StreamsBehind
        /\ \E buf \in SortedForms(imu_buffer) : SyncEvent(buf)

-----------------------------------------------------------------------------
(* processImu: the transaction begins, the state is propagated to the      *)
(* event (or the initialization advances), the clock moves to the event.   *)

\* UndistortPcl's walk over consecutive samples, the carried one first; the
\* interval of a pair is cut at the propagation start and at its end.
Walk == <<core.carry>> \o event.imu

HasRight == event.imu # <<>> /\ event.imu[Len(event.imu)] > event.time

NewCount == Len(event.imu) - (IF HasRight THEN 1 ELSE 0)

LastSelected == Walk[NewCount + 1]

Deficient == NeedsRight(core, event.time, NewCount, LastSelected)

IntervalStart(i) == IF Walk[i] < core.cov THEN core.cov ELSE Walk[i]

IntervalEnd(i) ==
  IF \/ Deficient /\ Walk[i + 1] > event.time
     \/ ~Deficient /\ Walk[i] >= core.cov /\ i = Len(Walk) - 1
  THEN event.time ELSE Walk[i + 1]

\* coverage_complete_: the intervals are nonempty and tile (cov, event].
CoverageComplete ==
  LET pairs == 1..(Len(Walk) - 1) IN
  /\ \A i \in pairs :
       /\ IntervalEnd(i) > IntervalStart(i)
       /\ IntervalStart(i) = IF i = 1 THEN core.cov ELSE IntervalEnd(i - 1)
  /\ event.time = IF pairs = {} THEN core.cov ELSE IntervalEnd(Len(Walk) - 1)

\* Mutant: without a new sample the carried one is forgotten.
PropagatedNoCarry ==
  [state |-> event.time, cov |-> event.time,
   carry |-> IF NewCount = 0 THEN Unset ELSE LastSelected,
   complete |-> CoverageComplete]

\* The support is lookahead: it is never consumed.
Propagated ==
  [state |-> event.time, cov |-> event.time,
   carry |-> LastSelected,
   complete |-> CoverageComplete]

\* The checks of UndistortPcl, and the test of coverage_working after it.
PropagationThrows ==
  \/ Deficient # HasRight
  \/ HasRight /\ (core.carry > core.cov \/ ~CoverageComplete)
  \/ event.time < core.cov

\* Process2: the initialization would end on a sample after its event.
InitThrows ==
  /\ event.imu # <<>> /\ init_iter_num + Len(event.imu) >= MaxIniCount
  /\ HasRight

PredictionThrows == IF need_init THEN InitThrows ELSE working \/ PropagationThrows

\* noteLioTransaction.
NoteLio ==
  life' = IF event.kind = "LIO" /\ life.active /\ life.required
          THEN [life EXCEPT !.lio = @ + 1,
                            !.last_t = IF event.time > @ THEN event.time ELSE @]
          ELSE life

NoteLioThrows ==
  /\ event.kind = "LIO" /\ life.active /\ life.required
  /\ event.time < life.last_t \/ life.lio # 0 \/ event.time # life.end

\* Process2 while imu_need_init: count the samples (Reset clears the
\* propagation before the first); the last one becomes the start of the
\* propagated trajectory when there are enough.
InitImu ==
  /\ need_init
  /\ init_iter_num' = init_iter_num + Len(event.imu)
  /\ need_init' = (event.imu = <<>> \/ init_iter_num' < MaxIniCount)
  /\ LET last == event.imu[Len(event.imu)] IN
     core' = IF event.imu = <<>> THEN core
             ELSE [core EXCEPT !.carry = last,
                               !.state = IF need_init' THEN @ ELSE last,
                               !.cov = IF ~need_init' THEN last
                                       ELSE IF init_iter_num = 0 THEN 0 ELSE @]
  /\ hist' = [hist EXCEPT !.ready = IF need_init' THEN @ ELSE event.time]
  /\ UNCHANGED <<working, before>>

Propagate ==
  /\ ~need_init
  /\ working' = TRUE /\ before' = core /\ core' = Propagated
  /\ UNCHANGED <<imuVars, hist>>

ProcessImu ==
  /\ pc = "imu"
  /\ \/ (event.time < clock \/ PredictionThrows \/ NoteLioThrows) /\ Throw
     \/ /\ event.time >= clock /\ ~PredictionThrows /\ ~NoteLioThrows
        /\ InitImu \/ Propagate
        /\ clock' = event.time /\ NoteLio /\ pc' = "estimate"
        /\ UNCHANGED <<sensorVars, bufferVars, lidar_pushed, scan, event,
                       accepted, pending_odom, last_odom, map_inited, prop>>

-----------------------------------------------------------------------------
(* stateEstimationAndMapping: the handler of the event, then the end of    *)
(* the transaction.                                                        *)

Published(t) == IF t > last_odom THEN t ELSE last_odom  \* repeated and older stamps: suppressed

\* Mutant: the pose of a working query goes out at once.
PublishOdometryNow == last_odom' = Published(clock) /\ UNCHANGED pending_odom

\* publishRawBackendOdometry only remembers the pose of a working query.
PublishOdometry ==
  IF working THEN pending_odom' = clock /\ UNCHANGED last_odom
  ELSE last_odom' = Published(clock) /\ UNCHANGED pending_odom

\* The estimate handed to the IMU-rate propagation.
Handoff ==
  prop' = IF ImuPropEnable
          THEN [prop EXCEPT !.once = TRUE, !.latest = clock, !.at = core.state,
                            !.update = TRUE]
          ELSE prop

VioOutcomes == {"no_features", "skipped", "rejected", "accepted"}

\* handleVIO.  Features need the map of an earlier scan, and an incomplete
\* prediction may not be updated.  Without features nothing is published.
HandleVIO(outcome) ==
  /\ pc = "estimate" /\ event.kind = "VIO"
  /\ outcome # "no_features" => map_inited
  /\ \/ outcome # "no_features" /\ ~core.complete /\ Throw
     \/ /\ outcome = "no_features" \/ core.complete
        /\ accepted' = (outcome = "accepted")
        /\ IF outcome = "no_features" THEN UNCHANGED <<pending_odom, last_odom, prop>>
           ELSE PublishOdometry /\ Handoff
        /\ pc' = "finish"
        /\ UNCHANGED <<sensorVars, bufferVars, syncVars, imuVars, core, working,
                       before, map_inited, life, hist>>

LioOutcomes == {"no_points", "rejected", "accepted"}

\* The scan goes into the map when the map is built from it, and when it is
\* accepted and no guard holds it back (insert); noteMapInsertion is called
\* once for a scan that needs a measurement.
MapNoted(outcome, insert) ==
  life.required /\ outcome # "no_points" /\ (insert \/ ~map_inited)

\* handleLIO.  There are no points in a scan that served the initialization.
HandleLIO(outcome, insert) ==
  /\ pc = "estimate" /\ event.kind = "LIO"
  /\ working \/ outcome = "no_points"
  /\ insert => outcome = "accepted"
  /\ \/ MapNoted(outcome, insert) /\ (life.lio # 1 \/ life.ins # 0) /\ Throw
     \/ /\ MapNoted(outcome, insert) => life.lio = 1 /\ life.ins = 0
        /\ life' = [life EXCEPT !.ins = IF MapNoted(outcome, insert) THEN @ + 1 ELSE @]
        /\ IF outcome = "no_points"
           THEN UNCHANGED <<accepted, map_inited, pending_odom, last_odom, prop>>
           ELSE /\ accepted' = (outcome = "accepted") /\ map_inited' = TRUE
                /\ PublishOdometry /\ Handoff
        /\ pc' = "finish"
        /\ UNCHANGED <<sensorVars, bufferVars, syncVars, imuVars, core, working,
                       before, hist>>

\* WorkingCheckpoint::finish with scan or accepted: the core stays, the IMU
\* samples it has consumed are released, the remembered pose is published.
Commit ==
  /\ core' = core /\ imu_buffer' = PopUpto(imu_buffer, core.cov)
  /\ last_odom' = IF pending_odom = Unset THEN last_odom ELSE Published(pending_odom)

\* Mutant: the rollback restores the state without the IMU propagation.
RollbackStateOnly ==
  core' = [core EXCEPT !.state = before.state] /\ UNCHANGED <<imu_buffer, last_odom>>

\* A query that is neither restores state, IMU and coverage.
Rollback == core' = before /\ UNCHANGED <<imu_buffer, last_odom>>

\* Mutant: a scan whose measurement update was rejected is rolled back.
PersistentIfAccepted == accepted

Persistent == event.kind = "LIO" \/ accepted

\* Mutant: the commit does not look at the coverage.
CommitNeverThrows == FALSE

CommitThrows == working /\ Persistent /\ ~core.complete

\* Mutant: the handed estimate stays the one of the working query.
RenewedNever == prop

\* The state handed to the IMU-rate propagation is renewed while it has not
\* been picked up; the time handed with it is not.
Renewed == IF prop.update THEN [prop EXCEPT !.at = core'.state] ELSE prop

\* The end of stateEstimationAndMapping.  An event of the initialization has
\* no transaction.
Finish ==
  /\ pc = "finish"
  /\ \/ CommitThrows /\ Throw
     \/ /\ ~CommitThrows
        /\ \/ working /\ Persistent /\ Commit
           \/ working /\ ~Persistent /\ Rollback
           \/ ~working /\ UNCHANGED <<core, imu_buffer, last_odom>>
        /\ working' = FALSE /\ before' = NoCore /\ pending_odom' = Unset
        /\ prop' = Renewed
        /\ pc' = "spin"
        /\ UNCHANGED <<sensorVars, lid_buffer, img_buffer, newest, syncVars,
                       imuVars, accepted, map_inited, life, hist>>

-----------------------------------------------------------------------------
(* imu_prop_callback, a timer run by spinOnce.  After a new estimate it    *)
(* integrates from there to the newest buffered sample; otherwise by the   *)
(* newest sample received.                                                 *)

ImuPropTimer ==
  /\ pc = "spin" /\ ImuPropEnable
  /\ ~need_init /\ prop.new /\ prop.once
  /\ IF prop.buf = <<>> THEN prop' = [prop EXCEPT !.new = FALSE]
     ELSE \E buf \in SortedForms(prop.buf) :
            LET used == PopUpto(buf, prop.latest - 1) IN
            prop' = IF prop.update
                    THEN [prop EXCEPT
                            !.new = FALSE, !.update = FALSE, !.buf = used,
                            !.reached = IF used = <<>> THEN prop.latest
                                        ELSE used[Len(used)]]
                    ELSE [prop EXCEPT !.new = FALSE, !.buf = buf,
                                      !.reached = prop.newest]
  /\ UNCHANGED <<pc, sensorVars, bufferVars, syncVars, imuVars, txVars,
                 map_inited, life, hist>>

-----------------------------------------------------------------------------
Init ==
  /\ pc = "spin"
  /\ sent = [lid |-> 0, imu |-> [t \in ImuStamps |-> 0], img |-> {}]
  /\ lid_buffer = <<>> /\ imu_buffer = <<>> /\ img_buffer = <<>>
  /\ newest = [lid |-> Unset, imu |-> Unset, img |-> Unset]
  /\ lidar_pushed = FALSE /\ scan = [beg |-> 0, end |-> 0, tiny |-> FALSE]
  /\ clock = Unset /\ event = NoEvent
  /\ need_init = TRUE /\ init_iter_num = 0
  /\ core = NoCore /\ working = FALSE /\ before = NoCore /\ accepted = FALSE
  /\ pending_odom = Unset /\ last_odom = Unset
  /\ map_inited = FALSE
  /\ life = [active |-> FALSE, required |-> FALSE, end |-> 0, lio |-> 0,
             ins |-> 0, last_t |-> Unset]
  /\ prop = [buf |-> <<>>, newest |-> Unset, new |-> FALSE, once |-> FALSE,
             latest |-> Unset, at |-> 0, update |-> FALSE, reached |-> Unset]
  /\ hist = [late |-> {}, ready |-> Unset]

ReceiveAnyImu == \E t \in ImuStamps : ReceiveImu(t)
ReceiveAnyImg == \E t \in ImgStamps : ReceiveImg(t)

\* What run() does after a spin.
Step ==
  \/ Sync
  \/ ProcessImu
  \/ \E outcome \in VioOutcomes : HandleVIO(outcome)
  \/ \E outcome \in LioOutcomes, insert \in BOOLEAN : HandleLIO(outcome, insert)
  \/ Finish

Next == ReceiveScan \/ ReceiveAnyImu \/ ReceiveAnyImg \/ Step \/ ImuPropTimer

Spec == Init /\ [][Next]_vars

\* run() never stops stepping, and the sensors go on sending; each spin runs
\* the callbacks of everything received.
FairSpec == /\ Spec /\ WF_vars(Step)
            /\ WF_vars(ReceiveScan) /\ WF_vars(ReceiveAnyImu) /\ WF_vars(ReceiveAnyImg)

-----------------------------------------------------------------------------
(* Properties.                                                             *)

\* Every variable has its type.
TypeOK ==
  /\ pc \in {"spin", "imu", "estimate", "finish", "dead"}
  /\ sent \in Sensors /\ newest \in Newest
  /\ lid_buffer \in Seq(Scan) /\ imu_buffer \in Seq(ImuStamps)
  /\ img_buffer \in Seq(ImgStamps)
  /\ lidar_pushed \in BOOLEAN /\ scan \in Scan /\ clock \in Times
  /\ event \in Events
  /\ need_init \in BOOLEAN /\ init_iter_num \in Nat
  /\ core \in Core /\ working \in BOOLEAN /\ before \in Core /\ accepted \in BOOLEAN
  /\ pending_odom \in Times /\ last_odom \in Times
  /\ map_inited \in BOOLEAN
  /\ life \in Lifecycle /\ prop \in PropState /\ hist \in History

AtRest == pc = "spin" /\ ~need_init

\* The driver's frames follow each other: a scan with points takes time, and
\* none ends before an earlier one (what NoFault is proved under).
ScansInOrder ==
  /\ \A i \in DOMAIN Scans : ~Scans[i].tiny => Scans[i].beg < Scans[i].end
  /\ \A i, j \in DOMAIN Scans : i < j => Scans[i].end <= Scans[j].end

\* No exception of the runtime contracts leaves run() while IMU stamps are
\* unique: the scan lifecycle, the IMU view, the propagation coverage, the
\* clock and the transaction agree with each other whatever the order and the
\* loss of the sensor messages.  (With a stamp twice the commit may throw.)
NoFault == pc = "dead" => \E t \in ImuStamps : sent.imu[t] > 1

\* Between events the core is one commit: _state, the end of the propagation
\* and the carried sample belong together, with no transaction or pose left
\* over ("atomic state/P commits").
AtomicCore ==
  AtRest => /\ core.state = core.cov /\ core.carry <= core.cov /\ core.cov <= clock
            /\ ~working /\ pending_odom = Unset

\* A scan that was closed is persistent: with no scan open and nothing being
\* processed, core and clock are at its end even if its measurement update was
\* rejected, and every image query inside it that was rolled back is caught up.
ScanPersistent ==
  AtRest /\ ~lidar_pushed /\ life.required => core.cov = life.end /\ clock = life.end

\* sync_packages never pops a scan from an empty buffer: while a scan is open
\* the evictions of the LiDAR callback leave one to pop (not always that one).
OpenScanBuffered == lidar_pushed => lid_buffer # <<>>

\* A buffered image that arrived in order after the initialization is never
\* older than the estimator's clock: scans are closed only after the image
\* stream has passed them, so sync_packages drops only images that came late.
InOrderImagesFresh ==
  AtRest => \A t \in Elements(img_buffer) \ hist.late : t >= hist.ready => t >= clock

\* Raw backend odometry leaves the estimator only with a commit, is stamped
\* with the committed time, and its stamps increase ("never expose a working
\* query to the independent fixed-lag backend").
OdometryIsCommitted ==
  [][last_odom' # last_odom =>
       /\ last_odom' > last_odom
       /\ pc' = "spin" /\ last_odom' = core'.cov /\ last_odom' = core'.state]_vars

\* Samples the IMU-rate odometry drops as useless are contained in the state
\* it restarts from.
DroppedImuUseless ==
  [][prop.update /\ ~prop'.update =>
       \A t \in Elements(prop.buf) \ Elements(prop'.buf) : t <= prop.at]_vars

\* An estimate waiting for the IMU-rate odometry is the persistent state, even
\* when the query that handed it over was rolled back afterwards.
NoSpeculativeHandoff == AtRest /\ prop.update => prop.at = core.state

\* Once the map exists the core never rests on a prediction whose IMU intervals
\* have a hole (its coverage flag): with repeated stamps the commit throws.
CommittedComplete == AtRest /\ map_inited => core.complete

\* An open scan is closed by its LIO event: no stream waits for another that
\* waits for it.
ScanCloses == lidar_pushed ~> ~lidar_pushed

\* What is persistent while a query is working on the core.
PersistentCore == IF working THEN before ELSE core

Commits == INSTANCE EstimatorCommits
             WITH ready <- ~need_init,
                  state <- PersistentCore.state,
                  imu   <- IF need_init THEN 0 ELSE PersistentCore.cov,
                  odom  <- last_odom,
                  grant <- pc = "finish" /\ Persistent

\* The estimator implements EstimatorCommits.
ImplementsCommits == Commits!Spec
=============================================================================
