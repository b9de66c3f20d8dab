----------------------------- MODULE LivoxDriver -----------------------------
(***************************************************************************)
(* The data path of the Livox driver.  The SDK thread queues raw packets   *)
(* and IMU samples; the processing thread (PubHandler) collects the points *)
(* of a LiDAR into frames and pushes them into a ring without a lock; two  *)
(* threads of Lddc wait for a semaphore, read the rings and the IMU lists, *)
(* publish, and keep the shared timestamp of one LiDAR.  A point is its    *)
(* time stamp, one per packet; a tick is a millisecond.                    *)
(***************************************************************************)
EXTENDS LivoxSetup, Integers, Sequences, SequencesExt

CONSTANTS
  Configs,      \* records of ConfigType: what an instance does
  Offset,       \* what each clock shows at tick 0
  QueueSize,    \* size the publish frequency asks for
  IndexWidth,   \* rd_idx and wr_idx wrap at this value (2^32 in the code)
  ReadySamples, MaxStampGap, MinArrival, MaxArrival,  \* of the ready gate
  SharedLidar,  \* shared_timestamp_lidar_index
  MaxRaw        \* bound: packets the processing thread is behind

TimeTypes == {"nosync", "ptp", "gps"}

ConfigType ==
  [ interval : Nat \ {0},         \* publish_interval_ms_
    clocks : SUBSET TimeTypes,    \* time types the packets have
    lidars : SUBSET Lidars,       \* LiDARs that send
    ready : SUBSET Lidars,        \* LiDARs set up at the start
    ticks : Nat, imu : Nat, exit : BOOLEAN ]  \* bounds: time, IMU samples, exit

\* RoundupPowerOf2: the size of the ring (CalculatePacketQueueSize asks for at
\* most 101).
Powers == {1, 2, 4, 8, 16, 32, 64, 128}
RingSize == CHOOSE p \in Powers : p >= QueueSize /\ \A q \in Powers : q >= QueueSize => p <= q

ASSUME DriverAssumption ==
  /\ Configs \subseteq ConfigType
  /\ QueueSize \in 1..101
  /\ ReadySamples \in Nat /\ ReadySamples >= 2
  /\ {MaxStampGap, MinArrival, MaxArrival} \subseteq Nat
  /\ IndexWidth \in Nat /\ IndexWidth % RingSize = 0 /\ IndexWidth > RingSize
  /\ Offset \in [TimeTypes -> Nat]
  /\ SharedLidar \in Nat

VARIABLES
  cfg,      \* the configuration
  now,      \* ticks
  raw,      \* raw_packet_queue_
  points,   \* of each LiDAR: points_clouds_ and the last packet's time type
  lastPub,  \* last_pub_times_ (-1: none)
  prod,     \* the processing thread: where it is in PushLidarData
  ring,     \* of each LiDAR: LidarDataQueue
  pcdSem, imuSem,  \* the semaphores' counts
  cons,     \* the point cloud thread
  started,  \* startup_queue_initialized_
  gate,     \* LegacyTimestampReadyGate
  clock,    \* last_lidar_time_type_ of SharedLidar
  shared,   \* what SharedTimestampState says, and whether it is mapped
  imu,      \* the IMU lists, the SDK thread's position, the IMU thread
  exit,     \* request_exit_ and how far RequestExit is
  made, seen  \* history: frames made; what was published and observed

vars == <<cfg, setup, now, raw, points, lastPub, prod, ring, pcdSem, imuSem, cons,
          started, gate, clock, shared, imu, exit, made, seen>>
pipe == <<raw, points, lastPub>>
lddc == <<cons, started, gate, clock, shared, seen>>

NoFrame == [n |-> 0, base |-> 0, clock |-> "none"]
NoGate  == [count |-> 0, stamp |-> 0, clock |-> "none", arrival |-> 0]
Sample(stamp, type) == [stamp |-> stamp, clock |-> type, arrival |-> now]

Init ==
  /\ cfg \in Configs
  /\ setup = [l \in Lidars |-> IF l \in cfg.ready THEN SetUp(l) ELSE Fresh(l)]
  /\ now = 0 /\ raw = <<>> /\ exit = "no"
  /\ points = [l \in Lidars |-> <<>>]
  /\ lastPub = [l \in Lidars |-> -1]
  /\ prod = [pc |-> "idle", lidar |-> 1, frame |-> NoFrame]
  /\ ring = [l \in Lidars |-> [rd |-> 0, wr |-> 0, exists |-> FALSE,
                               slot |-> [i \in 0..RingSize - 1 |-> NoFrame]]]
  /\ pcdSem = 0 /\ imuSem = 0
  /\ cons = [pc |-> "top", lidar |-> 1, frame |-> NoFrame, dropping |-> FALSE]
  /\ started = [l \in Lidars |-> FALSE]
  /\ gate = NoGate /\ clock = "none"
  /\ \E ok \in BOOLEAN : shared = [open |-> ok, ready |-> FALSE, stamp |-> 0]
  /\ imu = [queue |-> [l \in Lidars |-> 0], sent |-> 0, sdk |-> "idle", pc |-> "top", lidar |-> 1]
  /\ made = [l \in Lidars |-> 0]
  /\ seen = [last |-> [l \in Lidars |-> 0], stale |-> [l \in Lidars |-> 0],
             intact |-> TRUE, samples |-> <<>>]
-----------------------------------------------------------------------------
(* Packets and frames (pub_handler.cpp) *)

\* A tick in which a LiDAR sends a packet: it is stamped by the device's clock or,
\* without synchronization, by the host's when it arrives.
Packet(l, type) ==
  /\ now < cfg.ticks /\ Len(raw) < MaxRaw
  /\ now' = now + 1
  /\ raw' = Append(raw, [lidar |-> l, stamp |-> now' + Offset[type], clock |-> type])
  /\ UNCHANGED <<cfg, setup, points, lastPub, prod, ring, pcdSem, imuSem, lddc, imu, exit, made>>

\* A tick without a packet, or with one that is lost on the network.
Tick ==
  /\ now < cfg.ticks
  /\ now' = now + 1
  /\ UNCHANGED <<cfg, setup, pipe, prod, ring, pcdSem, imuSem, lddc, imu, exit, made>>

\* CheckTimer for a synchronized clock: the last point is at a multiple of the
\* interval and the frame is long enough, by unsigned subtraction.
FrameEnds(pts) ==
  LET recent == Last(pts) base == Head(pts)
  IN /\ recent # 0 /\ recent % cfg.interval = 0
     /\ recent < base \/ recent - base >= cfg.interval - 1

\* ... and for the host's clock: an interval has passed since the last frame.
PublishTimes(l, type) ==
  CASE type # "nosync" -> lastPub[l]
    [] type = "nosync" /\ lastPub[l] = -1 -> now
    [] type = "nosync" /\ lastPub[l] # -1 /\ now - lastPub[l] < cfg.interval -> lastPub[l]
    [] OTHER -> lastPub[l] + cfg.interval

Due(l, type, pts) ==
  IF type = "nosync" THEN lastPub[l] # -1 /\ now - lastPub[l] >= cfg.interval ELSE FrameEnds(pts)

\* RawDataProcess: one packet, and the frame it completes.
ProcessPacket ==
  LET p == Head(raw)
      pts == Append(points[p.lidar], p.stamp)
      due == Due(p.lidar, p.clock, pts)
  IN /\ raw # <<>> /\ prod.pc = "idle"
     /\ raw' = Tail(raw)
     /\ lastPub' = [lastPub EXCEPT ![p.lidar] = PublishTimes(p.lidar, p.clock)]
     /\ points' = [points EXCEPT ![p.lidar] = IF due THEN <<>> ELSE <<Head(pts), p.stamp>>]
     /\ made' = IF due THEN [made EXCEPT ![p.lidar] = @ + 1] ELSE made
     /\ prod' = IF due THEN [pc |-> "check", lidar |-> p.lidar,
                             frame |-> [n |-> made[p.lidar] + 1, base |-> Head(pts), clock |-> p.clock]]
                       ELSE prod
     /\ UNCHANGED <<cfg, setup, now, ring, pcdSem, imuSem, lddc, imu, exit>>
-----------------------------------------------------------------------------
(* The ring (ldq.cpp, Lds::PushLidarData) *)

Used(r)  == (r.wr - r.rd) % IndexWidth
Empty(r) == r.rd = r.wr
\* Mutant: one slot more than the ring has.
FullLate(r) == Used(r) > RingSize
Full(r)  == Used(r) > RingSize - 1

At(r, i) == r.slot[i % RingSize]
Bump(i)  == (i + 1) % IndexWidth

Produce(from, to) == prod.pc = from /\ prod' = [prod EXCEPT !.pc = to]

\* PushLidarData: the ring is made at the first frame; a frame that finds it
\* full is lost, and the reader is woken all the same.
CheckFull ==
  LET l == prod.lidar r == ring[l]
  IN /\ Produce("check", IF r.exists /\ Full(r) THEN "signal" ELSE "fill")
     /\ ring' = [ring EXCEPT ![l] = [r EXCEPT !.exists = TRUE]]
     /\ UNCHANGED <<cfg, setup, now, pipe, pcdSem, imuSem, lddc, imu, exit, made>>

\* QueuePushAny: the slot is written field by field, then wr_idx moves.
FillSlot ==
  LET l == prod.lidar r == ring[l]
  IN /\ Produce("fill", "advance")
     /\ ring' = [ring EXCEPT ![l] =
                   [r EXCEPT !.slot = [r.slot EXCEPT ![r.wr % RingSize] = prod.frame]]]
     /\ UNCHANGED <<cfg, setup, now, pipe, pcdSem, imuSem, lddc, imu, exit, made>>

AdvanceWriter ==
  LET l == prod.lidar r == ring[l]
  IN /\ Produce("advance", "signal")
     /\ ring' = [ring EXCEPT ![l] = [r EXCEPT !.wr = Bump(r.wr)]]
     /\ UNCHANGED <<cfg, setup, now, pipe, pcdSem, imuSem, lddc, imu, exit, made>>

\* Mutant: the reader is woken only when the ring was full.
WantingLess(sem) == sem <= 0 /\ Full(ring[prod.lidar])
\* The reader is woken unless a wake-up is already waiting.
Wanting(sem) == sem <= 0

SignalReader ==
  /\ Produce("signal", "idle")
  /\ pcdSem' = IF Wanting(pcdSem) THEN pcdSem + 1 ELSE pcdSem
  /\ UNCHANGED <<cfg, setup, now, pipe, ring, imuSem, lddc, imu, exit, made>>
-----------------------------------------------------------------------------
(* The point cloud thread (Lddc) *)

Consume(from, to) == cons.pc = from /\ cons' = [cons EXCEPT !.pc = to]

\* DistributePointCloudData: nothing is read any more once the exit is asked for.
TopOfLoop ==
  /\ Consume("top", IF exit # "no" THEN "done" ELSE "wait")
  /\ UNCHANGED <<cfg, setup, now, pipe, prod, ring, pcdSem, imuSem, started, gate, clock, shared, seen, imu, exit, made>>

WaitForPoints ==
  /\ cons.pc = "wait" /\ pcdSem > 0
  /\ pcdSem' = pcdSem - 1
  /\ cons' = [cons EXCEPT !.pc = "visit", !.lidar = 1]
  /\ UNCHANGED <<cfg, setup, now, pipe, prod, ring, imuSem, started, gate, clock, shared, seen, imu, exit, made>>

NextLidar(c) == IF c.lidar = NumLidars THEN [c EXCEPT !.pc = "top"]
                                       ELSE [c EXCEPT !.pc = "visit", !.lidar = c.lidar + 1]

\* PollingLidarPointCloudData: a LiDAR that is not sampling is passed over. The
\* first poll finds the backlog of the start.
VisitLidar ==
  LET l == cons.lidar r == ring[l]
      reads == setup[l].sampling /\ r.exists
  IN /\ cons.pc = "visit"
     /\ cons' = IF reads THEN [cons EXCEPT !.pc = IF started[l] THEN "poll" ELSE "drop"] ELSE NextLidar(cons)
     /\ started' = IF reads THEN [started EXCEPT ![l] = TRUE] ELSE started
     /\ seen' = IF reads /\ ~started[l] /\ Used(r) > 1
                THEN [seen EXCEPT !.stale = [seen.stale EXCEPT ![l] = At(r, r.wr + IndexWidth - 2).n]]
                ELSE seen
     /\ UNCHANGED <<cfg, setup, now, pipe, prod, ring, pcdSem, imuSem, gate, clock, shared, imu, exit, made>>

\* QueuePop: the slot is copied, then rd_idx moves.
Pop(c) == [c EXCEPT !.pc = "release", !.frame = At(ring[c.lidar], ring[c.lidar].rd)]

\* Mutant: the backlog is replayed.
NoBacklog(r) == Used(r) > RingSize
\* DropStartupBacklog: all but the newest frame are dropped.
Backlog(r) == Used(r) > 1

DropBacklog ==
  /\ cons.pc = "drop"
  /\ cons' = IF Backlog(ring[cons.lidar]) THEN [Pop(cons) EXCEPT !.dropping = TRUE]
             ELSE [cons EXCEPT !.pc = "poll"]
  /\ UNCHANGED <<cfg, setup, now, pipe, prod, ring, pcdSem, imuSem, started, gate, clock, shared, seen, imu, exit, made>>

\* PollingLidarPointCloudData looks at the exit and at the ring, the loop of
\* Publish... inside it ("again") only at the ring.
PollRing ==
  /\ \/ /\ cons.pc = "poll"
        /\ cons' = IF exit # "no" \/ Empty(ring[cons.lidar]) THEN NextLidar(cons) ELSE Pop(cons)
     \/ /\ cons.pc = "again"
        /\ cons' = IF Empty(ring[cons.lidar]) THEN [cons EXCEPT !.pc = "poll"] ELSE Pop(cons)
  /\ UNCHANGED <<cfg, setup, now, pipe, prod, ring, pcdSem, imuSem, started, gate, clock, shared, seen, imu, exit, made>>

AdvanceReader ==
  LET l == cons.lidar r == ring[l]
  IN /\ cons.pc = "release"
     /\ ring' = [ring EXCEPT ![l] = [r EXCEPT !.rd = Bump(r.rd)]]
     /\ cons' = [cons EXCEPT !.pc = IF cons.dropping THEN "drop" ELSE "publish", !.dropping = FALSE]
     /\ UNCHANGED <<cfg, setup, now, pipe, prod, pcdSem, imuSem, started, gate, clock, shared, seen, imu, exit, made>>

\* LegacyTimestampReadyGate::Observe.
Continuous(g, s) ==
  /\ g.count # 0 /\ s.clock = g.clock
  /\ s.stamp > g.stamp /\ s.stamp - g.stamp <= MaxStampGap
  /\ s.arrival > g.arrival
  /\ s.arrival - g.arrival >= MinArrival /\ s.arrival - g.arrival <= MaxArrival

\* Mutant: a break in the series only stops the count.
ObservedLenient(g, s) ==
  [count |-> IF Continuous(g, s) \/ g.count = 0
             THEN IF g.count < ReadySamples THEN g.count + 1 ELSE g.count ELSE g.count,
   stamp |-> s.stamp, clock |-> s.clock, arrival |-> s.arrival]
Observed(g, s) ==
  [count |-> IF Continuous(g, s) THEN IF g.count < ReadySamples THEN g.count + 1 ELSE g.count ELSE 1,
   stamp |-> s.stamp, clock |-> s.clock, arrival |-> s.arrival]

\* TrackClockSource: a change of the time type resets the gate.
Tracked(g, type) == IF clock # "none" /\ clock # type THEN NoGate ELSE g

\* UpdateSharedTimestamp: without a time nothing is written; the file is opened
\* when it is not, which may fail and resets the gate; then the gate sees the
\* frame and the slot is written with its verdict.
Stored(g, s, samples) ==
  [gate |-> Observed(g, s),
   shared |-> [open |-> TRUE, ready |-> Observed(g, s).count >= ReadySamples, stamp |-> s.stamp],
   samples |-> IF Len(samples) < ReadySamples THEN Append(samples, s) ELSE Append(Tail(samples), s)]

Outcomes(f) ==
  LET g == Tracked(gate, f.clock)
      nothing == [gate |-> g, shared |-> shared, samples |-> seen.samples]
  IN CASE f.base = 0 -> {nothing}
       [] f.base # 0 /\ shared.open -> {Stored(g, Sample(f.base, f.clock), seen.samples)}
       [] OTHER -> {nothing, Stored(NoGate, Sample(f.base, f.clock), <<>>)}

\* PublishPointcloud2, PublishCustomPointcloud, PublishPclMsg: one frame.
PublishFrame ==
  LET l == cons.lidar f == cons.frame
      now_seen(samples) == [seen EXCEPT !.last = [seen.last EXCEPT ![l] = f.n], !.samples = samples,
                                        !.intact = seen.intact /\ f.n > seen.last[l] /\ f.n > seen.stale[l]]
  IN /\ cons.pc = "publish"
     /\ cons' = [cons EXCEPT !.pc = "again", !.frame = NoFrame]
     /\ IF l = SharedLidar
        THEN \E o \in Outcomes(f) : gate' = o.gate /\ shared' = o.shared /\ clock' = f.clock /\ seen' = now_seen(o.samples)
        ELSE seen' = now_seen(seen.samples) /\ UNCHANGED <<gate, shared, clock>>
     /\ UNCHANGED <<cfg, setup, now, pipe, prod, ring, pcdSem, imuSem, started, imu, exit, made>>
-----------------------------------------------------------------------------
(* IMU samples (Lds::StorageImuData, Lddc::DistributeImuData) *)

Imu(from, to, lidar) == imu.pc = from /\ imu' = [imu EXCEPT !.pc = to, !.lidar = lidar]
imuOthers == <<cfg, setup, now, pipe, prod, ring, pcdSem, lddc, exit, made>>

\* The SDK thread appends a sample under the list's lock, then wakes the reader.
StoreImu(l) ==
  /\ exit = "no" /\ imu.sdk = "idle" /\ imu.sent < cfg.imu
  /\ imu' = [imu EXCEPT !.queue[l] = @ + 1, !.sent = @ + 1, !.sdk = "signal"]
  /\ UNCHANGED <<imuOthers, imuSem>>

SignalImu ==
  /\ imu.sdk = "signal"
  /\ imu' = [imu EXCEPT !.sdk = "idle"]
  /\ imuSem' = IF Wanting(imuSem) THEN imuSem + 1 ELSE imuSem
  /\ UNCHANGED imuOthers

ImuTopOfLoop ==
  /\ Imu("top", IF exit # "no" THEN "done" ELSE "wait", 1)
  /\ UNCHANGED <<imuOthers, imuSem>>

WaitForImu ==
  /\ imuSem > 0 /\ imuSem' = imuSem - 1
  /\ Imu("wait", "visit", 1)
  /\ UNCHANGED imuOthers

\* PollingLidarImuData and PublishImuData: one sample of the visited list, or the
\* next LiDAR.
PollImu ==
  LET l == imu.lidar
      more == setup[l].sampling /\ exit = "no" /\ imu.queue[l] > 0
  IN /\ imu.pc = "visit"
     /\ imu' = IF more THEN [imu EXCEPT !.queue[l] = @ - 1]
               ELSE [imu EXCEPT !.pc = IF l = NumLidars THEN "top" ELSE "visit",
                                !.lidar = IF l = NumLidars THEN l ELSE l + 1]
     /\ UNCHANGED <<imuOthers, imuSem>>
-----------------------------------------------------------------------------
\* Lds::RequestExit: the flag, then one signal for each thread.
RequestExit ==
  /\ cfg.exit /\ exit = "no" /\ exit' = "flag"
  /\ UNCHANGED <<cfg, setup, now, pipe, prod, ring, pcdSem, imuSem, lddc, imu, made>>

SignalExit ==
  /\ exit = "flag" /\ exit' = "yes"
  /\ pcdSem' = pcdSem + 1 /\ imuSem' = imuSem + 1
  /\ UNCHANGED <<cfg, setup, now, pipe, prod, ring, lddc, imu, made>>

Setup == (\E l \in cfg.lidars : SetupStep(l)) /\ exit = "no"
         /\ UNCHANGED <<cfg, now, pipe, prod, ring, pcdSem, imuSem, lddc, imu, exit, made>>

Points == CheckFull \/ FillSlot \/ AdvanceWriter \/ SignalReader
Reader == \/ TopOfLoop \/ WaitForPoints \/ VisitLidar \/ DropBacklog \/ PollRing
          \/ AdvanceReader \/ PublishFrame
ImuReader == ImuTopOfLoop \/ WaitForImu \/ PollImu

Next ==
  \/ Setup \/ Tick
  \/ \E l \in cfg.lidars, type \in cfg.clocks : Packet(l, type)
  \/ ProcessPacket \/ Points \/ Reader
  \/ \E l \in cfg.lidars : StoreImu(l)
  \/ SignalImu \/ ImuReader
  \/ RequestExit \/ SignalExit

\* The threads of the driver run whenever they can; nothing is assumed of the
\* devices, of their answers or of the exit.
Fairness == /\ WF_vars(ProcessPacket \/ Points) /\ WF_vars(Reader)
            /\ WF_vars(SignalImu) /\ WF_vars(ImuReader) /\ WF_vars(SignalExit)

Spec == Init /\ [][Next]_vars /\ Fairness
-----------------------------------------------------------------------------
(* The ring has no lock: the slot being written is never the slot being read, *)
(* at the index's wrap as well; a frame is published once, in order, complete, *)
(* and never a frame of the backlog found at the start but its newest         *)
(* (QueuePushAny, QueuePop, DropStartupBacklog).                              *)
RingIntact ==
  /\ seen.intact
  /\ \A l \in Lidars : Used(ring[l]) <= RingSize
  /\ prod.pc \in {"fill", "advance"} /\ cons.pc = "release" /\ prod.lidar = cons.lidar
       => ring[prod.lidar].wr % RingSize # ring[prod.lidar].rd % RingSize

(* The shared time is said to be ready only when the last ReadySamples frames  *)
(* of this mapping were one series: one clock, each stamp after the one before *)
(* and not too far, and frames neither in a burst nor late                     *)
(* (LegacyTimestampReadyGate, TrackClockSource).                               *)
ReadyEarned ==
  shared.ready =>
    /\ Len(seen.samples) = ReadySamples
    /\ \A i \in 2..ReadySamples :
         LET s == seen.samples[i] p == seen.samples[i - 1]
         IN /\ s.clock = p.clock
            /\ s.stamp \in p.stamp + 1..p.stamp + MaxStampGap
            /\ s.arrival \in p.arrival + 1..p.arrival + MaxArrival
            /\ s.arrival >= p.arrival + MinArrival

(* No wake-up is lost: a frame or sample stored for a LiDAR that is read leaves *)
(* its queue, although the semaphore is signalled only when its count is seen   *)
(* at zero (PushLidarData, StorageImuData); and an exit ends both threads.      *)
NothingStranded ==
  /\ \A l \in Lidars :
       /\ (prod.pc = "signal" /\ prod.lidar = l /\ setup[l].sampling) ~> (Empty(ring[l]) \/ exit # "no")
       /\ (imu.sdk = "signal" /\ imu.queue[l] > 0 /\ setup[l].sampling) ~> (imu.queue[l] = 0 \/ exit # "no")
  /\ exit # "no" ~> (cons.pc = "done" /\ imu.pc = "done")
=============================================================================
