# Verification of FAST-LIVO-UG

FAST-LIVO-UG fuses a LiDAR, an IMU and a camera (LIVO), and puts GNSS fixes and
UWB ranges on top of the resulting odometry in a GTSAM fixed-lag smoother. This
directory holds TLA+ models of the parts of it that are hard to test, the TLC
configurations that check them on small instances, and TLAPS proofs of the
properties that matter most for every value of the constants.

Paths are relative to the directory above this one; a source file named without
a directory is in `src/src/FAST_LIVO2/src/`, `src/src/livox_ros_driver2/src/`,
`src/src/sensor_time_bridge/src/` or the `scripts/` of its package.

## Contents

| Files | What they are |
| --- | --- |
| `LivoFrontend`, `EstimatorCommits`, `LivoFrontendProofs`, `MCLivoFrontend` | the estimator's event loop, what it promises downstream, the proofs, the instance |
| `VisualMap`, `VisualUpdate`, `LidarUpdate`, `LandmarkFrontend`, `LandmarkBackend`, `LivoMeasurement`, `LivoMeasurementProofs`, `MCLivoMeasurement` | the measurement updates against both maps, the landmark boards and their backend |
| `VoxelTree`, `VoxelMap`, `P4Snapshot`, `CapturePause`, `P4Fork`, `MCP4Fork` | the LiDAR map, its snapshots and the fork harness |
| `ScanDeskew` | preprocessing of point times and the walk that deskews a scan |
| `RuntimeGuard` | the guard that reconfigures the outputs |
| `RtkGnssLedger`, `RtkGnssLedgerProofs`, `MCRtkBackend` | the GNSS path of the fixed-lag backend; the instance also holds the recovery and the export |
| `GnssAdapter`, `GnssChain`, `GnssRecovery`, `GnssProofs` | the GNSS adapter with the fault injector, and the backend's recovery after an outage |
| `UwbRounds`, `UwbManager`, `UwbChain`, `UwbChainProofs`, `MCUwbChain` | a UWB range from the tag's line to its factor |
| `CameraExport` | the export that joins images, odometry and corrections |
| `LivoxSetup`, `LivoxDriver`, `MCLivoxDriver` | configuration handshake and data path of the Livox driver |
| `LidarProofs` | proofs about the driver, deskewing, the LiDAR map and the fork |
| `TimeMapping`, `TimeBridge`, `SensorTime`, `MCSensorTime` | the time bridge between MCU, receiver and host; the instance also holds the recorder, the anchor and the GNSS chain |
| `SessionRecorder`, `ImuTimeAnchor`, `SensorTimeProofs` | the recorder, the shared IMU anchor, proofs about both and the bridge |
| `StampSets` | facts about finite sets and sets of naturals that the proofs share |
| `*.cfg` | the runs, each with the bounds of its instance |
| `PROJECT.json` | components, runs, mutants, the map to the source, findings, hazards, theorems |

`tlc -config X.cfg M` checks a run, `tlapm M.tla` the proofs of a module.

## Inventory

The system is a set of ROS nodes. A node is single-threaded unless it says
otherwise; nodes exchange messages on topics, which may be lost, and which are
ordered per topic but not between topics.

    LiDAR, IMU drivers --> LIVO front end --raw_odom--> RTK fixed-lag backend --> pose, path, map->odom
    camera driver -------^                                ^            ^                     |
      ^ shared timestamp                                  |            |               camera export
    Livox driver --IMU anchor--> UWB serial driver --> UWB manager     |
                                                                       |
    MCU --> time bridge <--> GNSS serial driver --> fault injector --> GNSS adapter
               |
            recorder

For each component: its state, its operations, what it shares with others, what
is hard about it, and when it is correct.

**LIVO front end** (`LIVMapper.cpp`). *State:* the LiDAR, IMU and image buffers
with the newest stamp of each; the scan opened by `sync_packages` and its life
cycle; the clock `last_lio_update_time`; the persistent core (`_state`, the IMU
propagation, the coverage bookkeeping); the open transaction and its checkpoint;
the pose remembered for the backend; the estimate handed to the IMU-rate
odometry. *Operations:* four callbacks; in `run()`, after each `spinOnce`:
`sync_packages`, `processImu`, `stateEstimationAndMapping` with `handleVIO` or
`handleLIO`. *Hard:* three streams that are late, lost, repeated or out of order
are merged in time order without waiting for each other forever; a visual query
moves the core and may be rolled back, also what it has handed on by then.
*Correct when* no runtime contract throws, the core is always one commit, only
commits are published, a closed scan is persistent, each opened scan is closed,
in-order images are used.

**IMU initialization and propagation** (`IMU_Processing.cpp`). *State:* the
initialization counter, the propagation time and state, the carried sample, the
coverage. *Operations:* `Process2`, `IMU_init`, `UndistortPcl`,
`beginLidarScan`. *Hard:* intervals with no or one sample, repeated stamps,
support beyond the event. *Correct when* consecutive intervals tile the time
axis without a hole or overlap, or the event is not committed; each point is
moved by the pose it belongs to.

**Preprocessing** (`preprocess.cpp`). Per LiDAR type, from raw points to points
with a time. *Hard:* missing or lagging times, skipped lines. *Correct when* the
scan ends at its latest point and the walk meets every point.

**VIO measurement update** (`vio.cpp`). *State:* the visual map, the patches of
the frame, candidate state, covariance and gain. *Operations:* `processFrame`:
retrieval, landmark correction, the iterated update per pyramid level, map
maintenance. *Hard:* a level that fails late, a landmark correction accepted
before it, points of a rejected frame, pruning of what a frame still tracks.
*Correct when* the update is all or nothing and no reference dangles.

**LIO measurement update and voxel map** (`voxel_map.cpp`). *State:* octrees of
planes by voxel, local and long-term; degeneracy streaks; freeze counters.
*Operations:* `StateEstimation`, `BuildVoxelMap`, `UpdateVoxelMap`, the sliding
map. *Hard:* an update rejected after the state was moved; one id counter for all
maps; leaves closed for good. *Correct when* a rejected update leaves the
prediction in place and freezes are bounded.

**Landmark front end and backends** (`landmark_*.cpp`). *State:* boards seen, a
queue to a worker thread, landmarks, keyposes, a graph. *Hard:* observations
queued while the image they belong to is still undecided; the graph refusing a
keypose. *Correct when* the graph is anchored and every observation is counted.

**P4 fork harness** (`p4_fork_*.cpp`). Copies the estimator into branches through
memory and disk and compares them, with the input paused by a script. *Correct
when* the branches equal production and the input never stays stopped.

**RTK fixed-lag backend** (`rtk_fixed_lag_backend.cpp`). *State:* the raw odometry
window; unpaired status and odometry messages; samples waiting for alignment,
pairs, alignment; samples waiting for a factor; UWB ranges; keyframes, the
smoother, the halt flag; the recovery after an outage; counters. *Operations:*
`rawOdomCallback`, `gnssStatusCallback`, `gnssOdomCallback`, the UWB callback,
each under `state_mutex_`. *Hard:* two topics per sample; the mode switch when
the alignment succeeds in the middle of a callback; exceptions between two
steps of the bookkeeping; a halt in the middle of a loop; capacities. *Correct
when* each sample is counted once and used once, a halted graph stays as it is,
no sample waits although it could be processed, trust is earned after an outage.

**GNSS adapter and fault injector** (`gnss_adapter.cpp`,
`gnss_fault_injector.cpp`). *State:* counters of consecutive fixed and lost
solutions, tracking state, averaged origin; the injector's window. *Operations:*
one callback per solution in three message forms. *Hard:* counters to be reset on
every other branch, origin samples from before and after a loss. *Correct when*
a fix is confirmed, a frozen origin is of one unbroken series, nothing faulted
is fused as if it were not.

**UWB driver and manager** (`uwb_serial_node.py`, `uwb_manager.cpp`). *State:* the
open round; a bounded queue or a recording; the clock mapping. *Hard:* a lost
boundary line, repeats, a new clock epoch, replay whose time goes back. *Correct
when* a range keeps the stamp of its round, is handed on at most once and in
order.

**Time bridge and GNSS driver** (`sensor_time_bridge`, `gnss_serial_node.py`).
*State:* the session of LOCAL time, the queue of MCU events, the mapping between
LOCAL and UTC with its lock state. *Hard:* a reboot of the MCU with events and
pairs of the old session still on their way; relocking after holdover. *Correct
when* no session begins twice, the mapping is fitted to LOCAL times of its own
session only (which holds for what the host's clock stamped, see Findings), and a
relock continues the mapping before it.

**Recorder** (`session_recorder.py`). One rosbag process per session. *Hard:*
bags that fail to end, sessions that change meanwhile. *Correct when* a bag is of
one session.

**Livox driver** (`livox_ros_driver2`). *State:* per LiDAR a configuration
handshake, the points being collected, a ring of frames, an IMU list; two mapped
files shared with other processes by a sequence lock. *Operations:* SDK thread,
processing thread, two publishing threads. *Hard:* a full ring, answers that
overtake commands, wake-ups, a writer killed in the middle of a write. *Correct
when* frames stay whole and in order, only configured LiDARs are read, no
snapshot is torn, nobody sleeps on data.

**Runtime guard, camera export** (parts of `LIVMapper.cpp`,
`camera_aligned_neu_logger.cpp`). Counters that are reset on some branches only;
a join of three topics.

**Viewer, logging and analysis tools.** Output only.

## Plan

Done: the models of every component above, with the exceptions under "Not
modelled". The order was: front end and its commits, the GNSS ledger, the anchor;
GNSS chain, measurement updates, driver, time bridge, UWB, landmarks, P4 fork,
recovery, export, guard, deskewing.

Proved: every invariant and action property of the passing runs and the refinement, see
"Proofs". What is left is out of the prover's reach, see "Only model-checked".

Modules to be proved about declare no RECURSIVE operator (no module of the
project does), have their parameters as CONSTANTS with named assumptions, and
have one action per operation.

## The front end: `LivoFrontend`, `EstimatorCommits`

Times are integer ticks; a message is its stamp, a scan its first and last point
time; a state is the time it represents. `pc` is the place in `run()`: `spin`
(callbacks, then `sync_packages`), `imu` (`processImu`), `estimate` (the
handler), `finish` (the end of `stateEstimationAndMapping`), and `dead` when an
exception leaves `run()`.

| Action | Code |
| --- | --- |
| `ReceiveScan`, `ReceiveImu`, `ReceiveImg` | the LiDAR, IMU and image callbacks: rejection of late messages, duplicate images, sorted insertion, eviction at capacity |
| `Sync` | one call of `sync_packages`: opens a scan (`beginLidarScan`, `LivoScanLifecycle::begin`), drops stale images, waits for the streams, sorts the IMU buffer, dispatches a VIO or an LIO event with its view of the IMU samples (`imu_transaction::view`) |
| `ProcessImu` | `processImu` with `Process2`, `IMU_init` and `UndistortPcl`: begins the transaction, propagates, advances the clock, `noteLioTransaction` |
| `HandleVIO`, `HandleLIO` | the handlers; what the measurement update decides is a free choice (`VioOutcomes`, `LioOutcomes`) |
| `Finish` | `WorkingCheckpoint::finish`: commit or rollback, release of the samples, the remembered pose |
| `ImuPropTimer` | `imu_prop_callback` |

`core` groups the members a commit has to move together: `state` (the time of
`_state`), `cov` (the end of the propagation), `carry` (`last_imu`), `complete`.
`hist` is history that only properties read.

Abstracted: the state vector and covariance (a time), point data, the exposure
offset (folded into the image stamps), stamps within one millisecond (one
tick). The image and IMU sort flags have their defaults (on) and the sensor
lookahead is 0. `BuildVoxelMap` and the `UpdateVoxelMap` after it in the first
scan count as one insertion, as the life cycle does. The dry run of the visual
update never reports acceptance, so it is an outcome `rejected`. Left out: the
modes `ONLY_LIO` and `LO`, the startup gate, gravity alignment.

`EstimatorCommits` has four variables: is the IMU initialized, the time of the
persistent state, the time of the persistent IMU propagation, the last published
pose. Its steps are the start and a commit that the environment granted: both
times move to one event time, not backwards, and this time may be published. A
rollback, a wait, a prediction and an exception are stutters. `LivoFrontend` maps
the persistent core (`before` while a query is working, else `core`) to it, and
grants a commit where the scan is closed or the update was accepted.

| Run | Shows |
| --- | --- |
| `Frontend` | `NoFault`: a contract throws only if an IMU stamp was sent twice. `CommittedComplete`: a zero-length interval never hides a hole in a commit. `ScanPersistent`, `InOrderImagesFresh`, `OpenScanBuffered`, `NoSpeculativeHandoff`; `ImplementsCommits`; `ScanCloses`: no stream waits for another that waits for it |
| `FrontendImuRateDrop` | violation of `DroppedImuUseless`, see Findings |

*Bounds of `Frontend`.* Three consecutive scans: the first initializes the IMU (two
samples), the second builds the map, the third is tracked against it, so every
phase of the loop and every transition between phases occurs. IMU stamps
leave intervals with none, one and several samples, at an event and around it;
each may be sent twice, one tick late; images lie inside scans and on their ends,
up to two ticks late. At most one scan, three IMU samples, two images in the
buffers: one less would make an event impossible rather than interesting. Any
message may be lost, and every interleaving of the streams is explored.
Deadlock is not checked: the sensors stop at the last stamp.

*Fairness.* `FairSpec` has weak fairness of what `run()` does after a spin, since
the loop runs for as long as `ros::ok()`, and of each stream's receive action:
the sensors go on sending and `spinOnce` runs the callback of whatever has been
received. Fairness is on "some sample of the stream": a single sample may still
be lost. This makes the streams pass the end of every scan, which is what
`sync_packages` waits for.

## Measurement updates and landmarks: `LivoMeasurement`

`LivoMeasurement` composes `VisualUpdate` (on `VisualMap`), `LidarUpdate`,
`LandmarkFrontend` and `LandmarkBackend` into `handleLIO` and `handleVIO` in the
order in which the front end hands scans and images over.

- `VisualMap`: points in voxels with their patches and the reference patch;
  `insertPointIntoVoxelMap`, `pruneVisualMap` with its three caps, reference
  refresh, `visual_point.cpp`. A point is named by frame and voxel, a patch by
  its frame.
- `VisualUpdate`: `processFrame` from retrieval to settlement, with rollback per
  level, the degeneracy-relaxed frame, both landmark modes, shadow and dry run.
  The estimate is named by the correction that produced it, the gain by the
  estimate it belongs to.
- `LidarUpdate`: `StateEstimation`: iterations on a candidate, validation, commit or
  restore, the hysteresis of degeneracy, the map guard's freezes and recovery.
- `LandmarkFrontend`: board candidates, their tests and routing, and the legacy
  same-id adapter; `LandmarkBackend`: the bounded queue, the worker that turns
  observations into landmarks, keyposes and a graph that may refuse a keypose.

What pixels, gates, PnP and solvers decide is open. Time of landmarks is counted
in images, poses are near, between or far from the last keypose. The direction
guard that is only logged is left out, map mutation is always allowed as in the
shipped files.

Run `Measurements`: `VisualMapCoherent` (no tracked or referenced patch dangles),
`GainMatchesState` (gain and state roll back together), `FrameSettled` (a rejected
frame or scan leaves no trace), `DegeneracyDebounced`, `FreezeDiscipline` (an action
property: freezes are bounded; for map-update stride 1, see Observations),
`GraphAnchored`, `LandmarkLedger`. Bounds: six configurations, 3 events, 2 voxels,
caps of 1, 2 levels, 2 iterations, 2 boards, queue of 2: a cap is met by the
second insertion, a level fails after another passed, a board is seen again
within and beyond the episode gap and the queue overflows. No fairness.

## LiDAR map, snapshots and fork: `P4Fork`

`VoxelTree` is the octree of a voxel as a function from octant paths to nodes,
`VoxelMap` the local and long-term maps with the one counter of plane ids,
`P4Snapshot` capture, restore and the file as the sequence of fields in writing
order, `CapturePause` the handshake of the pause guard with
`run_p4b_with_paused_capture.sh` by four marker files, `P4Fork` the harness beside
production: capture, three branches, verdicts.

Assumed of the constants: a point lies in a cell of the octree and on one of the
`Surfaces`; the cap of the long-term map, `LongTermMax`, is not negative.
Voxels lie on a line, a fit succeeds iff all points of a leaf are of one surface,
`BuildVoxelMap`'s hash order is the order of keys, one planarity threshold serves
all layers. The harness is meant for `ONLY_LIO`: without images branches must match
production exactly; in LIVO mode a branch gets only the LIO events and the
`MEMORY_RESTORE` verdict is not promised, while capture parity and `DISK_RELOAD`
are.

Run `P4Fork`: `BranchesExact`, `MapsCoherent` (no voxel of two maps, ids unique,
counters true, while up to four maps draw plane ids from one counter),
`PauseHandshake` (liveness: branches and captures run on a stopped input only, and
a stopped input is let go again even if the node gives up or ends). Bounds: 5 events of 5 kinds of scans, captures from event 1, horizon at
event 4, one long-term voxel, 4 points, 2 layers: leaves split, close and refit.
*Fairness:* the node goes on (its waits end after ten seconds), the script goes on
with what it began; it need not find a rosbag process.

In behaviours of their own the same instance holds `ScanDeskew` and `RuntimeGuard`.

`ScanDeskew`: `Preprocess` point by point (all handlers without feature extraction;
the repair of lagging times in `avia_handler`; the default zero that skipped lines
leave in `pl_full`), `sync_packages`' scan end, and `UndistortPcl`'s backward walk
over points and poses. `DeskewExact`: if the scan is sorted, or the message
orderly, each covered point is moved by the last pose not after it and no other
point is moved. Bounds: messages of up to 3 points with times {0, 1, 3}, at most
one left out, types AVIA, L515, XT32, XYZIRT, 5 pose histories. Not modelled:
feature extraction (off in every shipped file), the times VELO16 and XT32 make up
from azimuths, `Forward_without_imu`.

`RuntimeGuard`: `updateRuntimeGuard` with what it reconfigures in
`publish_frame_world` and `savePCD`, images being enabled. Counts saturate beyond
the strides. In the passing run its actions fire and its assumptions are
evaluated; run `GuardRecovers` (all options) shows the violation of
`RecoveredPublishes`, see Findings; its fairness says that scans leave points and
images see points again and again.

## The GNSS path of the backend: `RtkGnssLedger`

A callback holds `state_mutex_` from its beginning to its end. `pc` is `idle` when
the mutex is free, and otherwise the place inside the callback; each turn of a
loop is a step, so that a halt or an exception between two turns is visible.

| Action | Code |
| --- | --- |
| `RawOdom`, `Prune` | `rawOdomCallback` at its beginning, `pruneRawOdomBuffer` at its end |
| `GnssStatus` | `gnssStatusCallback`: refused and disabled fixes, the alignment reset, duplicates, storing, eviction |
| `GnssOdom` | `gnssOdomCallback` |
| `Enqueue`, `Unpair` | `tryPairGnssMessages` and `processAcceptedGnss` |
| `Collect`, `Align` | `tryCollectAlignmentPairs`, `tryFinishAlignment` |
| `Transition` | `transitionPendingGnssAfterAlignment` |
| `InitializeGraph` | `initializeGraph` |
| `RejectPending`, `CreateNode`, `ReuseNode`, `AddFactor`, `FactorThrows`, `Trim` | the loop of `processPendingGnss` with `createGraphNode`, `addGnssFactor`, `updateSmoother`, `refreshEstimateAndPublish`, and the trim after it |
| `MaybeAddKeyframe` | `maybeAddKeyframe` |

`count` are the counters of the session report, `Delta` is
`gnssConservationDelta()`. `hist` is history: which samples aligned the frames and
which became factors.

Free choices: whether the gates pass, whether the smoother solves, throws or is
refused, whether the motion criterion asks for a keyframe, whether the recovery
rate-limits a sample (`GnssRecovery` makes these decisions). The two topics come
in any order, each message may be lost, and up to `MaxResent` come again. Where
`rawOdomCallback` calls `initializeGraph` and `processPendingGnss` a second time,
nothing is left for them to do, and the model has one call. Samples that wait for
the alignment have distinct stamps, so the duplicate test of the transition never
fires and is left out. UWB ranges are in `UwbChain`.

| Run | Shows |
| --- | --- |
| `RtkLedger` | `Conservation`, `NothingOverdue`, `HaltedGraphFrozen`; for the recovery `RecoveryEarned`; for the export `RowsTrueAndPrompt` |
| `RtkThrows` | violation of `Conservation` when the estimate may throw, see Findings |

*Bounds of `RtkLedger`.* Poses {1, 3, 6, 8}, samples {2, 4, 6, 7}, one resent;
unpaired and pending capacity 1, window 3, gap limit 3, lag 3, 2 to 3 pairs, 2
active states: every eviction and trim occurs, the halt by too many states
occurs, a lost pose makes a gap larger than the limit, one sample lies on a pose,
two samples align and the others meet each of the tests. No fairness is needed.

`GnssRecovery` (see the next section) and `CameraExport` run beside it in behaviours
of their own. The export: `imageCallback`,
`rawOdomCallback`, `mapToOdomCallback`, `statusCallback`, the waiting images and
the end of the node. Poses are their stamps; `heard` is history: all poses
received. `RowsTrueAndPrompt`: a row interpolates the two neighbouring poses and
the latest correction, and is written as soon as both are known. Bounds: span 2,
buffer 3, poses {1, 2, 4, 6, 7}, corrections {2, 4, 6}, images {1, 3, 4, 5}, at
most two waiting.

## The GNSS chain: `GnssAdapter`, `GnssChain`, `GnssRecovery`

`GnssAdapter` is `processPvt` and the pose path with `updateFixedState`,
`updateOrigin`, `resetOriginAverage` and the three origin modes; `GnssChain` puts
the receiver, the fault injector (window of message time, four modes, counters)
and a lossy subscriber queue in front of it. Messages are legacy, stamped (with
session, writer epoch and validity flags) or poses. `seen` and `fused` are history:
the samples that reached the state machine and those handed on. Metric gates are
one flag `good`. Stamp 0 is a time that cannot be converted; `"none"` stands for
the source of messages that have none.

`GnssRecovery` is what the backend does after an outage: inflated weights that fade
after confirmed fixes, the rate limit of float factors, candidates beyond the
residual gate. Its history `tried` lists factors, candidates and interruptions.
Inflation is counted in remaining ticks of the ramp (ramp 0: the shipped
`drift_repair*.yaml`); the residual has one dimension.

The chain is checked in behaviours of their own of run `SensorTime`:
`AcceptedFixConfirmed`, `OriginFromOneSeries`, `FusedInOrder`, `FaultNotFused`.
Bounds: 5 messages in 5 configurations, 2 fixed to confirm, 2 to lose, 3 to
recover, 2 to average, gaps of 2 and 4: a fix is confirmed, lost and not yet
recovered within a run. The recovery is checked beside the ledger in run
`RtkLedger`: `RecoveryEarned`. Bounds: statuses up to tick 8, steps 1 and 3, queue
2, 2 confirmations. The receiver stops, so deadlock is not checked. No fairness.

## UWB: `UwbRounds`, `UwbManager`, `UwbChain`

The serial node is a function of its state and a line (`UwbRounds`: rounds, the
timeout, the repeat filter, both stamp modes); `UwbManager` is the transport inside
FAST-LIVO2 (topic, own serial port, recording; queue, ages, replay); `UwbChain`
composes both with the backend's UWB path (waiting for raw odometry, alignment,
nearest keyframe or own node, gates, halt). LOCAL time is host time; the IMU
clock has one error per epoch, and the driver restarts once. A range keeps how long
after the line that stamps its round it was read. The sums, the solver and
the GNSS nodes are free choices.

Run `UwbChain`: `RangeNearItsStamp`, `UwbConservation`, `UwbInOrder`. Bounds: 3 ticks,
2 debug and 3 distance lines, 2 clock epochs, one message in flight per topic,
queues of 1 and 2, a recording whose time goes back once; three setups of the
node. No fairness; the tag stops.

## The Livox driver: `LivoxSetup`, `LivoxDriver`

`LivoxSetup` is the configuration handshake (`livox_lidar_callback.cpp`): reports,
commands per wanted setting, answers on another thread, retries after timeouts,
`set_bits` under `config_mutex_`. `LivoxDriver` is the data path: packets to frames
(`pub_handler.cpp`), the packet ring (`ldq.cpp`, index arithmetic modulo its
width), IMU lists, semaphores, publication (`lddc.cpp`), the ready gate of the
shared IMU time, the exit. The ring has one producer and one consumer with
volatile indices and no lock; the model assumes program order. A point is its
stamp, one per packet.

Run `LivoxDriver`: `SamplingConfigured`, `RingIntact`, `ReadyEarned`, and
`NothingStranded` (liveness: what is stored and signalled is published). Bounds: 2
LiDARs of which 1 is configured, 2 settings, ring of 2 with indices modulo 4 (so
that it wraps), 2 samples to ready. *Fairness:* the driver's own threads run; nothing
is assumed of LiDARs and SDK.

## Time: `TimeMapping`, `TimeBridge`, `SensorTime`; recorder; anchor

`TimeMapping` is `MappingStateMachine` with offsets in place of affine fits,
`TimeBridge` the node (decoder's outcome, bounded queue, sessions, sequence and
monotonic gates, host clock), `SensorTime` the MCU, the lossy serial line, the
topics and `gnss_serial_node.py` in host_local mode with a receiver whose UTC may
jump and whose records do not all carry a date. One step drains one event: `drain()`
takes up to 64 and the serial thread pushes in between. Only the observations that
are valid are sent.

What an observation of UTC pairs with it depends on the record. One without a
position (`TimeRecord`) is observed at the LOCAL time at which the host received
it. A position (`Position`) has its header's stamp replaced before that: by its UTC
turned back into LOCAL time with the mapping that the driver holds, whatever
session that is of, or by 0 if it holds none, in which case the observation is not
valid. So positions never help to acquire a mapping and later feed it its own
inverse, while the session of the observation is always that of the host's stamp.
`from` and `boot` of an observation are history: who made the LOCAL time, and in
which session it counts. A line of the receiver is one record; lines with several
NMEA sentences, of which a later one would find the stamp that an earlier position
left, are not modelled.

`SessionRecorder` is `session_recorder.py` with `recorder_gate.py`; callbacks hold one
lock. Sessions of the bridge only increase, as the launch file's `required` makes
them.

`ImuTimeAnchor`: the driver writes the stamp of the last IMU sample into a mapped
file (`imu_time_anchor.cpp`); the readers are `ReadImuTimeAnchorState` and
`LivoxImuAnchorReader` (`imu_anchor.py`), which copies the file twice. One step is
one load or one store; `Kill` ends the driver anywhere. `InOrder` says whether they
show in program order (x86-64) or in any order the requested memory orders
permit. Fields are one in front of the sequence and two behind it; `written` and
`since` are history.

| Run | Shows |
| --- | --- |
| `SensorTime` | `SessionsApart` (no session begins twice; pairs the host's clock stamped are of the bridge's session), `RelockContinuous` (action property: after a loss the mapping is replaced only by one within the allowed step, given by enough pairs over enough time that follow each other by both clocks); `RecordsItsSession`; `NeverTorn`, `RestartReadable`; the four properties of the GNSS chain |
| `SessionsMixed` | violation of `PairsOfOneSession` by the observation of a position, see Findings |
| `AnchorRelaxed` | violation of `AcceptedNotTorn` without program order, see Findings |

Bounds: 7 ticks, 2 boots, events lost, a BOOT sent again, queue of 2, a window of 2
pairs, an outage long enough for holdover and one for giving up, a midnight, a
jump of UTC by 1 or 2, which a relock may follow or must refuse (behaviours with a
jump are without a reboot and a BOOT sent again); 2 topics, 3 sessions, 1 second;
3 writes, 2 attempts, both readers, ready after 2 samples; the bounds of the GNSS
chain above. The four parts are behaviours of their own. No
fairness, and no liveness is claimed: a reader gives up after its attempts, a
bridge may wait forever for pairs.

## Proofs

Nothing is assumed but the named assumptions on the constants, each with its
place in the code; TLC evaluates them in the runs. No theorem needs a bound or
fairness. Each proof has one lemma per action, under an inductive invariant:

| Module | Theorem | Property |
| --- | --- | --- |
| `LivoFrontendProofs` | `TypeCorrect` | types |
| | `ScanStaysBuffered` | `OpenScanBuffered` |
| | `CoreIsAtomic` | between events state, propagation and carried sample are of one commit |
| | `OdometryOfCommits` | each published pose is of the commit that publishes it, stamps increase |
| | `EstimatorImplementsCommits` | `ImplementsCommits` |
| | `HandoffIsPersistent` | `NoSpeculativeHandoff` |
| | `ClosedScansPersist` | `ScanPersistent` |
| | `CommitsAreComplete` | `CommittedComplete` |
| | `ImagesStayFresh` | `InOrderImagesFresh` |
| | `ContractsHold` | `NoFault`, when the driver's scans are in order |
| `RtkGnssLedgerProofs` | `TypeCorrect` | types |
| | `HaltedGraphStaysFrozen` | `HaltedGraphFrozen` |
| | `SamplesConserved` | `Conservation`, when nothing throws |
| | `SamplesUsedOnce` | no sample is used twice, also with resends and exceptions |
| | `NothingStaysOverdue` | `NothingOverdue`, when nothing throws |
| | `RowsAreTrueAndPrompt` | `RowsTrueAndPrompt` |
| `GnssProofs` | `FixesAreConfirmed` | `AcceptedFixConfirmed` |
| | `OriginsAreOfOneSeries` | `OriginFromOneSeries` |
| | `FusedSamplesIncrease` | `FusedInOrder` |
| | `FaultsStayOut` | `FaultNotFused` |
| | `TrustIsEarned` | `RecoveryEarned`, when an interval of float poses fits in an outage |
| `LidarProofs` | `OnlyConfiguredSample` | `SamplingConfigured` |
| | `RingStaysIntact` | `RingIntact` |
| | `ReadyIsEarned` | `ReadyEarned` |
| | `EveryPointByItsPose` | `DeskewExact` |
| | `HeldIsStopped` | the safety half of `PauseHandshake` |
| | `MapsAreCoherent` | `MapsCoherent` |
| | `CopiesAreExact` | `BranchesExact` |
| `SensorTimeProofs` | `SessionsStayApart` | `SessionsApart` |
| | `RelocksAreContinuous` | `RelockContinuous` |
| | `BagsFollowSessions` | `RecordsItsSession` |
| | `AnchorNeverTorn`, `AnchorRestartReadable` | `NeverTorn`, `RestartReadable`, in program order |
| `UwbChainProofs` | `StampsAreOfTheRound` | `RangeNearItsStamp` |
| | `RangesAreAccountedFor` | `UwbConservation` |
| | `RangesWaitInOrder` | `UwbInOrder` |
| `LivoMeasurementProofs` | `FreezesAreDisciplined` | `FreezeDiscipline` |
| | `DegeneracyIsDebounced` | `DegeneracyDebounced` |
| | `GainIsOfTheState` | `GainMatchesState` |
| | `FramesAreSettled` | `FrameSettled` |
| | `LandmarksAreCounted` | `LandmarkLedger` |
| | `GraphStaysAnchored` | `GraphAnchored` |
| | `MapStaysCoherent` | `VisualMapCoherent` |

**Front end.** `Inv` is the conjunction of `TypeOK` and `OpenScanBuffered`;
`TransactionInv`: a transaction is open only between `processImu` and the end of its
event, a remembered pose is of the open transaction, the checkpoint is an
earlier core that is itself atomic (without it a rollback could restore
anything); `CoreInv`: after the initialization the core is one time, not after the
clock; `EventInv`: an event carries no sample beyond its time but the right
support (without it the carried sample could be newer than the core). The
refinement shows that each action is a stutter except the initialization's last
sample (`Start`) and a finishing commit (`Commit`). `HandoffInv` strengthens
`NoSpeculativeHandoff` to the middle of an event, where an estimate handed over may
be speculative until `Finish` renews it. `Upto` is a CHOOSE, so its existence is
proved with the least element lemma of `StampSets`.

`LifeInv` says where in its life cycle a scan is: open until its LIO event is
dispatched, which propagates to its end and is its only one; this is what makes
`ScanPersistent` inductive. `CompleteInv`: once the map exists every event has a
transaction, and what a visual one could be rolled back to is complete.
`FreshInv`: after the initialization the image stream has passed the clock, since
it had to before the event was dispatched; the buffer is ordered, so its images
before the clock came late. `NoFault` needs the most, `FrontInv`: in addition
`ScanInv` (the buffered scans, the open one and the scans to come follow each
other, and clock, event and life cycle follow them), `SamplesInv` (the buffer
holds only sent samples, each once if stamps are unique), `ViewInv` (the samples
of an event are after the core, in order, and support its end on the right
exactly when the propagation needs it) and `FaultInv`. Then none of the
exceptions' conditions holds. Hypothesis `ScansInOrder`: the scans a driver cuts
end in order, and one that has more than one point lasts; the instance satisfies
it (`MCScansInOrder`, evaluated by TLC). No other theorem needs it.

**GNSS ledger.** `Shape`: types, what each place inside a callback says of the rest
(the sample a callback works on is still stored as a status), raw odometry is
there wherever its last pose is read. `Conserved` strengthens `Conservation` to the
inside of callbacks: a paired sample is in two places between `Enqueue` and the
return, so `Delta` is -1 there and 0 elsewhere. `~MayThrow` cannot be dropped:
`RtkThrows` is the counterexample. `StampsOrdered` and `HistoryCounted` carry
`SamplesUsedOnce`: those that aligned are older than all in the two queues and
than every factor. `NothingOverdue` holds only between callbacks; inside them
`PairsTaken` says that a status and an odometry pose that match are together in the
buffers only while their own callback runs, and `AlignWaiting` and `FactorWaiting`
that outside the two loops each queue holds only samples newer than what the
loop compares them with: the factor queue is sorted, so its front decides for
all. An exception leaves a loop early, hence `~MayThrow` again.

**Export.** `ExportInv`: the images wait in the order of their stamps; the kept poses
are exactly the received ones inside the window and the last one before it, so that
whatever the buffer forgot lies behind a pose it still has (`Remembers`); what
keeps the first image waiting keeps all behind it waiting. Hence a row decided on the
kept poses is the row that all received poses would give.

**GNSS chain.** `GnssInv`. Its heart is `Tracks`: the adapter's counters, though
they forget, say what the samples since the last reset say. The fixed counter is
a gapless run of fixed samples ending at the last; while WAITING no run was long
enough; while ACTIVE or RECOVERING fewer than `FixedLost` unfixed samples came since
the last fixed one, exactly as many as the lost counter says; the flag
`was_active_once_` is set iff a confirming run exists; LOST and RECOVERING mean that
it lies before the last loss, ACTIVE that it was earned since. `Average`: the
samples being averaged are a series that ends at the candidate; `NotBehind`: in
local mode nothing is fused before the origin is ready, so the resets of the
clock come before it, and every fused stamp is at most the last one; `Quiet`: what
the injector lets through. That the counters are reset together is what makes
`Tracks` inductive: dropping one reset breaks it, as the mutants show.

**Recovery.** `RecoveryInv`. Waiting samples ascend and are newer than every clock
kept. The candidates counted are the last entries of `tried`, in a row, each after
an outage. Since the last resumption the fixed counter counts a row of fixed factors
without a float between them, and `lastFloat` bounds the floats. When the inflation
fades, such a row of full length ended at `fade`; where the clocks are off, one ended
at least a ramp before whatever still waits. Hypothesis: `FloatsFit`, the
interval of float factors is at most the outage gap (and one tick). The shipped
configuration has it (1 Hz against 5 s, `petrochemical_site`); `validateParameters`
(716-745) does not ask for it. Without it the property fails: see "Observations".

**Livox driver.** (a) While a command may still be answered or sent, every wanted
setting is accepted, marked in `set_bits`, or yet to be sent by the report that
holds the lock; (b) per LiDAR the ring's slots between the two indices are the
newest frames handed over, in order, and the frame in hand of the reader is not
overwritten: this uses only that the width of the indices is a multiple of the
size of the ring, and larger; (c) the frames the gate has counted are the newest
samples, its last one is the last sample.

**Time and recorder.** The sessions begun are those retired and the current one,
which is not retired. What the host's clock stamped carries the boot of its stamp,
as an observation on its way, as a pair and as a candidate, and a session that
begins empties the pairs; pairs whose LOCAL time a mapping made may be of any
session and are exempt (`SessionsMixed`). `RelockContinuous` needs `RelockOK`: in
HOLDOVER and RELOCKING there is a mapping to keep, and the candidate's pairs follow
one another by both clocks without a step (`InSteps`), which the window's evictions
from the front preserve. It claims nothing of the pairs from before the loss:
`addPair` compares a relock's pairs with each other only, and an inverse-mapped
pair may lie anywhere the driver's last position allows. The
recorder's proof needs that its session never gets ahead of the status it saw: a
known session cannot become unknown. The anchor's invariant: the stores left are
the last of the plan and the sequence is odd from the first to the last; what an
attempt has loaded since it saw an even sequence is in the file unless the
sequence has grown; two equal even loads enclose loads of one finished write,
which ended after the read began.

**UWB.** `ChainInv` joins three parts. `SerialInv`: what a round holds was read
since it started, its stamping line is its own, and a round that waits is younger than
the timeout; so the stamp of a range is off by less than `RoundTimeout`. `ManagerInv`:
what is queued, replayed and handed on are ranges that the manager was given, which
needs that sorting a replay file neither adds nor loses a range (the rank lemma of
`At`). `WaitingInv` has the balance of `UwbConservation` also inside callbacks, and
the order: the waiting ranges are sorted, strictly within an anchor, each behind its
anchor's last factor and none past what was queued. The factor loop takes a prefix,
since in a sorted queue the stamps up to a bound are one.

**Pause.** `PauseInv`: the guard has removed the old marker files before it asks, so
an acknowledgement it finds was written by a script that saw this request, stopped
the input first, and keeps it stopped until it sees `done`, which the guard writes
last. The mutant `ConstructKeeping` leaves an old file and breaks it.

**LiDAR map.** `MapInv` goes from the octree up. `TreeInv`: the path to a node is in
the tree, only an initialized node that is no plane has any below it, and the ids of a
tree's planes are distinct and below the counter. `Gave` is what each operation on an
octree promises: the tree that comes of it, and new ids only from the old to the new
value of the counter. For `InitTree` the ids are ranks in the order in which
`init_octo_tree` descends, and ranks are distinct and without a gap (`RanksTaken`). With
this the octrees of a map stay strangers (`Grove`): inserting changes one of them and
takes ids none had before (`GroveGrows`), sliding only moves octrees (`GroveThinned`).
`BuildVoxelMap` and `UpdateVoxelMap` are loops, in the model functions of how far they
got; that the functions exist and each of their values keeps the invariant follows
from the least counterexample. The cap of the long-term map: those that stay have
distinct ranks by distance below the cap (`Trimmed`).

**Fork.** `MapsInv`: each map is coherent with its own counter. Between the steps of a
branch the counter installed is the branch's; an exception there leaves the estimator
without its own, but then `run` is returning, which is the one exemption of
`MapsCoherent`. `CopiesAreExact` needs three things. What is restored is what was
captured: writing lists a map in the order of its keys and reading it makes the same
map of the list (`RestoredIs`), a file decodes only if it is whole (`WholeDecodes`), and
then to what was written (`DecodedIs`). Two estimators that start as twins are twins
after the same event: `ExactInv` says that between events `b0` is the estimator's `Twin`
in state, end of propagation, map and counter, and that while the estimator has yet to
measure what `b0` ran first, `b0` is what a twin became by it (`Ahead`). And the two
differ harmlessly where the code differs: the estimator slides its map on scans it does
not commit, too, which changes nothing, because a slid map is steady until the
position moves (`SteadyStays`).

**Deskewing.** While a message is read, an orderly one leaves an ascending cloud
bounded by the time read last, itself at most the raw time; while the cloud is
walked, points behind the walk are done, points before it untouched, and the
point in hand is before the pose just left.

**Measurement updates.** `GuardInv`: the guard is active or latched, never both, it
has counted at most the calm scans there were, and with stride 1 at least the
scans withheld. `StagedInv`: the counters of the hysteresis are those of the run of
equal verdicts of committed scans; while a scan is processed the saved ones carry
this and the current ones are the saved or their successor for this scan's
verdict, so that restoring on rejection keeps it. `ImageInv` states, per stage of
`processFrame`, whose correction the state, the pose, the gain and the covariance
are: between iterations the gain is the state's, and the older pair that a
rejected iteration falls back to agrees too, which is what makes
`GainMatchesState` inductive.

**Landmarks.** `LedgerInv`: the ids accepted ascend and are below the next one; the
hand and the queue hold the last of them in order, the keyposes have recorded
exactly the ones before; the worker holds one input while busy and stops only
with nothing in the queue after it was asked to. The worker's step then moves the
first id after those processed to the end of the last keypose, or to a new one.
`AnchorInv` adds that the inputs wait in the order of their times and that no
landmark is ahead of them; that an episode, in chart and graph, is of one landmark;
and that the graph's note of a board is of the chart's current episode, or was made
longer ago than the gap. The last is what makes a reobservation mean what
`GraphAnchored` says: the worker decides it by the note, not by the chart.

**Visual map.** `MapInv`: every point is sound (observed at least once, its reference
among its observations, these within their cap), every voxel within its cap, the
submap in the map, and from `Generate` to the end of the image the protected set is
the submap. The last conjunct is why pruning and replacing spare what is tracked; with
the mutant that protects late it fails. Each removal spares the protected points:
this is shown per voxel for insertion and for the voxel caps. Either a removal takes
the whole excess or it takes everything that is not protected, which is what the caps
on the totals promise. Assumption: the voxels are finitely many (the map's keys are
three 64-bit integers); without it a count would mean nothing.

### Only model-checked

Liveness (`ScanCloses`, `NothingStranded`, the leads-to half of `PauseHandshake`) and
`ENABLED` are beyond the prover. What the recursive functions of the map compute is
proved as far as it is the same for the same input and keeps the invariant; that
`UpdateTree` leads each point to the right leaf is not a theorem.

## Findings

**The IMU-rate odometry drops samples it still needs** (`FrontendImuRateDrop`).
`handleVIO` hands over the working estimate with `latest_ekf_time` = the time of the
query (`LIVMapper.cpp:2351`). When the query is rejected, the state handed over is
renewed to the rolled-back one (2163), its time is not. `imu_prop_callback` drops
the samples before `latest_ekf_time` as "useless" (3253) and integrates from the
earlier state: the samples between the last commit and the query are missing. In
the run: commit at 6, query at 8 rejected, sample 7 dropped. This path needs
`imu_prop_enable`, and affects only the IMU-rate topic.

**An exception in the estimate counts a sample twice** (`RtkThrows`).
`processPendingGnss` counts a sample (`rtk_fixed_lag_backend.cpp:2082`), calls
`refreshEstimateAndPublish` (2083), which may throw out of the smoother's estimate,
and erases the sample only then (2085). `rawOdomCallback` catches the exception and
goes on, with the sample counted and still pending. The backend reports such a
difference as `GNSS_CONSERVATION_MISMATCH` (338-350). `SamplesUsedOnce` shows that
the damage stays in the counters: the stamp of the last factor keeps the sample
from being fused twice.

**The sequence lock relies on the order of x86-64** (`AnchorRelaxed`).
`WriteImuTimeAnchorState` stores the odd sequence with `__ATOMIC_SEQ_CST` and the
fields relaxed (`imu_time_anchor.cpp:40-53`); nothing keeps the fields behind it.
The reader's relaxed loads may be done after its second load of the sequence
(73-91). The test `CrossProcessSeqlockNeverTears` (`imu_time_anchor_test.cpp:81`)
expects the fields of an accepted anchor to belong together, and passes on
x86-64; the deployment target is a Jetson (`livox_imu_anchor_mapping_report.md:5`, 650).
In the run the readiness of a write shows before its sequence, and the sample
before it, which was not ready, is accepted. The shared time stamp has the same
orders (`shared_timestamp_state.h:74-95`).

**A recovered runtime guard may end the coloured cloud** (`GuardRecovers`).
`publish_frame_world` publishes when its static `pub_num` equals `pub_scan_num`
(`LIVMapper.cpp:3893-3932`). `updateRuntimeGuard` lowers `pub_scan_num` on recovery
without touching `pub_num` (611, 651). If `pub_num` has passed it, it never equals it
again: no coloured cloud is published, nothing is saved, and the gathered points
grow. It needs images and `runtime_guard/enable` (true by default, false in the
shipped files).

**A position feeds the bridge another session's time** (`SessionsMixed`).
`_publish_pvt` shares the raw frame's header and overwrites its stamp with the
inverse-mapped LOCAL time (`gnss_serial_node.py:468-469`); `_publish_utc_observation`
(497, 388) then sends that time under `raw.session_id`, the session of the host's
stamp. The driver takes mappings whatever their session (136-137), and
`utcObservationCallback` (`bridge_node.cpp:333-345`) compares only the session of the
observation. Of what a fit checks first, `time_architecture_stageB.md:477` says
"session 不变" (the session is unchanged). In the run: boot 1 is locked and its
mapping is at the driver; the MCU reboots and session 2 begins; before the driver
takes the new mapping, a position is observed at a LOCAL time of boot 1 under
session 2 and becomes its first pair. The session's own pairs are then refused
until LOCAL has passed it. It takes observations that count as associated with
PPS, here a rebased replay with `replay_has_pps_association` (false by default).

## Observations

Seen while modelling, contradicted by no document or outside a run:

- *Front end.* A LiDAR buffer at its capacity evicts the scan that `sync_packages` has
  opened (`LIVMapper.cpp:3430`); closing it then pops the next scan, which is never
  processed. `OpenScanBuffered` says only that there is one to pop.
- *Backend.* After a halt the queue of pending samples is no longer trimmed, and
  before the first raw odometry the queue that waits for the alignment has no
  capacity. A status breaks the row of recovery candidates when it arrives, not
  when its sample is processed. A float that is only limited leaves the candidates before
  it standing: with an interval of float factors above the outage gap (5 and 2 ticks)
  a jump is accepted after candidate, limited float, candidate.
- *Measurement updates.* Landmark corrections fused in the skip path or without a
  valid photometric update are logged as accepted but rolled back
  (`vio.cpp:5309`, 6404). A degeneracy-relaxed frame with unknown weak direction
  restores everything and reports acceptance (5997-6020). The selector's
  keyframe state moves before the frame's outcome is known (`LIVMapper.cpp:2411`).
  A scan with no planes counts as non-degenerate (`voxel_map.cpp:1045`) but is always
  rejected, so a blind LiDAR never becomes "degenerated". With a map-update stride
  above 1 a recovery on a scan that is not due resets the freeze counter:
  `FreezeDiscipline` is a promise of stride 1 only.
- *Landmarks.* Once the graph has refused a keypose, no later one can enter. If
  the first is refused, the second becomes the gauge but is recorded as motion.
  The local reference of a global input is taken before guard and shadow settle.
- *P4.* An exception in `runBranch` leaves the branch's id counter installed. A plane
  that loses planarity above the last layer strands its points. A late `resumed`
  can make the next guard remove `done` before the script saw it. `saveSnapshot`
  tests success before flushing.
- *Deskewing.* The default zero of skipped lines collapses later times when
  `scan_line` is below the sensor's lines (shipped: 4 for the Mid360). After a gap the
  synthetic times lag, so the scan end can be early. Some handlers read the first
  point of an empty cloud.
- *Livox driver.* A configuration that requests no setting never becomes sampling;
  a failure answer other than a timeout leaves its bit forever; the 32-bit offset
  wraps after a gap of 4.29 s.
- *UWB.* Lines lost together with the boundary let a round mix two device rounds. A
  far-future stamp blocks an anchor's later ranges. A used-up recording is not
  restarted by a time reset (`uwb_manager.cpp:868`).
- *Time.* A relock candidate that steps too far leaves RELOCKING for good
  (`time_architecture_stageB.md:513` says HOLDOVER); from INVALID a single pair can
  lock with old pairs; `last_local_measurement_ns` is never reset at a new session; a
  forward jump of UTC poisons it. A position's observation is the inverse of the
  mapping it feeds: a mapping in holdover can relock on such pairs alone.
- *Recorder.* With a fixed bag name a session change ends in an error for good
  (`stageB1_implementation_report.md:279-280` acknowledges this); a bag that does not
  end in time raises out of the callback after the gate has stored the session.
- *Export.* `MISSING_MAP_TO_ODOM` is unreachable; an image later than the buffer is
  reported as `GLOBAL_ALIGNMENT_NOT_READY` although aligned.
- *Runtime guard.* A run that ends degraded with `pcd_save` dropped does not write the
  map it gathered.

## Not modelled

Numerics (photometric and point-to-plane residuals, covariances, PnP, gravity
alignment), which are free choices wherever control depends on them; parameter
loading; log, CSV, marker and report files; the modes `ONLY_LIO` (but for the fork)
and `LO`; camera intrinsics; the byte level of serial protocols and device
handling; feature extraction; the tools that compare recordings, the viewer and
the analysis scripts. Vendored code (Sophus, vikit, the Livox SDK, GTSAM) is
modelled by how it is used. Every component's note in `PROJECT.json` says what of it
is left out.

## Mutants

Each property of a passing run has a mutant in `PROJECT.json`: a definition of the
model is replaced by a plausible bug (the operator marked "Mutant" before it), such
as a rollback that restores the state without the IMU propagation, a scan closed
without waiting for the image stream, a reset that forgets the waiting samples,
an eviction that is one too late, or a mapper that compares sequences only, and
the property fails.
