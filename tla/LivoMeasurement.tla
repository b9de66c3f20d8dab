-------------------------- MODULE LivoMeasurement --------------------------
(* LIVMapper::handleLIO and handleVIO (LIVMapper.cpp): scans and images, in *)
(* the order in which the front end hands them over, against the two maps.  *)
(* handleVIO settles its transaction with stateEstimationAndMapping.        *)
EXTENDS VisualUpdate, LidarUpdate, LandmarkFrontend, LandmarkBackend

CONSTANTS
  Configs,     \* configurations, each with the scans (a bound) it may handle
               \* and whether the scene has points to track
  Recovery,    \* map_guard_recovery_consecutive_frames
  MaxFreeze,   \* map_guard_maximum_freeze_frames
  MaxSkip      \* keyframe_max_skip_frames

ASSUME MeasurementAssumption ==
  /\ Recovery \in Nat \ {0} /\ {MaxFreeze, MaxSkip} \subseteq Nat
  /\ Configs \subseteq
       [stride : Nat \ {0}, scans : Nat, imgEn : BOOLEAN, observability : BOOLEAN, enforce : BOOLEAN,
        adaptive : BOOLEAN, normal : BOOLEAN, refresh : BOOLEAN, prune : BOOLEAN,
        guarded : BOOLEAN, shadow : BOOLEAN, dry : BOOLEAN,
        aruco : {"off", "observe_only", "legacy_esikf", "global_backend"},
        sameId : BOOLEAN, points : BOOLEAN]

VARIABLES
  config,   \* the configuration, never changed
  lidar,    \* lidar_map_inited, pcl_w_wait_pub not empty, map stride, scans
  guard,    \* lio_map_guard_*
  sel,      \* keyframe selector: has_last_visual_keyframe_state_, skipped
  seen,     \* history for the properties
  sight     \* usable landmark observations still to be routed, next input id

vars == <<visualVars, lidarVars, landmarkVars, config, lidar, guard, sel, seen, sight>>

NoGuard == [active |-> FALSE, latched |-> FALSE, recovery |-> 0, freeze |-> 0]

\* held: due scans the guard withheld in a row; calm: scans in a row that asked
\* for no freeze; run, raw: committed scans in a row that agreed on degeneracy
NoHistory == [held |-> 0, calm |-> 0, run |-> 0, raw |-> FALSE]

Init ==
  /\ vmap = <<>> /\ track = [submap |-> {}, total |-> 0, protected |-> {}]
  /\ frame = 0 /\ board = FALSE /\ est = Before /\ ekf = NoEkf /\ fr = NoFrame
  /\ vpc = "idle"
  /\ hyst = NoHyst /\ saved = NoHyst /\ scan = NoScan /\ lpc = "idle"
  /\ config \in Configs
  /\ lidar = [inited |-> FALSE, fresh |-> FALSE, turn |-> 0, scans |-> 0]
  /\ guard = NoGuard /\ sel = [has |-> FALSE, skipped |-> 0] /\ seen = NoHistory
  /\ LandmarkInit /\ sight = [boards |-> <<>>, next |-> 1]

\* between two measurements, before the program ends
Idle == vpc = "idle" /\ lpc = "idle" /\ ~inbox.stopping

KeepLandmarks == UNCHANGED <<landmarkVars, sight>>

-----------------------------------------------------------------------------
(* handleLIO.  A scan without points returns at once: it changes nothing.   *)

BeginScan ==
  /\ Idle /\ lidar.scans < config.scans
  /\ lidar' = [lidar EXCEPT !.inited = TRUE, !.scans = @ + 1]
  /\ BeginUpdate
  /\ KeepLandmarks /\ UNCHANGED <<visualVars, hyst, config, guard, sel, seen>>

Estimate ==
  /\ \/ NoPlane(config.observability) \/ NumericalFailure
     \/ Iterate(config.observability) \/ Validate(config.observability)
  /\ KeepLandmarks /\ UNCHANGED <<visualVars, config, lidar, guard, sel, seen>>

\* a conflict of the direction or a severe degeneracy of this scan's diagnostics
Request == scan.severe \/ scan.conflict

\* Mutant: the freeze ends with the first scan that asks for none.
SteppedHasty(g, request) ==
  IF ~config.enforce THEN NoGuard
  ELSE IF g.latched THEN [g EXCEPT !.latched = request]
  ELSE IF request
       THEN [g EXCEPT !.recovery = 0, !.active = TRUE, !.freeze = IF g.active THEN @ ELSE 0]
  ELSE IF g.active THEN NoGuard
  ELSE g

\* the guard after the request of a scan, before its insertion
Stepped(g, request) ==
  IF ~config.enforce THEN NoGuard
  ELSE IF g.latched THEN [g EXCEPT !.latched = request]
  ELSE IF request
       THEN [g EXCEPT !.recovery = 0, !.active = TRUE, !.freeze = IF g.active THEN @ ELSE 0]
  ELSE IF ~g.active THEN g
  ELSE IF g.recovery + 1 >= Recovery THEN NoGuard
  ELSE [g EXCEPT !.recovery = @ + 1]

\* Mutant: the hard limit is one scan late.
LimitedLate(g) ==
  IF g.freeze > MaxFreeze
  THEN [g EXCEPT !.active = FALSE, !.latched = TRUE, !.recovery = 0]
  ELSE [g EXCEPT !.freeze = @ + 1]

\* a scan that is due while the guard is active: withheld, up to the hard limit
Limited(g) ==
  IF g.freeze >= MaxFreeze
  THEN [g EXCEPT !.active = FALSE, !.latched = TRUE, !.recovery = 0]
  ELSE [g EXCEPT !.freeze = @ + 1]

Turned == (lidar.turn + 1) % config.stride

Due == Turned = 0

\* shouldInsertLioMap
ShouldInsert(commit, due, guarded) == commit /\ due /\ ~guarded

RunAfter(s) ==
  IF ~scan.commit THEN [run |-> s.run, raw |-> s.raw]
  ELSE [run |-> IF scan.raw = s.raw THEN Capped(s.run + 1, EnterBad + ExitGood) ELSE 1,
        raw |-> scan.raw]

InsertScan ==
  /\ lpc = "insert"
  /\ LET g      == Stepped(guard, Request)
         after  == IF Due /\ g.active THEN Limited(g) ELSE g
         frozen == Due /\ after.active
     IN  /\ guard' = after
         /\ scan' = [scan EXCEPT !.inserted = ShouldInsert(scan.commit, Due, frozen)]
         /\ seen' = [seen EXCEPT !.held = IF frozen THEN Capped(@ + 1, MaxFreeze + 1)
                                          ELSE IF Due THEN 0 ELSE @,
                                 !.calm = IF Request THEN 0 ELSE Capped(@ + 1, Recovery),
                                 !.run = RunAfter(seen).run, !.raw = RunAfter(seen).raw]
  /\ lidar' = [lidar EXCEPT !.turn = Turned, !.fresh = config.imgEn]
  /\ saved' = NoHyst /\ lpc' = "idle"
  /\ KeepLandmarks /\ UNCHANGED <<visualVars, hyst, config, sel>>

-----------------------------------------------------------------------------
(* handleVIO *)

Degenerated == hyst.degenerated

KeepVision == KeepLandmarks /\ UNCHANGED <<lidarVars, config, guard>>

\* Without a scan and without a map an image has nothing to be matched with.
ImageWithoutSupport ==
  /\ Idle /\ config.imgEn /\ config.dry /\ ~lidar.inited
  /\ DryRun(config.normal)
  /\ KeepVision /\ UNCHANGED <<lidar, sel, seen>>

\* shouldSelectVisualFrame, when it selects, and what it leaves behind
Selects ==
  \/ ~config.adaptive /\ UNCHANGED sel
  \/ /\ config.adaptive
     /\ sel' = [has |-> TRUE, skipped |-> 0]

\* publish_frame_world empties pcl_w_wait_pub, after any image
Spent(l) == [l EXCEPT !.fresh = FALSE]

SkipImage ==
  /\ Idle /\ config.imgEn /\ lidar.inited
  /\ config.adaptive /\ ~Degenerated /\ sel.has /\ sel.skipped < MaxSkip
  /\ sel' = [sel EXCEPT !.skipped = @ + 1]
  /\ lidar' = Spent(lidar)
  /\ KeepVision /\ UNCHANGED <<visualVars, seen>>

ProcessImage ==
  /\ Idle /\ config.imgEn /\ lidar.inited /\ frame < MaxFrames
  /\ Selects
  /\ TakeImage(config.normal, config.aruco, Degenerated)
  /\ KeepVision /\ UNCHANGED <<lidar, seen>>

\* the landmarks of this image go to the persistent backend
Global == config.aruco = "global_backend" /\ fr.aruco

\* routeLandmarkObservations in that mode: detect_qr's observations are chosen
\* here; each is submitted by itself, in any state of the worker
RouteToBackend ==
  /\ vpc = "route" /\ Global
  /\ \E boards \in Sightings(config.sameId) : sight' = [sight EXCEPT !.boards = boards]
  /\ vpc' = "submit"
  /\ UNCHANGED <<vmap, track, frame, board, est, ekf, fr, lidarVars, landmarkVars,
                 config, lidar, guard, sel, seen>>

SubmitNext ==
  /\ vpc = "submit"
  /\ IF sight.boards = <<>>
     THEN /\ vpc' = IF Skipped THEN "generate" ELSE "settle"
          /\ UNCHANGED <<inbox, sight>>
     ELSE /\ \E finite \in BOOLEAN :
               Submit([id |-> sight.next, board |-> Head(sight.boards), t |-> frame,
                       finite |-> finite])
          /\ sight' = [boards |-> Tail(sight.boards), next |-> sight.next + 1]
          /\ UNCHANGED vpc
  /\ UNCHANGED <<vmap, track, frame, board, est, ekf, fr, lidarVars, chart, graph,
                 config, lidar, guard, sel, seen>>

\* the worker's thread
LandmarkWork ==
  /\ Work
  /\ UNCHANGED <<visualVars, lidarVars, config, lidar, guard, sel, seen, sight>>

\* the destructor of LIVMapper, once the event loop has ended
EndProgram ==
  /\ Idle /\ config.aruco = "global_backend" /\ AskToStop
  /\ UNCHANGED <<visualVars, lidarVars, config, lidar, guard, sel, seen, sight>>

Correct ==
  /\ \/ RejectMeasurement \/ AbandonIteration \/ ApplyIteration \/ LastIteration
     \/ ~Global /\ Route(config.aruco)
     \/ Settle(config.guarded)
     \/ Observe \/ Prune(config.prune, config.shadow)
  /\ KeepVision /\ UNCHANGED <<lidar, sel, seen>>

AddPoints ==
  /\ Generate(config.refresh, lidar.fresh /\ config.points)
  /\ KeepVision /\ UNCHANGED <<lidar, sel, seen>>

\* the image is published; an update that was not accepted is rolled back
FinishImage ==
  /\ vpc = "done"
  /\ est' = Before /\ vpc' = "idle" /\ fr' = NoFrame
  /\ lidar' = Spent(lidar)
  /\ KeepVision /\ UNCHANGED <<vmap, track, frame, board, ekf, sel, seen>>

Next ==
  \/ BeginScan \/ Estimate \/ InsertScan
  \/ ImageWithoutSupport \/ SkipImage \/ ProcessImage \/ Correct \/ AddPoints
  \/ FinishImage
  \/ RouteToBackend \/ SubmitNext \/ LandmarkWork \/ EndProgram

Spec == Init /\ [][Next]_vars

-----------------------------------------------------------------------------
TypeOK ==
  /\ config \in Configs
  /\ DOMAIN vmap \subseteq (1..MaxFrames) \X Voxels
  /\ \A p \in DOMAIN vmap :
       vmap[p] \in [obs : (SUBSET (1..MaxFrames)) \ {{}}, ref : 0..MaxFrames, hasRef : BOOLEAN]
  /\ track.total \in Nat /\ frame \in 0..MaxFrames /\ board \in BOOLEAN
  /\ est \in [x : Nat, cov : Nat, pose : Nat, gain : Nat]
  /\ ekf.level \in 0..(Levels - 1) /\ ekf.it \in 0..(MaxIterations - 1)
  /\ vpc \in {"idle", "ekf", "route", "submit", "settle", "generate", "observe", "prune", "done"}
  /\ hyst \in [degenerated : BOOLEAN, bad : 0..EnterBad, good : 0..ExitGood]
  /\ scan.it \in 0..MaxIcp /\ lpc \in {"idle", "icp", "validate", "insert"}
  /\ guard \in [active : BOOLEAN, latched : BOOLEAN,
                recovery : 0..(Recovery - 1), freeze : 0..MaxFreeze]
  /\ sel \in [has : BOOLEAN, skipped : 0..MaxSkip]

\* The limits of pruneVisualMap: a voxel never holds more points than its cap;
\* after a pruned image the map keeps the total caps too, unless all that is
\* left over them is tracked by that image.
MapBounded ==
  /\ MaxPerVoxel > 0 =>
       \A v \in Voxels : Cardinality(InVoxel(vmap, v)) <= MaxPerVoxel
  /\ (vpc = "done" /\ config.prune /\ fr.gate # "none" /\ ~fr.refused) =>
       /\ \/ Excess(Cardinality(DOMAIN vmap), MaxTotal) = 0
          \/ DOMAIN vmap \subseteq track.protected
       /\ \/ Excess(Cardinality(UsedVoxels(vmap)), MaxVoxels) = 0
          \/ \A v \in UsedVoxels(vmap) : InVoxel(vmap, v) \cap track.protected # {}

\* The raw pointers of the submap outlive every removal from the map: what
\* this image tracks is still in the map when updateVisualMapPoints reads it.
\* A reference patch is one of its point's observations, never a deleted one,
\* and the limits on points, voxels and observations hold.
VisualMapCoherent ==
  /\ track.submap \subseteq DOMAIN vmap
  /\ \A p \in DOMAIN vmap :
       /\ vmap[p].ref # NoPatch => vmap[p].ref \in vmap[p].obs
       /\ Cardinality(vmap[p].obs) <= MaxObs
  /\ MapBounded

\* Between iterations and levels the gain is the one the current estimate was
\* computed with, so that the covariance is shrunk for the correction that is
\* kept and never for one that was abandoned.
GainMatchesState ==
  /\ vpc = "ekf" => /\ est.gain = est.x /\ ekf.oldGain = ekf.old
                    /\ (ekf.valid \/ ekf.any) <=> est.x # 0
  /\ vpc = "route" => /\ est.cov = est.gain /\ est.pose = est.x
                      /\ fr.updated <=> est.x # 0

\* What an image leaves in the estimate is what it was accepted for: camera
\* pose and state agree, a rejected or shadowed correction leaves state and
\* covariance as they were.
FrameSettled ==
  vpc = "done" =>
    /\ est.pose = est.x
    /\ ~(fr.accepted \/ fr.fused) => est.x = 0 /\ est.cov = 0
    /\ config.shadow => ~fr.accepted /\ (fr.gate # "skip" => est.x = 0 /\ est.cov = 0)
    /\ fr.refused => est = Before

\* Degeneracy is debounced over committed scans alone: it changes after
\* EnterBad (ExitGood) committed scans in a row that saw it, and then at once;
\* a rejected scan changes neither the verdict nor a counter.
DegeneracyDebounced ==
  (lpc = "insert" /\ config.observability) =>
    LET run == RunAfter(seen).run
    IN  IF ~scan.commit THEN hyst = saved
        ELSE /\ hyst.degenerated # saved.degenerated => hyst.degenerated = scan.raw
             /\ run >= (IF scan.raw THEN EnterBad ELSE ExitGood)
                  => hyst.degenerated = scan.raw
             /\ hyst.degenerated # saved.degenerated
                  => run >= (IF scan.raw THEN EnterBad ELSE ExitGood)

\* A freeze ends after Recovery scans in a row without a request or at the
\* hard limit; from there on no scan is withheld before the request has ended.
\* Where every scan is due for the map, no more than maximum_freeze_frames
\* are withheld in a row, however the requests come and go.
FreezeDiscipline ==
  [][/\ (guard.active /\ ~guard'.active) => guard'.latched \/ seen'.calm >= Recovery
     /\ guard.latched => ~guard'.active
     /\ (guard.latched /\ ~guard'.latched) => seen'.calm > 0
     /\ config.stride = 1 => seen'.held <= MaxFreeze]_vars
=============================================================================
