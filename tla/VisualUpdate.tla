---------------------------- MODULE VisualUpdate ----------------------------
(* VIOManager::processFrame (vio.cpp): one image against the visual map.    *)
(* The estimate is named by the correction of this event that produced it   *)
(* (0: the prediction the event began with); the gain by the estimate it    *)
(* produced (0: no gain).  What pixels, gates and solvers decide is left    *)
(* open; what the code does with each decision is not.                      *)
EXTENDS VisualMap

CONSTANTS
  MaxFrames,      \* bound: images given an id
  Levels,         \* patch_pyrimid_level
  MaxIterations,  \* max_iterations
  MinTracked,     \* min_retrieve_points
  RelaxedTracked, \* smallest count that a relaxed or forced gate lets pass
  MaxRefresh      \* visual_reference_refresh_max_per_frame

ASSUME VisualCountsAssumption ==
  /\ {MaxFrames, Levels, MaxIterations, MinTracked, MaxRefresh} \subseteq Nat \ {0}
  /\ RelaxedTracked \in 1..MinTracked

VARIABLES
  vmap,      \* the visual map: point |-> [obs, ref, hasRef]
  track,     \* visual_submap, total_points and protected_visual_points_
  frame,     \* id of the last image (Frame::frame_counter_)
  board,     \* the landmark board has a world pose
  est,       \* state, covariance, frame pose and gain, by correction
  ekf,       \* the iterated update: level, iteration and what it falls back to
  fr,        \* decisions taken for the current image
  vpc        \* stage of processFrame

visualVars == <<vmap, track, frame, board, est, ekf, fr, vpc>>

Before == [x |-> 0, cov |-> 0, pose |-> 0, gain |-> 0]
NoEkf  == [level |-> 0, it |-> 0, old |-> 0, oldGain |-> 0,
           any |-> FALSE, oldAny |-> FALSE, valid |-> FALSE]
NoFrame == [gate |-> "none", aruco |-> FALSE, updated |-> FALSE, fused |-> FALSE,
            refused |-> FALSE, accepted |-> FALSE]

-----------------------------------------------------------------------------
(* The image quality gate and the retrieval of the submap. *)

\* resetGrid empties the count, not the submap
RejectImage ==
  /\ track' = [track EXCEPT !.total = 0]
  /\ fr' = NoFrame /\ vpc' = "done"
  /\ UNCHANGED <<vmap, board, est, ekf>>

\* Of the candidates in view some get a reference, and of these some pass the
\* warp, contrast, exposure, NCC and photometric gates.
Retrieved(normal, dry, C, best) ==
  [p \in DOMAIN vmap |->
     IF p \in C /\ normal /\ ~dry THEN ChosenReference(vmap[p], best[p]) ELSE vmap[p]]

HasReference(normal, m, p) == ~normal \/ m[p].ref # NoPatch

\* A dry run only asks which points would be tracked.
Trackable(normal, m, C) == {p \in C : HasReference(normal, m, p)}

BestPatches(C) ==
  {b \in [C -> 0..MaxFrames] : \A p \in C : b[p] \in vmap[p].obs \cup {NoPatch}}

\* which gate lets the count of tracked points through to the update
Gates(total, degenerated) ==
  IF total >= MinTracked THEN {"normal"}
  ELSE {"skip"} \cup (IF total >= RelaxedTracked THEN {"relaxed", "forced"} ELSE {})
                \cup (IF total >= RelaxedTracked /\ degenerated THEN {"degeneracy"} ELSE {})

\* The nearest point of each grid cell in usable tiles: from the voxels of the
\* scan, along rays through cells that got none and, when they are few, from
\* the whole map.  A point and its cell are one here, so any set may come out.
Retrievable == SUBSET DOMAIN vmap

\* with the degenerated LiDAR every relaxed gate can pass together with it
Retrieve(normal, arucoMode, degenerated) ==
  \E C \in Retrievable :
  \E best \in (IF \E p \in C : Cardinality(vmap[p].obs) > 1 /\ ~vmap[p].hasRef
               THEN BestPatches(C) ELSE {[p \in C |-> NoPatch]}) :
  LET m == Retrieved(normal, FALSE, C, best)
  IN  \E S \in SUBSET Trackable(normal, m, C) :
      \E gate \in Gates(Cardinality(S), degenerated) :
      \E aruco \in (IF arucoMode = "off" THEN {FALSE} ELSE BOOLEAN) :
        /\ vmap' = m
        /\ track' = [track EXCEPT !.submap = S, !.total = Cardinality(S)]
        /\ fr' = [NoFrame EXCEPT !.gate = gate, !.aruco = aruco]
        /\ ekf' = [NoEkf EXCEPT !.level = Levels - 1]
        /\ vpc' = IF gate = "skip" THEN "route" ELSE "ekf"
        /\ UNCHANGED <<board, est>>

\* the new frame takes the pose of the predicted state
TakeImage(normal, arucoMode, degenerated) ==
  /\ frame' = frame + 1
  /\ \/ RejectImage
     \/ Retrieve(normal, arucoMode, degenerated)

\* A frame without LiDAR support and without a map to keep it: the id is given
\* back, nothing else is written.
DryRun(normal) ==
  /\ \E C \in Retrievable :
     \E S \in SUBSET Trackable(normal, vmap, C) :
       track' = [track EXCEPT !.submap = S, !.total = Cardinality(S)]
  /\ fr' = NoFrame /\ vpc' = "done"
  /\ UNCHANGED <<vmap, frame, board, est, ekf>>

-----------------------------------------------------------------------------
(* computeJacobianAndUpdateEKF: pyramid levels, each an iterated update      *)
(* (updateState, updateStateInverse).                                        *)

\* Mutant: the gain of the abandoned iteration stays.
RollbackStateOnly == [est EXCEPT !.x = ekf.old]

\* rollback_iteration
RolledBack == [est EXCEPT !.x = ekf.old, !.gain = ekf.oldGain]

\* a rejected level restores what the whole measurement began with
RestoreMeasurement ==
  /\ est' = Before /\ ekf' = NoEkf /\ vpc' = "route"
  /\ UNCHANGED <<vmap, track, frame, board, fr>>

\* after the last level the gain shrinks the covariance
ApplyGain(e) ==
  /\ est' = [e EXCEPT !.cov = e.gain, !.pose = e.x]
  /\ ekf' = NoEkf /\ fr' = [fr EXCEPT !.updated = TRUE] /\ vpc' = "route"
  /\ UNCHANGED <<vmap, track, frame, board>>

DropGain(e) ==
  /\ est' = [e EXCEPT !.gain = 0, !.pose = e.x]
  /\ ekf' = NoEkf /\ vpc' = "route"
  /\ UNCHANGED <<vmap, track, frame, board, fr>>

\* a covariance that is not finite rejects the measurement after all
EndLevel(e, any) ==
  LET valid == ekf.valid \/ any
  IN  \/ /\ ekf.level > 0
         /\ est' = e
         /\ ekf' = [level |-> ekf.level - 1, it |-> 0, old |-> e.x, oldGain |-> e.gain,
                    any |-> FALSE, oldAny |-> FALSE, valid |-> valid]
         /\ UNCHANGED <<vmap, track, frame, board, fr, vpc>>
      \/ ekf.level = 0 /\ valid /\ (ApplyGain(e) \/ RestoreMeasurement)
      \/ ekf.level = 0 /\ ~valid /\ DropGain(e)

\* numbers, observability or NIS refuse the measurement
RejectMeasurement == vpc = "ekf" /\ RestoreMeasurement

\* too few patches, or an error larger than the last (never in the first)
AbandonIteration == vpc = "ekf" /\ EndLevel(RolledBack, ekf.oldAny)

\* state += solution
Corrected == [est EXCEPT !.x = @ + 1, !.gain = est.x + 1]

ApplyIteration ==
  /\ vpc = "ekf" /\ ekf.it + 1 < MaxIterations
  /\ est' = Corrected
  /\ ekf' = [ekf EXCEPT !.it = @ + 1, !.old = est.x, !.oldGain = est.gain,
                        !.any = TRUE, !.oldAny = ekf.any]
  /\ UNCHANGED <<vmap, track, frame, board, fr, vpc>>

\* converged, or out of iterations
LastIteration == vpc = "ekf" /\ EndLevel(Corrected, TRUE)

-----------------------------------------------------------------------------
(* routeLandmarkObservations and updateStateWithBoardObservation: the board *)
(* takes its world pose from the first observation that qualifies; later    *)
(* ones correct the estimate, in legacy mode only.                          *)

Consumes(arucoMode) == fr.aruco /\ arucoMode \in {"observe_only", "legacy_esikf"}

Fuse ==
  /\ est' = [est EXCEPT !.x = @ + 1, !.cov = est.x + 1, !.pose = est.x + 1]
  /\ fr' = [fr EXCEPT !.fused = TRUE]
  /\ UNCHANGED board

Route(arucoMode) ==
  /\ vpc = "route"
  /\ \/ Consumes(arucoMode) /\ ~board /\ board' = TRUE /\ UNCHANGED <<est, fr>>
     \/ Consumes(arucoMode) /\ board /\ arucoMode = "legacy_esikf" /\ Fuse
     \/ UNCHANGED <<board, est, fr>>
  /\ vpc' = IF fr.gate = "skip" THEN "generate" ELSE "settle"
  /\ UNCHANGED <<vmap, track, frame, ekf>>

-----------------------------------------------------------------------------
(* The degeneracy-relaxed correction and the update guard. *)

\* Only a damped step along the weak axis is kept, if that axis is known.
Damped ==
  IF fr.gate = "degeneracy" /\ fr.updated
  THEN {Before, [Before EXCEPT !.x = 1, !.pose = 1]} ELSE {est}

\* Mutant: the guard restores the state without its covariance.
GuardStateOnly(e) == [e EXCEPT !.x = 0, !.pose = 0, !.gain = 0]

\* the state and covariance before the visual update
GuardRestored(e) == Before

Settle(guarded) ==
  /\ vpc = "settle"
  /\ \E e \in Damped :
       \/ est' = e /\ vpc' = "generate" /\ UNCHANGED fr
       \/ /\ guarded /\ est' = GuardRestored(e) /\ vpc' = "done"
          /\ fr' = [fr EXCEPT !.refused = TRUE]
  /\ UNCHANGED <<vmap, track, frame, board, ekf>>

-----------------------------------------------------------------------------
(* The visual map after an image: refreshTrackedReferencePatches (skip path *)
(* only), generateVisualMapPoints, updateVisualMapPoints,                   *)
(* updateReferencePatch, pruneVisualMap.                                    *)

Skipped == fr.gate = "skip"

\* references old enough, in usable tiles and with enough contrast
Refreshes(refresh) ==
  IF refresh /\ Skipped
  THEN {R \in SUBSET {p \in track.submap : vmap[p].ref \notin {NoPatch, frame}} :
          Cardinality(R) <= MaxRefresh}
  ELSE {{}}

AfterRefresh(R) ==
  [p \in DOMAIN vmap |-> IF p \in R THEN Refreshed(frame) ELSE vmap[p]]

\* Mutant: the points protected are those of the last image.
ProtectLate == track.protected

\* refreshProtectedVisualPointSet
Protect == track.submap

\* A scan gives candidates once; cells that show a map point get none.
Generate(refresh, fresh) ==
  /\ vpc = "generate"
  /\ \E R \in Refreshes(refresh) :
     \E N \in SUBSET (IF fresh THEN Voxels ELSE {}) :
       /\ Cardinality(N) <= MaxAdd
       /\ vmap' \in Inserted(AfterRefresh(R), frame, N, Protect)
  /\ track' = [track EXCEPT !.protected = Protect]
  /\ vpc' = IF Skipped THEN "prune" ELSE "observe"
  /\ UNCHANGED <<frame, board, est, ekf, fr>>

\* one tracked point: seen from far enough away, it gets the patch, and the
\* reference is chosen again, unless no score is a number
Updates(pt) ==
  UNION {{q} \cup (IF Cardinality(q.obs) > 1
                   THEN {Rereferenced(q, o) : o \in q.obs} ELSE {})
         : q \in Observed(pt, frame)}

\* The loops index the submap up to the number of tracked points.
Observe ==
  /\ vpc = "observe"
  /\ \E m \in [track.submap -> UNION {{vmap[p]} \cup Updates(vmap[p]) :
                                       p \in track.submap}] :
       /\ \A p \in track.submap : m[p] \in {vmap[p]} \cup Updates(vmap[p])
       /\ vmap' = [p \in DOMAIN vmap |-> IF p \in track.submap THEN m[p] ELSE vmap[p]]
  /\ vpc' = "prune"
  /\ UNCHANGED <<track, frame, board, est, ekf, fr>>

\* at last the shadow mode takes the whole correction back
Prune(prune, shadow) ==
  /\ vpc = "prune"
  /\ vmap' \in (IF prune THEN Pruned(vmap, track.protected) ELSE {vmap})
  /\ est' = IF shadow /\ ~Skipped THEN [Before EXCEPT !.gain = est.gain] ELSE est
  /\ fr' = [fr EXCEPT !.accepted = fr.updated /\ ~shadow]
  /\ vpc' = "done"
  /\ UNCHANGED <<track, frame, board, ekf>>
=============================================================================
