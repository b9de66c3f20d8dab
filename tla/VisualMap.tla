----------------------------- MODULE VisualMap -----------------------------
(* The sparse map of visual points (vio.cpp, visual_point.cpp): points in  *)
(* voxels, each with the patches of the frames that observed it and the    *)
(* reference patch among them.  A point is named by the frame that added   *)
(* it and its voxel (a frame adds at most one to a voxel here); a patch by *)
(* its frame, so the newest one, at the front of obs_, has the largest.    *)
(* Which of two equally old points goes first is left open: the code       *)
(* compares their addresses.                                               *)
EXTENDS Integers, FiniteSetsExt, Functions

CONSTANTS
  Voxels,          \* cells of the voxel map
  MaxPerVoxel,     \* visual_map_max_points_per_voxel (0: no limit)
  MaxTotal,        \* visual_map_max_total_points (0: no limit)
  MaxVoxels,       \* visual_map_max_voxels (0: no limit)
  MaxAdd,          \* visual_map_max_add_per_frame
  MaxObs           \* observations of a point before the worst is dropped

ASSUME VisualCapsAssumption ==
  /\ {MaxPerVoxel, MaxTotal, MaxVoxels} \subseteq Nat
  /\ IsFiniteSet(Voxels) /\ MaxAdd \in Nat \ {0} /\ MaxObs \in Nat \ {0, 1}

NoPatch == 0

Pt(frame, voxel) == <<frame, voxel>>
VoxelOf(p) == p[2]

NewPoint(frame) == [obs |-> {frame}, ref |-> NoPatch, hasRef |-> FALSE]

InVoxel(m, v) == {p \in DOMAIN m : VoxelOf(p) = v}
UsedVoxels(m) == {VoxelOf(p) : p \in DOMAIN m}

\* getVisualPointOldestFrameId
Age(m, p) == Min(m[p].obs)

\* Mutant: the points of the current submap are not spared.
OldestOfAny(m, cand, n, spared) ==
  {R \in kSubset(Min({n, Cardinality(cand)}), cand) :
     \A r \in R, c \in cand \ R : Age(m, r) <= Age(m, c)}

\* the n oldest candidates that are not spared, or as many as there are
OldestOf(m, cand, n, spared) ==
  LET free == cand \ spared
  IN  {R \in kSubset(Min({n, Cardinality(free)}), free) :
         \A r \in R, c \in free \ R : Age(m, r) <= Age(m, c)}

Without(m, removed) == Restrict(m, DOMAIN m \ removed)

Excess(n, limit) == IF limit > 0 /\ n > limit THEN n - limit ELSE 0

\* Mutant: a voxel at its limit still takes a point.
FullTooLate(m, v) ==
  MaxPerVoxel > 0 /\ Cardinality(InVoxel(m, v)) > MaxPerVoxel

Full(m, v) == MaxPerVoxel > 0 /\ Cardinality(InVoxel(m, v)) >= MaxPerVoxel

\* insertPointIntoVoxelMap for one new point in each of the given voxels: a
\* full voxel gives up its oldest unprotected point, or rejects the new one
Inserted(m, frame, voxels, spared) ==
  {LET kept == Without(m, E)
       new  == {Pt(frame, v) : v \in {u \in voxels : ~Full(kept, u)}}
   IN  [p \in DOMAIN kept \cup new |->
          IF p \in new THEN NewPoint(frame) ELSE kept[p]]
   : E \in {D \in SUBSET DOMAIN m :
              \A v \in Voxels :
                D \cap InVoxel(m, v) \in
                  IF v \in voxels /\ Full(m, v)
                  THEN OldestOf(m, InVoxel(m, v), 1, spared) ELSE {{}}}}

\* the loop of pruneVisualMap over the voxels
CapVoxels(m, spared) ==
  {Without(m, E) :
     E \in {D \in SUBSET DOMAIN m :
              \A v \in Voxels :
                D \cap InVoxel(m, v) \in
                  OldestOf(m, InVoxel(m, v),
                           Excess(Cardinality(InVoxel(m, v)), MaxPerVoxel), spared)}}

\* pruneOldestVisualPointsTo
CapPoints(m, spared) ==
  {Without(m, E) :
     E \in OldestOf(m, DOMAIN m, Excess(Cardinality(DOMAIN m), MaxTotal), spared)}

\* pruneOldestVisualVoxelsTo: voxels with a spared point stay
CapUsedVoxels(m, spared) ==
  LET free == {v \in UsedVoxels(m) : InVoxel(m, v) \cap spared = {}}
      n    == Min({Excess(Cardinality(UsedVoxels(m)), MaxVoxels), Cardinality(free)})
      Eldest(v) == Min({Age(m, p) : p \in InVoxel(m, v)})
  IN  {Without(m, UNION {InVoxel(m, v) : v \in V}) :
         V \in {W \in kSubset(n, free) :
                  \A v \in W, u \in free \ W : Eldest(v) <= Eldest(u)}}

Pruned(m, spared) ==
  UNION {CapUsedVoxels(b, spared) :
           b \in UNION {CapPoints(a, spared) : a \in CapVoxels(m, spared)}}

\* What retrieveFromVisualSparseMap writes into a candidate when planes give
\* the normals: a single observation is the reference; a point that never
\* had one gets the photometrically best, which may be none.
ChosenReference(pt, best) ==
  IF Cardinality(pt.obs) = 1
  THEN [pt EXCEPT !.ref = Min(pt.obs), !.hasRef = TRUE]
  ELSE IF ~pt.hasRef THEN [pt EXCEPT !.ref = best, !.hasRef = TRUE] ELSE pt

\* addFrameRef and the deletion of all other observations
Refreshed(frame) == [obs |-> {frame}, ref |-> frame, hasRef |-> TRUE]

\* deleteFeatureRef
Forget(pt, o) ==
  [pt EXCEPT !.obs = @ \ {o},
             !.ref = IF @ = o THEN NoPatch ELSE @,
             !.hasRef = IF pt.ref = o THEN FALSE ELSE @]

\* findMinScoreFeature skips the reference
Droppable(pt) == pt.obs \ {pt.ref}

\* updateVisualMapPoints for one point: the observation with the lowest score
\* makes room for the new one
Observed(pt, frame) ==
  LET room == IF Cardinality(pt.obs) >= MaxObs /\ Droppable(pt) # {}
              THEN {Forget(pt, o) : o \in Droppable(pt)} ELSE {pt}
  IN  {[q EXCEPT !.obs = @ \cup {frame}] : q \in room}

\* updateReferencePatch: the observation with the best score
Rereferenced(pt, o) == [pt EXCEPT !.ref = o, !.hasRef = TRUE]
=============================================================================
