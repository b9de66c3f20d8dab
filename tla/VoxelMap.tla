------------------------------- MODULE VoxelMap -------------------------------
(* The voxel map of VoxelMapManager: the local voxels around the sensor, the *)
(* long-term voxels that images have observed, and the map slid along with   *)
(* the sensor.  Voxels lie on a line; a world point is a voxel, a cell in it *)
(* and a surface.  voxel_plane_id is one counter for all maps of a process,  *)
(* so every operation takes it and gives it back.                            *)
EXTENDS VoxelTree

CONSTANTS
  HalfMap,         \* half_map_size
  SlideThreshold,  \* sliding_thresh
  LongTermMax,     \* long_term_visual_max_voxels
  LongTerm,        \* long_term_visual_map_en
  MinMatches       \* correspondences an update needs to be committed

ASSUME MapAssumption == LongTermMax \in Nat

NoMap == [local |-> <<>>, far |-> <<>>, observed |-> {}, frame |-> 0,
          frames |-> <<>>, at |-> 0, slid |-> 0]

Away(a, b) == IF a < b THEN b - a ELSE a - b

\* transformLidar
World(points, place) ==
  [i \in DOMAIN points |-> [v |-> place + points[i].dv, cell |-> points[i].cell,
                            surf |-> points[i].surf]]

Stamped(p, frame) == [cell |-> p.cell, surf |-> p.surf, at |-> frame]

-----------------------------------------------------------------------------
(* BuildVoxelMap, UpdateVoxelMap, mapSliding *)

\* the voxel of a scan's points, and the order BuildVoxelMap goes through them:
\* that of a hash map in the code, of the keys here
Rooted(world, v, frame) ==
  LET of == Picked(world, {i \in DOMAIN world : world[i].v = v})
  IN  [q \in {<<>>} |-> [EmptyNode EXCEPT !.pts = [i \in DOMAIN of |-> Stamped(of[i], frame)],
                                          !.new = Len(of)]]
Holding(got, v, tree) == [local |-> Put(got.local, v, tree.tree), next |-> tree.next]

Build(m, world, next) ==
  LET order == InKeyOrder({world[i].v : i \in DOMAIN world})
      got[k \in 0..Len(order)] ==
        IF k = 0 THEN [local |-> <<>>, next |-> next]
        ELSE Holding(got[k - 1], order[k],
                 InitTree(Rooted(world, order[k], m.frame), <<>>, got[k - 1].next))
  IN  [map |-> [m EXCEPT !.local = got[Len(order)].local, !.frames = Append(@, m.frame)],
       next |-> got[Len(order)].next]

Local(local, v) == IF v \in DOMAIN local THEN local[v] ELSE [q \in {<<>>} |-> EmptyNode]
Insert(m, world, next) ==
  LET got[k \in 0..Len(world)] ==
        IF k = 0 THEN [local |-> m.local, next |-> next]
        ELSE Holding(got[k - 1], world[k].v,
                 UpdateTree(Local(got[k - 1].local, world[k].v), Stamped(world[k], m.frame),
                            got[k - 1].next))
      new == m.frames = <<>> \/ Last(m.frames) # m.frame
  IN  [map |-> [m EXCEPT !.local = got[Len(world)].local,
                         !.frames = IF new THEN Append(@, m.frame) ELSE @],
       next |-> got[Len(world)].next]

\* clearMemOutOfMap: the voxels left behind, and those of them images observed
Behind(m) == {v \in DOMAIN m.local : Away(v, m.at) > HalfMap}
Kept(m) == IF LongTerm THEN Behind(m) \cap m.observed ELSE {}

\* the long-term voxels farthest away give way to the limit
Farther(voxels, v, at) ==
  {w \in voxels : Away(w, at) > Away(v, at) \/ (Away(w, at) = Away(v, at) /\ w < v)}
Trimmed(far, at) ==
  LET excess == Cardinality(DOMAIN far) - LongTermMax
  IN  IF ~LongTerm THEN far
      ELSE [v \in {w \in DOMAIN far : Cardinality(Farther(DOMAIN far, w, at)) >= excess} |->
              far[v]]

Slide(m) ==
  LET kept == Kept(m)
      far  == [v \in DOMAIN m.far \cup kept |-> IF v \in kept THEN m.local[v] ELSE m.far[v]]
  IN  IF Away(m.at, m.slid) < SlideThreshold THEN m
      ELSE [m EXCEPT !.local = [v \in DOMAIN m.local \ Behind(m) |-> m.local[v]],
                     !.far = Trimmed(far, m.at), !.slid = m.at]

\* setVisualObservedVoxels
Observe(m, voxels) == [m EXCEPT !.observed = voxels]

-----------------------------------------------------------------------------
(* BuildResidualListOMP and StateEstimation *)

Known(m) == DOMAIN m.local \cup IF LongTerm THEN DOMAIN m.far ELSE {}
TreeAt(m, v) == IF v \in DOMAIN m.local THEN m.local[v] ELSE m.far[v]

\* the neighbour of a voxel whose outer quarter the point lies in
Near(p) ==
  IF p.cell = <<0, 0>> THEN p.v - 1 ELSE IF p.cell = <<1, 1>> THEN p.v + 1 ELSE p.v

In(m, v, p, recent) == IF v \in Known(m) THEN MatchIn(TreeAt(m, v), p, recent) ELSE None
Or(match, p, other) == IF match # None THEN [v |-> p.v, id |-> match] ELSE other
Matched(m, p, recent) ==
  Or(In(m, p.v, p, recent), p,
     [v |-> Near(p),
      id |-> IF p.v \in Known(m) THEN In(m, Near(p), p, recent) ELSE None])

Found(got) == {[point |-> i, match |-> got[i]] : i \in {j \in DOMAIN got : got[j].id # None}}
Matches(m, world, recent) == Found([i \in DOMAIN world |-> Matched(m, world[i], recent)])

\* the frames the recent-point exclusion leaves out
Recent(m, n) == {m.frames[i] : i \in {j \in DOMAIN m.frames : j > Len(m.frames) - n}}

\* A scan is committed when enough of its points match; only then does the
\* position the map slides with move.
Decided(m, state, matches, commit) ==
  [matches |-> matches, commit |-> commit,
   state |-> IF commit THEN [state EXCEPT !.lio = @ + 1] ELSE state,
   map |-> IF commit THEN [m EXCEPT !.at = state.place] ELSE m]
Against(m, state, matches) ==
  Decided(m, state, matches, Cardinality(matches) >= MinMatches)
Measure(m, state, world, exclude) == Against(m, state, Matches(m, world, Recent(m, exclude)))
Estimate(map, state, world, exclude) ==
  Measure([map EXCEPT !.frame = @ + 1], state, world, exclude)

-----------------------------------------------------------------------------

\* Every octree of the map is coherent, no two of its planes share an id, no id
\* is one the counter is still to give, and the long-term voxels stay few.
Sound(tree, next) ==
  TreeCoherent(tree) /\ OwnIds(tree) /\ \A i \in PlaneIds(tree) : i < next
Strangers(a, b) == PlaneIds(a) \cap PlaneIds(b) = {}

MapCoherent(m, next) ==
  /\ \A v \in DOMAIN m.local : Sound(m.local[v], next)
  /\ \A v \in DOMAIN m.far : Sound(m.far[v], next)
  /\ \A v, w \in DOMAIN m.local : v # w => Strangers(m.local[v], m.local[w])
  /\ \A v, w \in DOMAIN m.far : v # w => Strangers(m.far[v], m.far[w])
  /\ \A v \in DOMAIN m.local, w \in DOMAIN m.far : Strangers(m.local[v], m.far[w])
  /\ Cardinality(DOMAIN m.far) <= LongTermMax
=============================================================================
