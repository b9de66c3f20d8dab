------------------------------ MODULE VoxelTree ------------------------------
(* The octree of one voxel: VoxelOctoTree and VoxelPlane of voxel_map.cpp.   *)
(* A tree is a function from paths (octant by octant, <<>> the root) to      *)
(* nodes; a leaf that was never allocated is not in its domain.  A point     *)
(* says in which cell it lies, on which surface, and in which frame it was   *)
(* measured; a fit succeeds iff all points are of one surface.               *)
EXTENDS Integers, SequencesExt

CONSTANTS
  None,          \* no plane id yet
  Threshold,     \* layer_init_num_, points_size_threshold_
  FewestPoints,  \* the least number of points init_plane fits
  UpdateSize,    \* update_size_threshold_
  MaxPoints,     \* max_points_num_
  MaxLayer,      \* max_layer_
  Surfaces       \* what there is to measure

ASSUME TreeAssumption ==
  /\ {Threshold, FewestPoints, UpdateSize, MaxPoints, MaxLayer} \subseteq Nat
  /\ FewestPoints > 0 /\ MaxPoints >= Threshold /\ None \notin Nat

\* leafnum on each layer, from the root's leaves down to the last layer
Octants == 0..7
Cells == [1..MaxLayer -> Octants]

\* The elements of S in ascending order, and those of s at the positions in I.
InKeyOrder(S) ==
  [k \in 1..Cardinality(S) |-> CHOOSE v \in S : Cardinality({w \in S : w <= v}) = k]
Picked(s, I) == [k \in 1..Cardinality(I) |-> s[InKeyOrder(I)[k]]]

NoPlane == [is |-> FALSE, id |-> None, size |-> 0, support |-> <<>>]
EmptyNode == [pts |-> <<>>, new |-> 0, init |-> FALSE, open |-> TRUE, plane |-> NoPlane]

Flat(pts) ==
  Len(pts) >= FewestPoints /\ \A i \in DOMAIN pts : pts[i].surf = pts[1].surf

\* init_plane: a plane keeps the id of its first successful fit
Fitted(plane, pts, id) ==
  IF Flat(pts)
  THEN [is |-> TRUE, id |-> IF plane.id = None THEN id ELSE plane.id,
        size |-> Len(pts), support |-> pts]
  ELSE [plane EXCEPT !.is = FALSE, !.size = Len(pts), !.support = <<>>]

-----------------------------------------------------------------------------
(* init_octo_tree and cut_octo_tree for the points of node r: the nodes they *)
(* allocate, and what each of them then is.                                  *)

Within(pts, q) == Picked(pts, {i \in DOMAIN pts : IsPrefix(q, pts[i].cell)})
Enough(pts, q) == Len(Within(pts, q)) > Threshold
Splits(pts, q) == Enough(pts, q) /\ ~Flat(Within(pts, q)) /\ Len(q) < MaxLayer

Grown(pts, r) ==
  {q \in UNION {Prefixes(pts[i].cell) : i \in DOMAIN pts} :
     /\ IsPrefix(r, q) /\ Len(q) <= MaxLayer
     /\ \A s \in Prefixes(q) \ {q} : IsPrefix(r, s) => Splits(pts, s)}

NewPlanes(pts, r) == {q \in Grown(pts, r) : Enough(pts, q) /\ Flat(Within(pts, q))}

\* the order in which the leaves are fitted
Before(a, b) ==
  \E i \in DOMAIN a \cap DOMAIN b : a[i] < b[i] /\ \A j \in 1..(i - 1) : a[j] = b[j]

NodeOf(pts, r, q, next) ==
  LET own   == Within(pts, q)
      id    == next + Cardinality({s \in NewPlanes(pts, r) : Before(s, q)})
      plane == Fitted(NoPlane, own, id)
      full  == plane.is /\ Len(own) > MaxPoints
  IN  IF Enough(pts, q)
      THEN [pts |-> IF full THEN <<>> ELSE own, new |-> 0, init |-> TRUE,
            open |-> ~full, plane |-> plane]
      ELSE [EmptyNode EXCEPT !.pts = own, !.new = Len(own)]

\* the tree and the plane id counter afterwards; a node's own points stay with
\* it when they are handed down
InitTree(tree, r, next) ==
  LET pts   == tree[r].pts
      grown == Grown(pts, r)
  IN  IF Len(pts) <= Threshold THEN [tree |-> tree, next |-> next]
      ELSE [tree |-> [q \in grown \cup DOMAIN tree |->
                        IF q \in grown THEN NodeOf(pts, r, q, next) ELSE tree[q]],
            next |-> next + Cardinality(NewPlanes(pts, r))]

-----------------------------------------------------------------------------
(* UpdateOctoTree: one more point *)

\* the node that takes the point: the first on its way down that is not there
\* yet, not initialized, a plane, or on the last layer
Takes(tree, q) ==
  q \notin DOMAIN tree \/ ~tree[q].init \/ tree[q].plane.is \/ Len(q) = MaxLayer
Target(tree, cell) ==
  CHOOSE q \in Prefixes(cell) :
    Takes(tree, q) /\ \A s \in Prefixes(q) \ {q} : ~Takes(tree, s)

\* push_back
Pushed(node, p) == [node EXCEPT !.pts = Append(@, p), !.new = @ + 1]

Put(tree, q, node) == [s \in DOMAIN tree \cup {q} |-> IF s = q THEN node ELSE tree[s]]

Refitted(node, next) ==
  IF node.new > UpdateSize
  THEN [node EXCEPT !.plane = Fitted(@, node.pts, next), !.new = 0]
  ELSE node

Closed(node, limit) ==
  IF Len(node.pts) >= limit
  THEN [node EXCEPT !.open = FALSE, !.pts = <<>>, !.new = 0] ELSE node

\* Mutant: a plane takes the point and hands it down as well.
UpdateTreeTwice(tree, p, next) ==
  LET q   == Target(tree, p.cell)
      low == SubSeq(p.cell, 1, Len(q) + 1)
      add == Pushed(EmptyNode, p)
  IN  [tree |-> Put(IF q \in DOMAIN tree THEN tree ELSE Put(tree, q, add), low, add),
       next |-> next]

UpdateTree(tree, p, next) ==
  LET q     == Target(tree, p.cell)
      old   == IF q \in DOMAIN tree THEN tree[q] ELSE EmptyNode
      fit   == Refitted(Pushed(old, p), next)
      limit == IF old.plane.is THEN MaxPoints ELSE MaxPoints + 1
  IN  CASE ~old.init -> InitTree(Put(tree, q, Pushed(old, p)), q, next)
        [] old.init /\ ~old.open -> [tree |-> tree, next |-> next]
        [] old.init /\ old.open ->
             [tree |-> Put(tree, q, Closed(fit, limit)),
              next |-> IF fit.plane.id = old.plane.id THEN next ELSE next + 1]

-----------------------------------------------------------------------------
(* build_single_residual: the planes a point can be measured against *)

\* p4bQueryPlane: without the points of the excluded frames, if enough are left
Query(plane, recent) ==
  LET old == Picked(plane.support, {i \in DOMAIN plane.support : plane.support[i].at \notin recent})
  IN  IF ~plane.is \/ recent = {} THEN plane
      ELSE IF Len(old) > Threshold /\ Flat(old)
           THEN [plane EXCEPT !.size = Len(old), !.support = old]
           ELSE NoPlane

\* a plane hides what is below it
Facing(tree, recent) ==
  {q \in DOMAIN tree :
     /\ Query(tree[q].plane, recent).is
     /\ \A s \in (Prefixes(q) \ {q}) \cap DOMAIN tree : ~Query(tree[s].plane, recent).is}

\* which of several planes is the most probable is left to the numbers, which
\* are the same wherever the planes are
FirstOf(tree, on) ==
  IF on = {} THEN None
  ELSE tree[CHOOSE q \in on : \A s \in on \ {q} : Before(q, s)].plane.id
MatchIn(tree, p, recent) ==
  FirstOf(tree, {q \in Facing(tree, recent) :
                   Query(tree[q].plane, recent).support[1].surf = p.surf})

-----------------------------------------------------------------------------

\* A plane has no leaves, a closed node keeps no points and takes no more, and
\* a node that was not initialized has too few points to be.
TreeCoherent(tree) ==
  \A q \in DOMAIN tree :
    /\ q # <<>> => Front(q) \in DOMAIN tree
    /\ tree[q].plane.is => \A s \in DOMAIN tree : IsPrefix(q, s) => s = q
    /\ ~tree[q].open => tree[q].pts = <<>> /\ tree[q].init
    /\ ~tree[q].init => Len(tree[q].pts) <= Threshold

PlaneIds(tree) == {tree[q].plane.id : q \in DOMAIN tree} \ {None}
OwnIds(tree) ==
  \A q, s \in DOMAIN tree :
    tree[q].plane.id = tree[s].plane.id => q = s \/ tree[q].plane.id = None
=============================================================================
