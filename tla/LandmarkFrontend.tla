-------------------------- MODULE LandmarkFrontend --------------------------
(* landmark_frontend.cpp and landmark_legacy_adapter.cpp: what one image    *)
(* says about the landmark boards.  A PnP candidate is the outcome of its   *)
(* tests; errors are small numbers in the unit of the thresholds.           *)
EXTENDS Integers, Sequences, FiniteSets

CONSTANTS
  Boards,     \* configured landmark ids
  MarkersOf,  \* the markers printed on each board (unique_child_ids)
  MaxRmse,    \* max_reprojection_rmse_px
  Rmses       \* bound: the reprojection errors a pose can have

\* configure: no board without markers, no marker on two boards
ASSUME BoardsAssumption ==
  /\ Boards \subseteq Nat /\ IsFiniteSet(Boards) /\ MaxRmse \in Nat /\ Rmses \subseteq Nat
  /\ MarkersOf \in [Boards -> SUBSET Nat]
  /\ \A b \in Boards : MarkersOf[b] # {}
  /\ \A a, b \in Boards : a # b => MarkersOf[a] \cap MarkersOf[b] = {}

Unseen(b) == [board |-> b, markers |-> 0, pnp |-> FALSE, rmse |-> 0,
              pose |-> FALSE, cov |-> "none"]

-----------------------------------------------------------------------------
(* LandmarkFrontend::estimate, one board *)

\* Detections come sorted by marker.  One that is doubled, or lacks its four
\* corners, refuses the board: which of two is the printed one is not guessed.
Associated(D) ==
  \A i \in DOMAIN D : D[i].corners /\ \A j \in 1..(i - 1) : D[j].marker # D[i].marker

Candidates == [se3 : {TRUE}, depth : BOOLEAN, facing : BOOLEAN, near : BOOLEAN, rmse : Rmses]

Sane(c) == c.near /\ c.rmse <= MaxRmse

One(test) == IF test THEN 1 ELSE 0

\* validityRank
Rank(c) == 24 * One(c.se3) + 4 * One(c.depth) + 2 * One(c.facing) + One(Sane(c))

\* the index of the best candidate: by rank, then error, then order
Best(cs) ==
  CHOOSE i \in DOMAIN cs : \A j \in DOMAIN cs \ {i} :
    \/ Rank(cs[i]) > Rank(cs[j])
    \/ /\ Rank(cs[i]) = Rank(cs[j])
       /\ cs[i].rmse < cs[j].rmse \/ (cs[i].rmse = cs[j].rmse /\ i < j)

\* pose_valid; the covariance falls back to a bounded heuristic
Estimated(b, D, cs, numerical) ==
  IF D = <<>> \/ ~Associated(D) \/ cs = <<>> THEN [Unseen(b) EXCEPT !.markers = Len(D)]
  ELSE LET best == cs[Best(cs)]
           ok   == best.se3 /\ best.depth /\ best.facing /\ Sane(best)
       IN  [board |-> b, markers |-> Len(D), pnp |-> TRUE, rmse |-> best.rmse, pose |-> ok,
            cov |-> IF ~ok THEN "none" ELSE IF numerical THEN "numerical" ELSE "bounded"]

SeqsUpTo(S, n) == UNION {[1..k -> S] : k \in 0..n}

\* estimate for every board in view, in the order of the ids
BoardViews ==
  [b \in Boards |->
    {Estimated(b, D, cs, numerical) :
       D \in SeqsUpTo([marker : MarkersOf[b], corners : BOOLEAN], 2) \ {<<>>},
       cs \in SeqsUpTo(Candidates, 2), numerical \in BOOLEAN}]

-----------------------------------------------------------------------------
(* LegacySameIdBoardAdapter::estimate: four markers of one id.  Which of    *)
(* them a detection is, is found out by trying every assignment.            *)

\* the first assignment with the smallest error among those in I
Least(rs, I) ==
  CHOOSE i \in I : \A j \in I \ {i} :
    rs[i].rmse < rs[j].rmse \/ (rs[i].rmse = rs[j].rmse /\ i < j)

\* The valid assignment with the smallest error, else any; it is admitted only
\* if no other assignment fits nearly as well.
LegacyEstimated(b, n, rs) ==
  LET valid  == {i \in DOMAIN rs : rs[i].pose}
      chosen == Least(rs, IF valid # {} THEN valid ELSE DOMAIN rs)
      rivals == {rs[j].rmse : j \in DOMAIN rs \ {chosen}}
      best   == rs[chosen].rmse
      clear  == /\ rivals # {}
                /\ \A r \in rivals :
                     IF n = 3 THEN r - best >= 3 /\ r >= 2 * best
                     ELSE r - best >= 1 /\ 2 * r >= 3 * best
  IN  IF n > 4 \/ rs = <<>> THEN [Unseen(b) EXCEPT !.markers = n]
      ELSE [rs[chosen] EXCEPT !.board = b, !.markers = n,
                              !.pose = n >= 3 /\ valid # {} /\ clear]

\* what the frontend says of one assignment, the feasible ones only
AssignmentViews ==
  {[board |-> 0, markers |-> 0, pnp |-> TRUE, rmse |-> r, pose |-> ok,
    cov |-> IF ok THEN "numerical" ELSE "none"] : r \in Rmses, ok \in BOOLEAN}

LegacyViews ==
  [b \in Boards |->
    {LegacyEstimated(b, n, rs) : n \in 1..5, rs \in SeqsUpTo(AssignmentViews, 3)}]

-----------------------------------------------------------------------------
Views(legacy) == IF legacy THEN LegacyViews ELSE BoardViews

\* what routeLandmarkObservations passes on to the backend
Usable(view) == view.pose /\ view.cov # "none"

\* detect_qr: the boards of an image that can be passed on, by id
Sightings(legacy) ==
  LET usable == {b \in Boards : \E v \in Views(legacy)[b] : Usable(v)}
  IN  {s \in SeqsUpTo(usable, Cardinality(usable)) :
         \A i, j \in DOMAIN s : i < j => s[i] < s[j]}
=============================================================================
