------------------------------ MODULE P4Snapshot ------------------------------
(* The snapshot of p4_fork_snapshot.cpp: what is captured of a map, what is  *)
(* restored, and the file in between, a sequence of fields that the reader   *)
(* takes in the order in which the writer wrote them.  Numbers are a field   *)
(* each; the fields that no operation of the model reads are left out.       *)
EXTENDS VoxelMap

-----------------------------------------------------------------------------
(* captureSnapshot, restoreSnapshot *)

\* the voxels of a map as a list in key order
Listed(local) ==
  LET order == InKeyOrder(DOMAIN local)
  IN  [i \in DOMAIN order |-> <<order[i], local[order[i]]>>]
Unlisted(list) ==
  [v \in {list[i][1] : i \in DOMAIN list} |->
     list[CHOOSE i \in DOMAIN list : list[i][1] = v][2]]

CaptureMap(m, next) ==
  [local |-> Listed(m.local), far |-> Listed(m.far),
   observed |-> InKeyOrder(m.observed), frame |-> m.frame,
   frames |-> m.frames, at |-> m.at, slid |-> m.slid, next |-> next]

RestoreMap(s) ==
  [local |-> Unlisted(s.local), far |-> Unlisted(s.far),
   observed |-> ToSet(s.observed), frame |-> s.frame,
   frames |-> s.frames, at |-> s.at, slid |-> s.slid]

\* ImuProcess: the time its propagation has reached
CaptureImu(est) == est.upto

-----------------------------------------------------------------------------
(* writePlane to writeLifecycle, and their readers *)

WrittenPoints(pts) == [i \in DOMAIN pts |-> <<pts[i].cell, pts[i].surf, pts[i].at>>]
ReadPoints(b) == [i \in DOMAIN b |-> [cell |-> b[i][1], surf |-> b[i][2], at |-> b[i][3]]]

WrittenPlane(p) == <<p.size, p.is, p.id, WrittenPoints(p.support)>>
ReadPlane(b) == [size |-> b[1], is |-> b[2], id |-> b[3], support |-> ReadPoints(b[4])]

WrittenNode(n) == <<WrittenPoints(n.pts), WrittenPlane(n.plane), n.new, n.init, n.open>>
ReadNode(b) ==
  [pts |-> ReadPoints(b[1]), plane |-> ReadPlane(b[2]), new |-> b[3], init |-> b[4], open |-> b[5]]

WrittenEntries(list) ==
  [i \in DOMAIN list |->
     <<list[i][1], [q \in DOMAIN list[i][2] |-> WrittenNode(list[i][2][q])]>>]
ReadEntries(b) ==
  [i \in DOMAIN b |-> <<b[i][1], [q \in DOMAIN b[i][2] |-> ReadNode(b[i][2][q])]>>]

WrittenMap(m) ==
  <<WrittenEntries(m.local), WrittenEntries(m.far), m.observed, m.frame,
    m.at, m.slid, m.next, m.frames>>
ReadMap(b) ==
  [local |-> ReadEntries(b[1]), far |-> ReadEntries(b[2]), observed |-> b[3],
   frame |-> b[4], at |-> b[5], slid |-> b[6], next |-> b[7], frames |-> b[8]]

WrittenState(s) == <<s.place, s.ticks, s.lio, s.vio>>
ReadState(b) == [place |-> b[1], ticks |-> b[2], lio |-> b[3], vio |-> b[4]]

\* of the lifecycle whether the map is built and how many scans were counted
\* for its updates
WrittenImu(s) == <<s.upto>>
WrittenLifecycle(l) == <<l.built, l.due>>
ReadLifecycle(b) == [built |-> b[1], due |-> b[2]]

-----------------------------------------------------------------------------
(* encode, decode, logicalHashes *)

Magic == "FAST_LIVO2_P4B_SNAPSHOT"
Version == 2
Size == 18

Encoded(s) ==
  <<Magic, Version, s.t>> \o WrittenState(s.state) \o WrittenImu(s)
    \o WrittenMap(s.map) \o WrittenLifecycle(s.life)

\* a file that ends early, or goes on, does not decode
Decodes(bytes) == Len(bytes) = Size /\ bytes[1] = Magic /\ bytes[2] = Version
Decoded(bytes) ==
  [t |-> bytes[3], state |-> ReadState(SubSeq(bytes, 4, 7)), upto |-> bytes[8],
   map |-> ReadMap(SubSeq(bytes, 9, 16)), life |-> ReadLifecycle(SubSeq(bytes, 17, 18))]

\* equal iff everything written is
Hashes(s) ==
  [state |-> WrittenState(s.state), imu |-> WrittenImu(s), map |-> WrittenMap(s.map),
   life |-> <<s.t, WrittenLifecycle(s.life)>>, full |-> Encoded(s)]

\* what saveSnapshot leaves in the file: it looks for errors before the last
\* bytes are flushed, so less may be there than it was given
Saved(s) == {SubSeq(Encoded(s), 1, n) : n \in 0..Size}
=============================================================================
