---------------------------- MODULE CameraExport ----------------------------
(***************************************************************************)
(* camera_aligned_neu_logger.cpp: the node that writes one row per camera  *)
(* image, the camera's pose in the map at the image's stamp.  It joins     *)
(* three streams it receives on topics of their own, each in its order but *)
(* in any order among them: the images, the raw odometry of the front end  *)
(* and the map_to_odom corrections of the fixed-lag backend.  Both send    *)
(* increasing stamps (EstimatorCommits; last_tf_stamp_ns_ of the backend), *)
(* while images may come late or out of order.  A pose is its stamp.       *)
(***************************************************************************)
EXTENDS Integers, Sequences, FiniteSets, FiniteSetsExt

CONSTANTS
  MaxSpan,      \* camera_aligned_neu/max_raw_interp_gap_s
  BufferSpan,   \* camera_aligned_neu/buffer_seconds
  RawTicks,     \* the stamps raw odometry can have
  CorrTicks,    \* the stamps a correction can have
  ImageTicks,   \* the stamps an image can have
  MaxImages     \* bound: how many images arrive

ASSUME ExportAssumption ==
  /\ MaxSpan \in Nat \ {0} /\ BufferSpan \in Nat /\ BufferSpan > MaxSpan
  /\ RawTicks \subseteq Nat /\ CorrTicks \subseteq Nat /\ ImageTicks \subseteq Nat
  /\ IsFiniteSet(RawTicks) /\ IsFiniteSet(CorrTicks) /\ IsFiniteSet(ImageTicks)
  /\ MaxImages \in Nat

VARIABLES
  pending_camera_stamps,  \* images without a row, by stamp
  raw_poses,              \* the raw odometry kept
  map_to_odom_poses,      \* the corrections kept
  backend_status,                 \* backend_status_seen_ and backend_alignment_ready_
  rows,                   \* the rows written so far
  stopped,                \* the destructor has run
  heard                   \* history: every pose received, [raw, corr]

exportVars == <<pending_camera_stamps, raw_poses, map_to_odom_poses, backend_status, rows,
                stopped, heard>>
-----------------------------------------------------------------------------
(* What is kept of a stream, and what it says of an image                  *)

\* Mutant: forgets the last pose before the window as well.
PrunedAtCutoff(poses) == {p \in poses : p >= Max(poses) - BufferSpan}

\* insertOrReplace's result, pruned: the poses of the window and the last one before it.
Pruned(poses) ==
  {p \in poses : ~\E q \in poses : p < q /\ q < Max(poses) - BufferSpan}

UpTo(poses, s)   == {p \in poses : p <= s}
NotBefore(poses, s) == {p \in poses : p >= s}

InvalidRow(s) == [stamp |-> s, valid |-> FALSE]
ValidRow(s, before, after, correction) ==
  [stamp |-> s, valid |-> TRUE, before |-> before, after |-> after, corr |-> correction]

\* latestCausalPose
LatestCausal(corr, s) == Max(UpTo(corr, s))

\* The row of an image once it is decided: no correction yet, one too old, a
\* hole in the raw odometry, or the pose.
RowOf(s, raw, corr) ==
  LET aligned   == UpTo(corr, s) # {}
      bracketed == UpTo(raw, s) # {} /\ NotBefore(raw, s) # {}
      before    == Max(UpTo(raw, s))
      after     == Min(NotBefore(raw, s))
  IN IF aligned /\ bracketed /\ after - before <= MaxSpan
     THEN ValidRow(s, before, after, LatestCausal(corr, s))
     ELSE InvalidRow(s)

\* Mutant: an image waits for raw odometry after it even when the kept corrections
\* all lie after it, and the images behind it wait as well.
DecidedByRaw(s, raw, corr, ready) ==
  IF corr = {} THEN ready = "unaligned" ELSE NotBefore(raw, s) # {}

\* drainPending writes an image's row now, unless more raw odometry may still
\* bracket it or the backend has said nothing yet.
Decided(s, raw, corr, ready) ==
  IF corr = {} THEN ready = "unaligned"
  ELSE UpTo(corr, s) = {} \/ NotBefore(raw, s) # {}

\* drainPending: rows are written from the front up to the first image that waits.
Drain(images, raw, corr, ready, force) ==
  LET first == {i \in DOMAIN images : ~force /\ ~Decided(images[i], raw, corr, ready)}
      n     == IF first = {} THEN Len(images) ELSE Min(first) - 1
      Row(s) == RowOf(s, raw, corr)
  IN /\ rows' = rows \o [i \in 1..n |-> Row(images[i])]
     /\ pending_camera_stamps' = SubSeq(images, n + 1, Len(images))
-----------------------------------------------------------------------------
(* Callbacks: each ends in a drain, all under one mutex                    *)

ExportInit ==
  /\ pending_camera_stamps = <<>> /\ rows = <<>>
  /\ raw_poses = {} /\ map_to_odom_poses = {}
  /\ backend_status = "unseen" /\ stopped = FALSE
  /\ heard = [raw |-> {}, corr |-> {}]

Images == Len(rows) + Len(pending_camera_stamps)

\* upper_bound and insert: behind the images of its stamp or older.
Placed(images, s) ==
  LET n == Cardinality({i \in DOMAIN images : images[i] <= s})
  IN SubSeq(images, 1, n) \o <<s>> \o SubSeq(images, n + 1, Len(images))

\* imageCallback
ImageCallback(s) ==
  /\ ~stopped /\ Images < MaxImages
  /\ Drain(Placed(pending_camera_stamps, s), raw_poses, map_to_odom_poses, backend_status, FALSE)
  /\ UNCHANGED <<raw_poses, map_to_odom_poses, backend_status, stopped, heard>>

\* rawOdomCallback
RawOdomCallback(t) ==
  /\ ~stopped /\ \A p \in heard.raw : p < t
  /\ raw_poses' = Pruned(raw_poses \union {t})
  /\ heard' = [heard EXCEPT !.raw = @ \union {t}]
  /\ Drain(pending_camera_stamps, raw_poses', map_to_odom_poses, backend_status, FALSE)
  /\ UNCHANGED <<map_to_odom_poses, backend_status, stopped>>

\* mapToOdomCallback
MapToOdomCallback(t) ==
  /\ ~stopped /\ \A p \in heard.corr : p < t
  /\ map_to_odom_poses' = Pruned(map_to_odom_poses \union {t})
  /\ heard' = [heard EXCEPT !.corr = @ \union {t}]
  /\ Drain(pending_camera_stamps, raw_poses, map_to_odom_poses', backend_status, FALSE)
  /\ UNCHANGED <<raw_poses, backend_status, stopped>>

\* statusCallback: the backend says whether its frames are aligned.
StatusCallback(ready) ==
  /\ ~stopped /\ backend_status' = ready /\ backend_status' # backend_status
  /\ Drain(pending_camera_stamps, raw_poses, map_to_odom_poses, ready, FALSE)
  /\ UNCHANGED <<raw_poses, map_to_odom_poses, stopped, heard>>

\* ~CameraAlignedNeuLogger: the images that still wait get a row as well.
StopExport ==
  /\ ~stopped /\ stopped' = TRUE
  /\ Drain(pending_camera_stamps, raw_poses, map_to_odom_poses, backend_status, TRUE)
  /\ UNCHANGED <<raw_poses, map_to_odom_poses, backend_status, heard>>

ExportNext ==
  \/ \E s \in ImageTicks : ImageCallback(s)
  \/ \E t \in RawTicks : RawOdomCallback(t)
  \/ \E t \in CorrTicks : MapToOdomCallback(t)
  \/ \E ready \in {"unaligned", "aligned"} : StatusCallback(ready)
  \/ StopExport

ExportSpec == ExportInit /\ [][ExportNext]_exportVars
-----------------------------------------------------------------------------
\* What was received brackets the image closely enough and corrects it.
Exportable(s, got) ==
  /\ \E b \in UpTo(got.raw, s), a \in NotBefore(got.raw, s) : a - b <= MaxSpan
  /\ \E c \in got.corr : c <= s

\* An image older than what the buffers promise to keep.
Late(s, got) ==
  \/ \E p \in got.raw  : s < p - BufferSpan
  \/ \E p \in got.corr : s < p - BufferSpan

\* A row is what all that was received says of its image, whatever the order of
\* the four topics and whatever was pruned: a valid row stands between the two
\* raw poses nearest to it and uses the latest correction that is not of its
\* future; an image that could have been exported loses its row's pose only when
\* it came later than the buffer reaches back.
RowTrue(r, got) ==
  IF r.valid
  THEN /\ {r.before, r.after} \subseteq got.raw /\ r.corr \in got.corr
       /\ r.before <= r.stamp /\ r.stamp <= r.after /\ r.after - r.before <= MaxSpan
       /\ ~\E p \in got.raw : r.before < p /\ p < r.after
       /\ r.corr <= r.stamp /\ ~\E c \in got.corr : r.corr < c /\ c <= r.stamp
  ELSE Late(r.stamp, got) \/ ~Exportable(r.stamp, got)

\* An image waits only for what may still decide it: the backend's first word,
\* or raw odometry from its stamp on.
StillOpen(s, got, word) ==
  IF got.corr = {} THEN word # "unaligned"
  ELSE /\ \E c \in got.corr : c <= s
       /\ \A p \in got.raw : p < s

\* Rows are written true, and never later than they could be.
RowsTrueAndPrompt ==
  [][/\ \A i \in DOMAIN rows' \ DOMAIN rows : RowTrue(rows'[i], heard')
     /\ \A i \in DOMAIN pending_camera_stamps' : StillOpen(pending_camera_stamps'[i], heard', backend_status')]_exportVars
=============================================================================
