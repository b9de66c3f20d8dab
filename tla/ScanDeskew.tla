----------------------------- MODULE ScanDeskew ------------------------------
(* A scan on its way into the estimator.  Preprocess reads a LiDAR message    *)
(* point by point and gives each point a time after the begin of the scan,    *)
(* the last point ends the scan (sync_packages), and UndistortPcl walks the   *)
(* points and the poses of the IMU propagation backwards together and moves   *)
(* each point by the pose it belongs to.                                      *)
(*                                                                            *)
(* Times are integers.  What a point is besides its time is whether its line  *)
(* is one of the N_SCANS configured, and whether its values are usable:       *)
(* finite and not closer than blind, for XYZIRT with a time that is not       *)
(* negative.  The feature extraction, off in every shipped file, and the      *)
(* times that VELO16 makes up from the azimuth are left out.                  *)
EXTENDS Integers, Sequences, FiniteSets

CONSTANTS
  LidarTypes,    \* the handlers that may be configured
  Messages,      \* what a LiDAR may send
  Histories,     \* offsets at which poses may have been saved in IMUpose
  Filter,        \* point_filter_num
  JumpTime,      \* a step of 1 ms, which avia_handler takes for a fault
  RepairTime     \* 0.004166667 ms, the step it puts in its place

RawPoint == [t : Nat, line : BOOLEAN, good : BOOLEAN]

\* process: the handlers without times, with times as they come, those that
\* count the time from the first point; and those that sort what they read
Timeless  == {"L515"}
Given     == {"OUST64", "VELO16", "XYZIRT"}
FromFirst == {"PANDAR128", "ROBOSENSE", "XT32"}
AllTypes  == {"AVIA"} \cup Timeless \cup Given \cup FromFirst
Sorting   == {"OUST64", "PANDAR128", "ROBOSENSE", "XYZIRT"}

Ascending(s) == \A i, j \in DOMAIN s : i <= j => s[i] <= s[j]

ASSUME DeskewAssumption ==
  /\ LidarTypes \subseteq AllTypes
  /\ Messages \subseteq Seq(RawPoint) \ {<<>>}
  /\ \A h \in Histories : h \in Seq(Int) \ {<<>>} /\ Ascending(h)
  /\ Filter \in Nat \ {0}
  /\ JumpTime \in Nat /\ RepairTime \in 0..JumpTime

VARIABLES
  stage,      \* "idle", "read", "cut", "walk" or "done"
  lidar_type,
  msg,
  reading,    \* points read, valid_num, the time of the point read last
  cloud,      \* pl_surf, then pcl_wait_proc: the times of the points
  poses,      \* IMUpose: the offsets of the poses
  walk,       \* UndistortPcl: head and it_pcl, both as indices
  moved       \* for each point the pose that moved it, 0 for none

deskewVars == <<stage, lidar_type, msg, reading, cloud, poses, walk, moved>>

NoReading == [n |-> 0, valid |-> 0, last |-> 0]
NoWalk == [head |-> 0, point |-> 0]

DeskewInit ==
  /\ stage = "idle" /\ lidar_type \in LidarTypes
  /\ msg = <<>> /\ reading = NoReading /\ cloud = <<>>
  /\ poses = <<>> /\ walk = NoWalk /\ moved = <<>>
-----------------------------------------------------------------------------
(* Preprocess: pl_surf is cleared and filled                                *)

Receive(m) ==
  /\ stage = "idle" /\ stage' = "read"
  /\ msg' = m /\ reading' = NoReading /\ cloud' = <<>>
  /\ UNCHANGED <<lidar_type, poses, walk, moved>>

Unread == stage = "read" /\ reading.n < Len(msg)
Point  == msg[reading.n + 1]

Apart(a, b) == IF a < b THEN b - a ELSE a - b

\* avia_handler: a time far from that of the point before is replaced
Repaired ==
  IF Apart(Point.t, reading.last) < JumpTime THEN Point.t
  ELSE IF reading.n = 0 THEN 0 ELSE reading.last + RepairTime

\* a point of a line left out keeps pl_full's zero as its time
ReadAvia ==
  /\ Unread /\ lidar_type = "AVIA"
  /\ LET valid == reading.valid + 1
     IN  IF Point.line
         THEN /\ reading' = [n |-> reading.n + 1, valid |-> valid, last |-> Repaired]
              /\ cloud' = IF valid % Filter = 0 /\ Point.good
                          THEN Append(cloud, Repaired) ELSE cloud
         ELSE /\ reading' = [n |-> reading.n + 1, valid |-> reading.valid, last |-> 0]
              /\ UNCHANGED cloud
  /\ UNCHANGED <<stage, lidar_type, msg, poses, walk, moved>>

PointTime ==
  IF lidar_type \in Timeless THEN 0
  ELSE IF lidar_type \in FromFirst THEN Point.t - msg[1].t ELSE Point.t

ReadOther ==
  /\ Unread /\ lidar_type # "AVIA"
  /\ reading' = [n |-> reading.n + 1, valid |-> reading.valid, last |-> PointTime]
  /\ cloud' = IF reading.n % Filter = 0 /\ Point.good
              THEN Append(cloud, PointTime) ELSE cloud
  /\ UNCHANGED <<stage, lidar_type, msg, poses, walk, moved>>

Among(s) == {s[i] : i \in DOMAIN s}
Times(s, t) == Cardinality({i \in DOMAIN s : s[i] = t})

\* std::sort
SortedForm(s) ==
  {c \in [DOMAIN s -> Among(s)] : Ascending(c) /\ \A t \in Among(s) : Times(c, t) = Times(s, t)}

Handled ==
  /\ stage = "read" /\ reading.n = Len(msg)
  /\ stage' = "cut"
  /\ cloud' \in IF lidar_type \in Sorting THEN SortedForm(cloud) ELSE {cloud}
  /\ UNCHANGED <<lidar_type, msg, reading, poses, walk, moved>>
-----------------------------------------------------------------------------
(* sync_packages and UndistortPcl                                           *)

\* sync_packages never takes such a scan; LivoFrontend says what follows
TooShort ==
  /\ stage = "cut" /\ Len(cloud) <= 1
  /\ stage' = "idle"
  /\ UNCHANGED <<lidar_type, msg, reading, cloud, poses, walk, moved>>

\* The poses saved since the scan began, by the propagation to its images and
\* to its end, the time of its last point; none is later than that.
Propagate(h) ==
  /\ stage = "cut" /\ Len(cloud) > 1
  /\ h[Len(h)] <= cloud[Len(cloud)]
  /\ stage' = "walk" /\ poses' = h
  /\ walk' = [head |-> Len(h), point |-> Len(cloud)]
  /\ moved' = [i \in DOMAIN cloud |-> 0]
  /\ UNCHANGED <<lidar_type, msg, reading, cloud>>

Walking == stage = "walk" /\ walk.head > 0
Here == cloud[walk.point]

\* the inner loop ends: the point is before this pose
NextPose ==
  /\ Walking /\ Here < poses[walk.head]
  /\ walk' = [walk EXCEPT !.head = @ - 1]
  /\ UNCHANGED <<stage, lidar_type, msg, reading, cloud, poses, moved>>

\* Point zero cannot be passed: both loops end there.
\* Mutant: at point zero only the inner loop ends.
PassedInner ==
  IF walk.point > 1 THEN walk' = [walk EXCEPT !.point = @ - 1] /\ UNCHANGED stage
  ELSE walk' = [walk EXCEPT !.head = @ - 1] /\ UNCHANGED stage
Passed ==
  IF walk.point > 1 THEN walk' = [walk EXCEPT !.point = @ - 1] /\ UNCHANGED stage
  ELSE stage' = "done" /\ UNCHANGED walk

\* a point beyond the last pose is not extrapolated
BeyondHistory ==
  /\ Walking /\ Here >= poses[walk.head] /\ Here > poses[Len(poses)]
  /\ Passed
  /\ UNCHANGED <<lidar_type, msg, reading, cloud, poses, moved>>

Compensate ==
  /\ Walking /\ Here >= poses[walk.head] /\ Here <= poses[Len(poses)]
  /\ moved' = [moved EXCEPT ![walk.point] = walk.head]
  /\ Passed
  /\ UNCHANGED <<lidar_type, msg, reading, cloud, poses>>

\* points before the first pose stay as they are
HistoryExhausted ==
  /\ stage = "walk" /\ walk.head = 0
  /\ stage' = "done"
  /\ UNCHANGED <<lidar_type, msg, reading, cloud, poses, walk, moved>>

\* pcl_out is handed over, pcl_wait_proc and IMUpose are cleared
Publish ==
  /\ stage = "done" /\ stage' = "idle"
  /\ cloud' = <<>> /\ poses' = <<>> /\ walk' = NoWalk /\ moved' = <<>>
  /\ UNCHANGED <<lidar_type, msg, reading>>

DeskewNext ==
  \/ \E m \in Messages : Receive(m)
  \/ ReadAvia \/ ReadOther \/ Handled \/ TooShort
  \/ \E h \in Histories : Propagate(h)
  \/ NextPose \/ BeyondHistory \/ Compensate \/ HistoryExhausted \/ Publish

DeskewSpec == DeskewInit /\ [][DeskewNext]_deskewVars
-----------------------------------------------------------------------------
\* a message whose times do not go back and whose lines are all configured
Orderly(m) ==
  /\ \A i \in DOMAIN m : m[i].line
  /\ \A i, j \in DOMAIN m : i <= j => m[i].t <= m[j].t

\* within the poses that were saved
Covered(i) == poses[1] <= cloud[i] /\ cloud[i] <= poses[Len(poses)]

\* "Monotone point traversal needs no per-point ownership container. Include
\* the last node; exact timestamps use the last saved node at that time"
\* (UndistortPcl): if the handler sorts or the message is orderly, whatever
\* avia_handler repaired, the one walk moves each point that the history covers
\* by the last pose not after it, and no other point.
DeskewExact ==
  stage = "done" /\ (lidar_type \in Sorting \/ Orderly(msg)) =>
    \A i \in DOMAIN cloud :
      IF Covered(i)
      THEN /\ moved[i] \in DOMAIN poses /\ poses[moved[i]] <= cloud[i]
           /\ \A j \in DOMAIN poses : j > moved[i] => cloud[i] < poses[j]
      ELSE moved[i] = 0
=============================================================================
