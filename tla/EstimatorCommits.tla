-------------------------- MODULE EstimatorCommits --------------------------
(***************************************************************************)
(* What the estimator promises to everything downstream of it: a           *)
(* persistent core that only commits move, state and IMU propagation       *)
(* together and forward in time, and an odometry stream that shows nothing *)
(* but committed cores, each at most once.                                 *)
(***************************************************************************)
EXTENDS Integers

VARIABLES
  ready,   \* the IMU is initialized
  state,   \* the time of the persistent state
  imu,     \* the time of the persistent IMU propagation
  odom,    \* the stamp of the last published pose, -1 before the first
  grant    \* given by the environment: a scan was completed, or an update accepted

vars == <<ready, state, imu, odom>>

Init == ready = FALSE /\ state = 0 /\ imu = 0 /\ odom = -1

\* The initialization anchors both at one IMU sample.
Start == ~ready /\ ready' /\ imu' = state' /\ odom' = odom

\* A granted commit moves both to one event time, and may publish it.
Commit ==
  /\ ready /\ ready' /\ grant
  /\ state' >= state /\ imu' = state'
  /\ odom' = odom \/ (odom' = state' /\ odom' > odom)

Spec == Init /\ [][Start \/ Commit]_vars
=============================================================================
