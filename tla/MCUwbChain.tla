------------------------------ MODULE MCUwbChain ------------------------------
(* A small instance of UwbChain: three setups of the serial node, a         *)
(* recording with a debug line, a repeat, an unusable and an unsorted one.  *)
EXTENDS UwbChain

MCSetups ==
  {[parser |-> "distance_round5", time |-> "livox_imu_anchor", policy |-> "first_nonzero"],
   [parser |-> "distance_round5", time |-> "host_local", policy |-> "first_distance_line"],
   [parser |-> "distance", time |-> "host_local", policy |-> "first_nonzero"]}

Line(stamp, anchor, value, format, diag) ==
  [stamp |-> stamp, anchor |-> anchor, value |-> value, format |-> format, diag |-> diag]

MCLines == [debug |-> 2, distance |-> 3, record |-> 2, serial |-> 2]

\* the driver starts again once, its clock nearer the host's than before
MCClockErrors == <<1, 0>>

MCFiles ==
  {<<Line(10, 1, 5, "distance", -1), Line(10, 1, 5, "uwbdbg", 3), Line(11, 1, 9, "distance", -1),
     Line(12, 2, 5, "distance", -1), Line(11, 1, 5, "uwbdbg", 4), Line(13, 1, 5, "uwbdbg", 4)>>}
=============================================================================
