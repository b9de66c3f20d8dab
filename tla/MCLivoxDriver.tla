--------------------------- MODULE MCLivoxDriver ---------------------------
(* Small instances of LivoxDriver: frames of one LiDAR by one clock and by  *)
(* two, the two LiDARs set up while they send, IMU samples, an exit.        *)
EXTENDS LivoxDriver

MCOffset == [c \in TimeTypes |-> IF c = "gps" THEN 1 ELSE 0]

Only(interval, clocks, ticks) ==
  [interval |-> interval, clocks |-> clocks, lidars |-> {1}, ready |-> {1},
   ticks |-> ticks, imu |-> 0, exit |-> FALSE]

MCConfigs ==
  {Only(1, {"ptp"}, 4), Only(2, {"gps", "nosync"}, 5),
   [Only(1, {"ptp"}, 2) EXCEPT !.exit = TRUE],
   [Only(1, {"ptp"}, 3) EXCEPT !.lidars = {1, 2}, !.ready = {1, 2}],
   [Only(1, {"ptp"}, 2) EXCEPT !.ready = {}],
   [Only(1, {"ptp"}, 2) EXCEPT !.lidars = {2}, !.ready = {}],
   [Only(1, {}, 0) EXCEPT !.lidars = {1, 2}, !.imu = 2, !.exit = TRUE]}
============================================================================
