------------------------- MODULE MCLivoMeasurement -------------------------
(* Small instances of LivoMeasurement: LiDAR alone with the map guard at    *)
(* both strides of the configuration files, and images with each landmark   *)
(* mode, with and without guard, shadow and reference refresh.              *)
EXTENDS LivoMeasurement, TLC

Lidar(stride, observability) ==
  [stride |-> stride, scans |-> 5, imgEn |-> FALSE, observability |-> observability, enforce |-> TRUE,
   adaptive |-> FALSE, normal |-> TRUE, refresh |-> FALSE, prune |-> FALSE,
   guarded |-> FALSE, shadow |-> FALSE, dry |-> FALSE, aruco |-> "off",
   sameId |-> FALSE, points |-> TRUE]

Image(adaptive, normal, refresh, prune, guarded, shadow, aruco) ==
  [Lidar(1, FALSE) EXCEPT
     !.scans = 2, !.imgEn = TRUE, !.enforce = FALSE, !.adaptive = adaptive, !.normal = normal,
     !.refresh = refresh, !.prune = prune, !.guarded = guarded, !.shadow = shadow,
     !.dry = shadow, !.aruco = aruco]

MCConfigs ==
  {Lidar(1, TRUE), Lidar(2, TRUE), Lidar(1, FALSE),
   Image(TRUE, TRUE, TRUE, TRUE, TRUE, FALSE, "off"),
   [Image(FALSE, TRUE, FALSE, FALSE, TRUE, FALSE, "legacy_esikf") EXCEPT !.sameId = TRUE],
   Image(FALSE, FALSE, FALSE, TRUE, FALSE, TRUE, "observe_only"),
   [Image(FALSE, FALSE, FALSE, FALSE, FALSE, FALSE, "global_backend") EXCEPT
      !.scans = 1, !.points = FALSE]}

MCMarkersOf == (1 :> {1, 2}) @@ (2 :> {3})
============================================================================
