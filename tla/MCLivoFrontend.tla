--------------------------- MODULE MCLivoFrontend ---------------------------
(* Small instances of LivoFrontend: three consecutive scans (the first      *)
(* initializes the IMU, the second builds the map, the third is tracked),   *)
(* images inside them and on their ends, and events with no, one and        *)
(* several new IMU samples, at the event time and around it.                *)
EXTENDS LivoFrontend

S(b, e) == [beg |-> b, end |-> e, tiny |-> FALSE]

MCScans  == <<S(1, 3), S(3, 6), S(6, 9)>>
MCImu    == {2, 3, 5, 6, 7, 9}
MCImuFew == {3, 6, 7, 9}
MCImg    == {4, 6, 8, 9}
MCImgFew == {6, 8, 9}

\* The scans of the instances are the driver's, as ContractsHold asks.
ASSUME MCScansInOrder == ScansInOrder
=============================================================================
