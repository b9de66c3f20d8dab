------------------------------- MODULE MCP4Fork -------------------------------
(* A small instance of the fork harness.  Beside it, each in behaviours of    *)
(* its own and sharing nothing with it: a scan on its way to the estimator    *)
(* (ScanDeskew), and the guard that reconfigures the outputs (RuntimeGuard).  *)
EXTENDS P4Fork, ScanDeskew, RuntimeGuard

On(dv, cell, surf) == [dv |-> dv, cell |-> cell, surf |-> surf]

\* a wall over two voxels, a corner in the next voxel, a step away from both
\* and back, and a scan of which nothing is left
MCWall   == [move |-> 0, points |-> <<On(0, <<0, 0>>, "a"), On(0, <<0, 1>>, "a"), On(1, <<0, 0>>, "a")>>]
MCCorner == [move |-> 1, points |-> <<On(0, <<0, 0>>, "b"), On(0, <<0, 0>>, "a"), On(0, <<1, 0>>, "b")>>]
MCAway   == [move |-> 2, points |-> <<On(-1, <<1, 1>>, "a"), On(0, <<0, 0>>, "a")>>]
MCBack   == [move |-> -2, points |-> <<On(0, <<0, 0>>, "a"), On(0, <<0, 1>>, "b")>>]
MCEmpty  == [move |-> 0, points |-> <<>>]

MCScans == {MCWall, MCCorner, MCAway, MCBack, MCEmpty}
MCPausedScans == {MCWall}
MCLivoScans == {MCWall, MCAway, MCBack}
MCObserved == {0}

\* scans of up to three points, of which one at most is left out
MCRaw == [t : {0, 1, 3}, line : BOOLEAN, good : BOOLEAN]
MCMessages ==
  {m \in UNION {[1..n -> MCRaw] : n \in 1..3} :
     Cardinality({i \in DOMAIN m : ~m[i].line \/ ~m[i].good}) <= 1}
MCTypes == {"AVIA", "L515", "XT32", "XYZIRT"}
\* before the scan, at both its ends, twice at one time, in its midst
MCHistories == {<<-4>>, <<0>>, <<-1, 1>>, <<0, 0, 1>>, <<1, 2, 3>>}

MCOptions == [colorize : {TRUE}, pcdSave : {TRUE}, dropColour : BOOLEAN,
              dropSave : BOOLEAN, interval : {0, 2}]
\* every way to configure the outputs that images have
AllOptions == [colorize : BOOLEAN, pcdSave : BOOLEAN, dropColour : BOOLEAN,
               dropSave : BOOLEAN, interval : 0..2]

VARIABLE part  \* which of the three a behaviour is about

PartInit ==
  /\ ForkInit /\ DeskewInit /\ GuardInit
  /\ \/ /\ part = "fork" /\ lidar_type = "AVIA"
        /\ opt = [colorize |-> TRUE, pcdSave |-> TRUE, dropColour |-> TRUE,
                  dropSave |-> TRUE, interval |-> 0]
     \/ /\ part = "deskew" /\ ~config.all /\ config.stride = 1
        /\ opt = [colorize |-> TRUE, pcdSave |-> TRUE, dropColour |-> TRUE,
                  dropSave |-> TRUE, interval |-> 0]
     \/ /\ part = "guard" /\ ~config.all /\ config.stride = 1 /\ lidar_type = "AVIA"

PartNext ==
  \/ part = "fork" /\ ForkNext /\ UNCHANGED <<part, deskewVars, guardVars>>
  \/ part = "deskew" /\ DeskewNext /\ UNCHANGED <<part, forkVars, guardVars>>
  \/ part = "guard" /\ GuardNext /\ UNCHANGED <<part, forkVars, deskewVars>>

PartSpec ==
  /\ PartInit /\ [][PartNext]_<<part, forkVars, deskewVars, guardVars>>
  /\ ForkFairness

\* the guard's behaviours alone, with the sensors it sees going on
OutputSpec ==
  /\ PartInit /\ part = "guard" /\ [][PartNext]_<<part, forkVars, deskewVars, guardVars>>
  /\ GuardFairness
=============================================================================
