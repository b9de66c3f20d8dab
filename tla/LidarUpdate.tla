---------------------------- MODULE LidarUpdate ----------------------------
(* VoxelMapManager::StateEstimation (voxel_map.cpp): one scan against the   *)
(* LiDAR map.  A candidate estimate is built by iterations, validated as a  *)
(* whole and committed or dropped.  The numbers behind every decision are   *)
(* left open.  The hysteresis that is only logged (direction guard) is left *)
(* out; the direction conflict of the scan itself is kept.                  *)
EXTENDS Integers

CONSTANTS
  MaxIcp,      \* max_iterations of the point-to-plane update
  MinIcp,      \* icp_min_iterations
  EnterBad,    \* degeneracy_enter_consecutive_frames
  ExitGood     \* degeneracy_exit_consecutive_frames

ASSUME LidarCountsAssumption ==
  /\ {MaxIcp, EnterBad, ExitGood} \subseteq Nat \ {0}
  /\ MinIcp \in 1..MaxIcp

VARIABLES
  hyst,     \* debounced degeneracy of the LiDAR and its two counters
  saved,    \* hyst as the scan found it
  scan,     \* the candidate and the diagnostics of the scan
  lpc       \* stage of handleLIO: idle, icp, validate, insert

lidarVars == <<hyst, saved, scan, lpc>>

NoHyst == [degenerated |-> FALSE, bad |-> 0, good |-> 0]

\* it, rematch, posterior, failed: locals of the update, the third of them
\* posterior_ready; raw, severe, conflict, commit, inserted: LioUpdateDiagnostics
NoScan == [it |-> 0, rematch |-> 0, posterior |-> FALSE, failed |-> FALSE,
           raw |-> FALSE, severe |-> FALSE, conflict |-> FALSE, commit |-> FALSE,
           inserted |-> FALSE]

Capped(n, cap) == IF n < cap THEN n ELSE cap

\* Mutant: a bad scan does not end the run of good ones.
DebouncedForgetful(h, raw) ==
  IF raw
  THEN LET bad == Capped(h.bad + 1, EnterBad)
       IN  [h EXCEPT !.bad = bad, !.degenerated = @ \/ bad = EnterBad]
  ELSE LET good == Capped(h.good + 1, ExitGood)
       IN  [degenerated |-> h.degenerated /\ good < ExitGood, bad |-> 0, good |-> good]

\* updateLidarDegeneracyHysteresis; the counters are compared with their
\* thresholds only, so they are kept up to them
Debounced(h, raw) ==
  IF raw
  THEN LET bad == Capped(h.bad + 1, EnterBad)
       IN  [degenerated |-> h.degenerated \/ bad = EnterBad, bad |-> bad, good |-> 0]
  ELSE LET good == Capped(h.good + 1, ExitGood)
       IN  [degenerated |-> h.degenerated /\ good < ExitGood, bad |-> 0, good |-> good]

BeginUpdate == saved' = hyst /\ scan' = NoScan /\ lpc' = "icp"

\* What the first iteration with constraints can say about degeneracy; too
\* few features are severe by themselves, and only a degenerate LiDAR can
\* conflict with the motion.
Verdicts(enough) ==
  {v \in [raw : BOOLEAN, severe : BOOLEAN, conflict : BOOLEAN] :
     LET d == Debounced(hyst, v.raw).degenerated
     IN  /\ ~enough => v.raw /\ (v.severe <=> d)
         /\ v.severe \/ v.conflict => d}

\* no plane is matched: the scan ends without a posterior
NoPlane(observability) ==
  /\ lpc = "icp"
  /\ IF observability /\ scan.it = 0
     THEN /\ hyst' = Debounced(hyst, TRUE)
          /\ scan' = [scan EXCEPT !.raw = TRUE, !.severe = hyst'.degenerated]
     ELSE UNCHANGED <<hyst, scan>>
  /\ lpc' = "validate" /\ UNCHANGED saved

\* a normal equation, gain or increment that is not finite
NumericalFailure ==
  /\ lpc = "icp"
  /\ scan' = [scan EXCEPT !.failed = TRUE]
  /\ lpc' = "validate" /\ UNCHANGED <<hyst, saved>>

Rematched(converged, enough, tiny) ==
  LET n == scan.rematch + (IF (converged /\ enough)
                              \/ (scan.rematch = 0 /\ scan.it = MaxIcp - 2)
                           THEN 1 ELSE 0)
  IN  IF scan.it + 1 >= MinIcp /\ enough /\ converged /\ tiny /\ n < 2 THEN 2 ELSE n

\* one ICP iteration; the last one gives the candidate its covariance
Iterate(observability) ==
  /\ lpc = "icp"
  /\ \E converged, enough \in BOOLEAN :
     \E tiny \in (IF scan.it = 0 THEN {FALSE} ELSE BOOLEAN) :
     LET n    == Rematched(converged, enough, tiny)
         stop == n >= 2 \/ scan.it = MaxIcp - 1
         Moved(s) == [s EXCEPT !.it = @ + 1, !.rematch = n, !.posterior = stop]
     IN  /\ IF observability /\ scan.it = 0
            THEN \E v \in Verdicts(enough) :
                   /\ hyst' = Debounced(hyst, v.raw)
                   /\ scan' = Moved([scan EXCEPT !.raw = v.raw, !.severe = v.severe,
                                                 !.conflict = v.conflict])
            ELSE hyst' = hyst /\ scan' = Moved(scan)
         /\ lpc' = IF stop THEN "validate" ELSE "icp"
  /\ UNCHANGED saved

\* Mutant: a rejected scan keeps its run of good scans.
RestoredHalf(h) == [saved EXCEPT !.good = h.good]

\* the staged hysteresis, put back
Restored(h) == saved

\* the locals end with the update
Diagnosed(commit) ==
  [NoScan EXCEPT !.raw = scan.raw, !.severe = scan.severe, !.conflict = scan.conflict,
                 !.commit = commit]

\* validateLioCandidate, committedLioState and what follows them
Validate(observability) ==
  /\ lpc = "validate"
  /\ \/ /\ scan.posterior /\ ~scan.failed
        /\ scan' = Diagnosed(TRUE)
        /\ IF observability THEN UNCHANGED hyst
           ELSE \E d \in BOOLEAN : hyst' = [hyst EXCEPT !.degenerated = d]
     \/ scan' = Diagnosed(FALSE) /\ hyst' = Restored(hyst)
  /\ lpc' = "insert" /\ UNCHANGED saved
=============================================================================
