----------------------- MODULE LivoMeasurementProofs -----------------------
(***************************************************************************)
(* For every bound, board, image and schedule: the map freezes only as the *)
(* guard allows (FreezeDiscipline), the degeneracy verdict is debounced    *)
(* (DegeneracyDebounced), the visual gain kept is the one of the state     *)
(* committed (GainMatchesState), a frame ends settled (FrameSettled), and  *)
(* the landmark backend loses no input, records them in order              *)
(* (LandmarkLedger) and hangs its graph on them (GraphAnchored); the       *)
(* visual map is coherent and within its caps (VisualMapCoherent).         *)
(***************************************************************************)
EXTENDS LivoMeasurement, TLAPS, SequenceTheorems, FiniteSetTheorems

-----------------------------------------------------------------------------
(* The records of a scan. *)

HystSet == [degenerated : BOOLEAN, bad : 0..EnterBad, good : 0..ExitGood]

ScanSet == [it : Nat, rematch : Nat, posterior : BOOLEAN, failed : BOOLEAN,
            raw : BOOLEAN, severe : BOOLEAN, conflict : BOOLEAN, commit : BOOLEAN,
            inserted : BOOLEAN]

LEMMA CappedBounds ==
  ASSUME NEW n \in Nat, NEW cap \in Nat
  PROVE  /\ Capped(n, cap) \in Nat /\ Capped(n, cap) <= n /\ Capped(n, cap) <= cap
         /\ Capped(n, cap) < n => Capped(n, cap) = cap
BY DEF Capped

LEMMA HystRecord ==
  ASSUME NEW d \in BOOLEAN, NEW b \in 0..EnterBad, NEW g \in 0..ExitGood
  PROVE  [degenerated |-> d, bad |-> b, good |-> g] \in HystSet
BY DEF HystSet

LEMMA DebouncedType ==
  ASSUME NEW h \in HystSet, NEW raw \in BOOLEAN
  PROVE  Debounced(h, raw) \in HystSet
<1> USE LidarCountsAssumption DEF LidarCountsAssumption
<1>1. CASE raw
  <2> DEFINE bad == Capped(h.bad + 1, EnterBad)
             verdict == h.degenerated \/ bad = EnterBad
  <2>1. bad \in 0..EnterBad
    BY DEF Capped, HystSet
  <2>0. 0 \in 0..ExitGood
    OBVIOUS
  <2>2. verdict \in BOOLEAN
    OBVIOUS
  <2>3. Debounced(h, raw) = [degenerated |-> verdict, bad |-> bad, good |-> 0]
    BY <1>1 DEF Debounced
  <2> HIDE DEF bad, verdict
  <2> QED BY <2>0, <2>1, <2>2, <2>3, HystRecord
<1>2. CASE ~raw
  <2> DEFINE good == Capped(h.good + 1, ExitGood)
             verdict == h.degenerated /\ good < ExitGood
  <2>1. good \in 0..ExitGood
    BY DEF Capped, HystSet
  <2>0. 0 \in 0..EnterBad
    OBVIOUS
  <2>2. verdict \in BOOLEAN
    OBVIOUS
  <2>3. Debounced(h, raw) = [degenerated |-> verdict, bad |-> 0, good |-> good]
    BY <1>2 DEF Debounced
  <2> HIDE DEF good, verdict
  <2> QED BY <2>0, <2>1, <2>2, <2>3, HystRecord
<1> QED BY <1>1, <1>2

\* A scan after an iteration of the update, after a verdict on degeneracy, and
\* after its validation.
MovedOn(s, n, stop) == [s EXCEPT !.it = @ + 1, !.rematch = n, !.posterior = stop]
Judged(s, v) == [s EXCEPT !.raw = v.raw, !.severe = v.severe, !.conflict = v.conflict]

LEMMA MovedFields ==
  ASSUME NEW s \in ScanSet, NEW n \in Nat, NEW stop \in BOOLEAN
  PROVE  /\ MovedOn(s, n, stop) \in ScanSet
         /\ MovedOn(s, n, stop).it = s.it + 1 /\ MovedOn(s, n, stop).posterior = stop
         /\ MovedOn(s, n, stop).raw = s.raw
<1>1. MovedOn(s, n, stop).it = s.it + 1 /\ MovedOn(s, n, stop).posterior = stop
      /\ MovedOn(s, n, stop).raw = s.raw
  BY DEF MovedOn, ScanSet
<1>2. s.it + 1 \in Nat
  BY DEF ScanSet
<1>3. MovedOn(s, n, stop) \in ScanSet
  BY <1>2, Zenon DEF MovedOn, ScanSet
<1> QED BY <1>1, <1>3

LEMMA JudgedFields ==
  ASSUME NEW s \in ScanSet,
         NEW v \in [raw : BOOLEAN, severe : BOOLEAN, conflict : BOOLEAN]
  PROVE  Judged(s, v) \in ScanSet /\ Judged(s, v).it = s.it /\ Judged(s, v).raw = v.raw
<1>1. Judged(s, v).it = s.it /\ Judged(s, v).raw = v.raw
  BY DEF Judged, ScanSet
<1>2. v.raw \in BOOLEAN /\ v.severe \in BOOLEAN /\ v.conflict \in BOOLEAN
  OBVIOUS
<1>3. Judged(s, v) \in ScanSet
  BY <1>2, Zenon DEF Judged, ScanSet
<1> QED BY <1>1, <1>3

LEMMA NoScanType == NoScan \in ScanSet
BY 0 \in Nat, Zenon DEF NoScan, ScanSet

LEMMA DiagnosedFields ==
  ASSUME scan \in ScanSet, NEW commit \in BOOLEAN
  PROVE  /\ Diagnosed(commit) \in ScanSet
         /\ Diagnosed(commit).commit = commit /\ Diagnosed(commit).raw = scan.raw
<1>1. scan.raw \in BOOLEAN /\ scan.severe \in BOOLEAN /\ scan.conflict \in BOOLEAN
  BY DEF ScanSet
<1>2. PICK s \in ScanSet : s = NoScan
  BY NoScanType
<1>3. Diagnosed(commit) = [s EXCEPT !.raw = scan.raw, !.severe = scan.severe,
                                    !.conflict = scan.conflict, !.commit = commit]
  BY <1>2, Zenon DEF Diagnosed
<1>4. Diagnosed(commit).commit = commit /\ Diagnosed(commit).raw = scan.raw
  BY <1>3 DEF ScanSet
<1>5. Diagnosed(commit) \in ScanSet
  BY <1>1, <1>3, Zenon DEF ScanSet
<1> QED BY <1>4, <1>5

ScanType ==
  /\ config \in Configs /\ scan \in ScanSet /\ hyst \in HystSet /\ saved \in HystSet

\* What a stage of StateEstimation may do to the scan and the hysteresis: give
\* up, go on, or validate.
GivesUp ==
  /\ lpc = "icp" /\ lpc' = "validate"
  /\ scan'.failed \/ scan'.posterior = scan.posterior

GoesOn ==
  /\ lpc = "icp" /\ lpc' \in {"icp", "validate"} /\ scan'.it # 0
  /\ lpc' = "icp" => ~scan'.posterior
  /\ IF config.observability /\ scan.it = 0
     THEN hyst' = Debounced(hyst, scan'.raw)
     ELSE hyst' = hyst /\ scan'.raw = scan.raw

Validates ==
  /\ lpc = "validate" /\ lpc' = "insert"
  /\ IF scan'.commit
     THEN /\ scan.posterior /\ ~scan.failed /\ scan'.raw = scan.raw
          /\ config.observability => hyst' = hyst
     ELSE hyst' = saved

LEMMA EstimateStep ==
  ASSUME ScanType, Estimate
  PROVE  ScanType' /\ (GivesUp \/ GoesOn \/ Validates)
<1>1. scan \in ScanSet /\ hyst \in HystSet /\ saved \in HystSet /\ config' = config
  BY DEF ScanType, Estimate
<1>2. CASE NoPlane(config.observability)
  <2>1. lpc = "icp" /\ lpc' = "validate" /\ saved' = saved
    BY <1>2 DEF NoPlane
  <2>2. CASE config.observability /\ scan.it = 0
    <3>1. /\ hyst' = Debounced(hyst, TRUE)
          /\ scan' = [scan EXCEPT !.raw = TRUE, !.severe = hyst'.degenerated]
      BY <1>2, <2>2 DEF NoPlane
    <3>2. hyst' \in HystSet
      BY <1>1, <3>1, DebouncedType
    <3>3. hyst'.degenerated \in BOOLEAN
      BY <3>2 DEF HystSet
    <3>4. scan' \in ScanSet
      BY <1>1, <3>1, <3>3, Zenon DEF ScanSet
    <3>5. scan'.posterior = scan.posterior
      BY <1>1, <3>1 DEF ScanSet
    <3> QED BY <1>1, <2>1, <3>2, <3>4, <3>5 DEF ScanType, GivesUp
  <2>3. CASE ~(config.observability /\ scan.it = 0)
    <3>1. hyst' = hyst /\ scan' = scan
      BY <1>2, <2>3 DEF NoPlane
    <3> QED BY <1>1, <2>1, <3>1 DEF ScanType, GivesUp
  <2> QED BY <2>2, <2>3
<1>3. CASE NumericalFailure
  <2>1. /\ lpc = "icp" /\ lpc' = "validate" /\ saved' = saved /\ hyst' = hyst
        /\ scan' = [scan EXCEPT !.failed = TRUE]
    BY <1>3 DEF NumericalFailure
  <2>2. scan' \in ScanSet
    BY <1>1, <2>1, Zenon DEF ScanSet
  <2>3. scan'.failed
    BY <1>1, <2>1 DEF ScanSet
  <2> QED BY <1>1, <2>1, <2>2, <2>3 DEF ScanType, GivesUp
<1>4. CASE Iterate(config.observability)
  <2>1. lpc = "icp" /\ saved' = saved
    BY <1>4 DEF Iterate
  <2>2. PICK converged, enough \in BOOLEAN :
         \E tiny \in (IF scan.it = 0 THEN {FALSE} ELSE BOOLEAN) :
           LET n    == Rematched(converged, enough, tiny)
               stop == n >= 2 \/ scan.it = MaxIcp - 1
           IN  /\ IF config.observability /\ scan.it = 0
                  THEN \E v \in Verdicts(enough) :
                         hyst' = Debounced(hyst, v.raw) /\ scan' = MovedOn(Judged(scan, v), n, stop)
                  ELSE hyst' = hyst /\ scan' = MovedOn(scan, n, stop)
               /\ lpc' = IF stop THEN "validate" ELSE "icp"
    BY <1>4, Zenon DEF Iterate, MovedOn, Judged
  <2>3. PICK tiny \in BOOLEAN :
           LET n    == Rematched(converged, enough, tiny)
               stop == n >= 2 \/ scan.it = MaxIcp - 1
           IN  /\ IF config.observability /\ scan.it = 0
                  THEN \E v \in Verdicts(enough) :
                         hyst' = Debounced(hyst, v.raw) /\ scan' = MovedOn(Judged(scan, v), n, stop)
                  ELSE hyst' = hyst /\ scan' = MovedOn(scan, n, stop)
               /\ lpc' = IF stop THEN "validate" ELSE "icp"
    <3>1. (IF scan.it = 0 THEN {FALSE} ELSE BOOLEAN) \subseteq BOOLEAN
      OBVIOUS
    <3> QED BY <2>2, <3>1, Zenon
  <2> DEFINE n    == Rematched(converged, enough, tiny)
             stop == n >= 2 \/ scan.it = MaxIcp - 1
  <2>4. n \in Nat
    BY <1>1 DEF Rematched, ScanSet
  <2>5. stop \in BOOLEAN /\ lpc' = IF stop THEN "validate" ELSE "icp"
    BY <2>3
  <2>6. IF config.observability /\ scan.it = 0
        THEN \E v \in Verdicts(enough) :
               hyst' = Debounced(hyst, v.raw) /\ scan' = MovedOn(Judged(scan, v), n, stop)
        ELSE hyst' = hyst /\ scan' = MovedOn(scan, n, stop)
    BY <2>3, Zenon
  <2> HIDE DEF n, stop
  <2>7. scan.it \in Nat
    BY <1>1 DEF ScanSet
  <2>8. CASE config.observability /\ scan.it = 0
    <3>1. PICK v \in Verdicts(enough) :
            hyst' = Debounced(hyst, v.raw) /\ scan' = MovedOn(Judged(scan, v), n, stop)
      BY <2>6, <2>8, Zenon
    <3>2. v \in [raw : BOOLEAN, severe : BOOLEAN, conflict : BOOLEAN]
      BY DEF Verdicts
    <3>3. /\ Judged(scan, v) \in ScanSet /\ Judged(scan, v).it = scan.it /\ Judged(scan, v).raw = v.raw
      BY <1>1, <3>2, JudgedFields
    <3>4. /\ MovedOn(Judged(scan, v), n, stop) \in ScanSet
          /\ MovedOn(Judged(scan, v), n, stop).it = Judged(scan, v).it + 1
          /\ MovedOn(Judged(scan, v), n, stop).posterior = stop
          /\ MovedOn(Judged(scan, v), n, stop).raw = Judged(scan, v).raw
      BY <2>4, <2>5, <3>3, MovedFields
    <3>5. scan' \in ScanSet /\ scan'.it # 0 /\ scan'.posterior = stop /\ scan'.raw = v.raw
      BY <2>7, <3>1, <3>3, <3>4
    <3>6. hyst' \in HystSet
      BY <1>1, <3>1, <3>2, DebouncedType
    <3>7. GoesOn
      BY <2>1, <2>5, <2>8, <3>1, <3>5 DEF GoesOn
    <3> QED BY <1>1, <2>1, <3>5, <3>6, <3>7 DEF ScanType
  <2>9. CASE ~(config.observability /\ scan.it = 0)
    <3>1. hyst' = hyst /\ scan' = MovedOn(scan, n, stop)
      BY <2>6, <2>9
    <3>2. /\ MovedOn(scan, n, stop) \in ScanSet
          /\ MovedOn(scan, n, stop).it = scan.it + 1
          /\ MovedOn(scan, n, stop).posterior = stop
          /\ MovedOn(scan, n, stop).raw = scan.raw
      BY <1>1, <2>4, <2>5, MovedFields
    <3>3. scan' \in ScanSet /\ scan'.it # 0 /\ scan'.posterior = stop /\ scan'.raw = scan.raw
      BY <2>7, <3>1, <3>2
    <3>4. GoesOn
      BY <2>1, <2>5, <2>9, <3>1, <3>3 DEF GoesOn
    <3> QED BY <1>1, <2>1, <3>1, <3>3, <3>4 DEF ScanType
  <2> QED BY <2>8, <2>9
<1>5. CASE Validate(config.observability)
  <2>1. lpc = "validate" /\ lpc' = "insert" /\ saved' = saved
    BY <1>5 DEF Validate
  <2>2. \A commit \in BOOLEAN :
          /\ Diagnosed(commit) \in ScanSet
          /\ Diagnosed(commit).commit = commit /\ Diagnosed(commit).raw = scan.raw
    BY <1>1, DiagnosedFields
  <2>3. CASE scan' = Diagnosed(FALSE) /\ hyst' = Restored(hyst)
    <3>1. scan' \in ScanSet /\ ~scan'.commit /\ hyst' = saved
      BY <2>2, <2>3 DEF Restored
    <3> QED BY <1>1, <2>1, <3>1 DEF ScanType, Validates
  <2>4. CASE /\ scan.posterior /\ ~scan.failed
             /\ scan' = Diagnosed(TRUE)
             /\ IF config.observability THEN UNCHANGED hyst
                ELSE \E d \in BOOLEAN : hyst' = [hyst EXCEPT !.degenerated = d]
    <3>1. scan' \in ScanSet /\ scan'.commit /\ scan'.raw = scan.raw
      BY <2>2, <2>4
    <3>2. hyst' \in HystSet /\ (config.observability => hyst' = hyst)
      BY <1>1, <2>4, Zenon DEF HystSet
    <3> QED BY <1>1, <2>1, <2>4, <3>1, <3>2 DEF ScanType, Validates
  <2> QED BY <1>5, <2>3, <2>4 DEF Validate
<1> QED BY <1>2, <1>3, <1>4, <1>5 DEF Estimate

LEMMA ScanBegins ==
  ASSUME ScanType, BeginScan
  PROVE  ScanType' /\ saved' = hyst /\ hyst' = hyst /\ scan' = NoScan /\ lpc' = "icp"
<1> QED BY NoScanType DEF ScanType, BeginScan, BeginUpdate

LEMMA ScanEnds ==
  ASSUME ScanType, InsertScan
  PROVE  ScanType'
<1>1. PICK frozen : scan' = [scan EXCEPT !.inserted = ShouldInsert(scan.commit, Due, frozen)]
  BY DEF InsertScan
<1>2. ShouldInsert(scan.commit, Due, frozen) \in BOOLEAN
  BY DEF ShouldInsert
<1>3. scan' \in ScanSet
  BY <1>1, <1>2, Zenon DEF ScanType, ScanSet
<1>4. NoHyst \in HystSet
  BY LidarCountsAssumption DEF NoHyst, HystSet, LidarCountsAssumption
<1> QED BY <1>3, <1>4 DEF ScanType, InsertScan

-----------------------------------------------------------------------------
(* What every action does to the scan. *)

Elsewhere ==
  /\ UNCHANGED <<lidarVars, config, guard, seen>>
  /\ lidar' = lidar \/ lidar' = Spent(lidar)

LEMMA ScanStep ==
  ASSUME ScanType, [Next]_vars
  PROVE  ScanType' /\ (BeginScan \/ Estimate \/ InsertScan \/ Elsewhere)
<1>1. CASE BeginScan
  BY <1>1, ScanBegins
<1>2. CASE Estimate
  BY <1>2, EstimateStep
<1>3. CASE InsertScan
  BY <1>3, ScanEnds
<1>4. ASSUME Elsewhere PROVE ScanType' /\ Elsewhere
  BY <1>4 DEF Elsewhere, lidarVars, ScanType
<1>5. CASE ImageWithoutSupport
  BY <1>4, <1>5 DEF Elsewhere, ImageWithoutSupport, KeepVision
<1>6. CASE SkipImage
  BY <1>4, <1>6 DEF Elsewhere, SkipImage, KeepVision
<1>7. CASE ProcessImage
  BY <1>4, <1>7 DEF Elsewhere, ProcessImage, KeepVision
<1>8. CASE Correct
  BY <1>4, <1>8 DEF Elsewhere, Correct, KeepVision
<1>9. CASE AddPoints
  BY <1>4, <1>9 DEF Elsewhere, AddPoints, KeepVision
<1>10. CASE FinishImage
  BY <1>4, <1>10 DEF Elsewhere, FinishImage, KeepVision
<1>11. CASE RouteToBackend
  BY <1>4, <1>11 DEF Elsewhere, RouteToBackend
<1>12. CASE SubmitNext
  BY <1>4, <1>12 DEF Elsewhere, SubmitNext
<1>13. CASE LandmarkWork
  BY <1>4, <1>13 DEF Elsewhere, LandmarkWork
<1>14. CASE EndProgram
  BY <1>4, <1>14 DEF Elsewhere, EndProgram
<1>15. CASE UNCHANGED vars
  BY <1>4, <1>15 DEF Elsewhere, vars
<1> QED BY <1>1, <1>2, <1>3, <1>5, <1>6, <1>7, <1>8, <1>9, <1>10, <1>11, <1>12, <1>13,
           <1>14, <1>15 DEF Next

-----------------------------------------------------------------------------
(* The map guard. *)

GuardSet == [active : BOOLEAN, latched : BOOLEAN, recovery : Nat, freeze : 0..MaxFreeze]

LidarSet == [inited : BOOLEAN, fresh : BOOLEAN, turn : Nat, scans : Nat]
SeenSet == [held : Nat, calm : Nat, run : Nat, raw : BOOLEAN]

GuardType ==
  /\ guard \in GuardSet
  /\ lidar \in LidarSet
  /\ seen \in SeenSet

GuardHistory ==
  /\ ~config.enforce => guard = NoGuard
  /\ ~(guard.active /\ guard.latched)
  /\ guard.active => seen.calm >= guard.recovery
  /\ config.stride = 1 => seen.held <= (IF guard.active THEN guard.freeze ELSE 0)

GuardInv == ScanType /\ GuardType /\ GuardHistory

LEMMA ConfigFields ==
  ASSUME NEW c \in Configs
  PROVE  /\ c.stride \in Nat \ {0} /\ c.enforce \in BOOLEAN /\ c.imgEn \in BOOLEAN
         /\ c.observability \in BOOLEAN
BY MeasurementAssumption DEF MeasurementAssumption

LEMMA SteppedFields ==
  ASSUME NEW g \in GuardSet, NEW request \in BOOLEAN, config.enforce \in BOOLEAN,
         ~(g.active /\ g.latched)
  PROVE  LET h == Stepped(g, request)
         IN  /\ h \in GuardSet
             /\ ~config.enforce => h = NoGuard
             /\ ~(h.active /\ h.latched)
             /\ g.latched /\ config.enforce => ~h.active /\ (h.latched <=> request)
             /\ h.active => ~request \/ h.recovery = 0
             /\ h.active /\ ~request => g.active /\ h.recovery = g.recovery + 1 /\ h.recovery < Recovery
             /\ h.active => h.freeze = (IF g.active THEN g.freeze ELSE 0)
             /\ g.active /\ ~h.active /\ config.enforce
                  => ~request /\ g.recovery + 1 >= Recovery
<1> USE MeasurementAssumption DEF MeasurementAssumption
<1>1. CASE ~config.enforce
  BY <1>1 DEF Stepped, NoGuard, GuardSet
<1>2. CASE config.enforce /\ g.latched
  <2>1. Stepped(g, request) = [g EXCEPT !.latched = request]
    BY <1>2 DEF Stepped
  <2> QED BY <1>2, <2>1 DEF GuardSet
<1>3. CASE config.enforce /\ ~g.latched /\ request
  <2>1. Stepped(g, request) = [g EXCEPT !.recovery = 0, !.active = TRUE,
                                        !.freeze = IF g.active THEN @ ELSE 0]
    BY <1>3 DEF Stepped
  <2> DEFINE freeze == IF g.active THEN g.freeze ELSE 0
  <2>2. freeze \in 0..MaxFreeze /\ 0 \in Nat
    BY DEF GuardSet
  <2>3. Stepped(g, request) = [g EXCEPT !.recovery = 0, !.active = TRUE, !.freeze = freeze]
    BY <2>1
  <2> HIDE DEF freeze
  <2>4. Stepped(g, request) \in GuardSet
    BY <2>2, <2>3, Zenon DEF GuardSet
  <2>5. /\ Stepped(g, request).active /\ Stepped(g, request).recovery = 0
        /\ Stepped(g, request).latched = g.latched /\ Stepped(g, request).freeze = freeze
    BY <2>3 DEF GuardSet
  <2> QED BY <1>3, <2>4, <2>5 DEF freeze
<1>4. CASE config.enforce /\ ~g.latched /\ ~request /\ ~g.active
  BY <1>4 DEF Stepped, GuardSet
<1>5. CASE config.enforce /\ ~g.latched /\ ~request /\ g.active
  <2>1. CASE g.recovery + 1 >= Recovery
    <3>1. Stepped(g, request) = NoGuard
      BY <1>5, <2>1 DEF Stepped
    <3> QED BY <1>5, <2>1, <3>1 DEF GuardSet, NoGuard
  <2>2. CASE ~(g.recovery + 1 >= Recovery)
    <3>1. Stepped(g, request) = [g EXCEPT !.recovery = @ + 1]
      BY <1>5, <2>2 DEF Stepped
    <3> QED BY <1>5, <2>2, <3>1 DEF GuardSet
  <2> QED BY <2>1, <2>2
<1> QED BY <1>1, <1>2, <1>3, <1>4, <1>5 DEF GuardSet

LEMMA LimitedFields ==
  ASSUME NEW g \in GuardSet, g.active, ~g.latched
  PROVE  LET h == Limited(g)
         IN  /\ h \in GuardSet
             /\ ~(h.active /\ h.latched)
             /\ ~h.active => h.latched
             /\ h.active => h.recovery = g.recovery /\ h.freeze = g.freeze + 1
<1> USE MeasurementAssumption DEF MeasurementAssumption
<1>1. CASE g.freeze >= MaxFreeze
  <2>1. Limited(g) = [g EXCEPT !.active = FALSE, !.latched = TRUE, !.recovery = 0]
    BY <1>1 DEF Limited
  <2>2. Limited(g) \in GuardSet
    BY <2>1, 0 \in Nat, Zenon DEF GuardSet
  <2>3. ~Limited(g).active /\ Limited(g).latched
    BY <2>1 DEF GuardSet
  <2> QED BY <2>2, <2>3
<1>2. CASE ~(g.freeze >= MaxFreeze)
  <2>1. Limited(g) = [g EXCEPT !.freeze = @ + 1]
    BY <1>2 DEF Limited
  <2> QED BY <1>2, <2>1 DEF GuardSet
<1> QED BY <1>1, <1>2

\* What one InsertScan does to the guard and its history.
GuardStep ==
  /\ (guard.active /\ ~guard'.active) => guard'.latched \/ seen'.calm >= Recovery
  /\ guard.latched => ~guard'.active
  /\ (guard.latched /\ ~guard'.latched) => seen'.calm > 0
  /\ config.stride = 1 => seen'.held <= MaxFreeze

LEMMA InsertScanGuard ==
  ASSUME GuardInv, InsertScan
  PROVE  GuardInv' /\ GuardStep
<1> USE MeasurementAssumption DEF MeasurementAssumption
<1> DEFINE request == Request
           g     == Stepped(guard, Request)
           after == IF Due /\ g.active THEN Limited(g) ELSE g
           frozen == Due /\ after.active
<1>1. /\ guard' = after
      /\ seen' = [seen EXCEPT !.held = IF frozen THEN Capped(@ + 1, MaxFreeze + 1)
                                       ELSE IF Due THEN 0 ELSE @,
                              !.calm = IF Request THEN 0 ELSE Capped(@ + 1, Recovery),
                              !.run = RunAfter(seen).run, !.raw = RunAfter(seen).raw]
      /\ lidar' = [lidar EXCEPT !.turn = Turned, !.fresh = config.imgEn]
      /\ config' = config
      /\ scan' = [scan EXCEPT !.inserted = ShouldInsert(scan.commit, Due, frozen)]
  BY DEF InsertScan
<1>2. /\ config \in Configs /\ guard \in GuardSet
      /\ config.stride \in Nat \ {0} /\ config.enforce \in BOOLEAN /\ config.imgEn \in BOOLEAN
      /\ ~(guard.active /\ guard.latched)
      /\ Request \in BOOLEAN
      /\ lidar \in LidarSet /\ seen \in SeenSet
      /\ scan.raw \in BOOLEAN
  <2>1. scan.raw \in BOOLEAN
    BY DEF GuardInv, ScanType, ScanSet
  <2>2. Request \in BOOLEAN
    BY DEF Request
  <2> QED BY <2>1, <2>2, ConfigFields DEF GuardInv, ScanType, GuardType, GuardHistory
<1>3. /\ g \in GuardSet
      /\ ~config.enforce => g = NoGuard
      /\ ~(g.active /\ g.latched)
      /\ guard.latched /\ config.enforce => ~g.active /\ (g.latched <=> Request)
      /\ g.active => ~Request \/ g.recovery = 0
      /\ g.active /\ ~Request => guard.active /\ g.recovery = guard.recovery + 1 /\ g.recovery < Recovery
      /\ g.active => g.freeze = (IF guard.active THEN guard.freeze ELSE 0)
      /\ guard.active /\ ~g.active /\ config.enforce
           => ~Request /\ guard.recovery + 1 >= Recovery
  BY <1>2, SteppedFields
<1>4. /\ after \in GuardSet
      /\ ~(after.active /\ after.latched)
      /\ after.active => g.active /\ after.recovery = g.recovery
      /\ after.active => after.freeze = (IF Due THEN g.freeze + 1 ELSE g.freeze)
      /\ g.active /\ ~after.active => after.latched
      /\ ~g.active => after = g
  <2>1. CASE Due /\ g.active
    BY <1>3, <2>1, LimitedFields
  <2>2. CASE ~(Due /\ g.active)
    BY <1>3, <2>2
  <2> QED BY <2>1, <2>2
<1> HIDE DEF after, g
<1>5. Turned \in Nat /\ (config.stride = 1 => Due)
  <2>1. \A n \in Nat, d \in Nat \ {0} : (n % d) \in Nat /\ (d = 1 => (n % d) = 0)
    OBVIOUS
  <2>2. lidar.turn + 1 \in Nat
    BY <1>2 DEF LidarSet
  <2>3. Turned \in Nat /\ (config.stride = 1 => Turned = 0)
    BY <1>2, <2>1, <2>2 DEF Turned
  <2> QED BY <2>3 DEF Due
<1>6. RunAfter(seen).run \in Nat /\ RunAfter(seen).raw \in BOOLEAN
  <2>1. seen.run \in Nat /\ seen.raw \in BOOLEAN
    BY <1>2 DEF SeenSet
  <2>2. Capped(seen.run + 1, EnterBad + ExitGood) \in Nat
    BY <2>1, LidarCountsAssumption DEF Capped, LidarCountsAssumption
  <2> QED BY <1>2, <2>1, <2>2 DEF RunAfter
<1>7. /\ seen'.held = (IF frozen THEN Capped(seen.held + 1, MaxFreeze + 1)
                       ELSE IF Due THEN 0 ELSE seen.held)
      /\ seen'.calm = (IF Request THEN 0 ELSE Capped(seen.calm + 1, Recovery))
      /\ seen'.run = RunAfter(seen).run /\ seen'.raw = RunAfter(seen).raw
      /\ seen' \in SeenSet
  <2> DEFINE held == IF frozen THEN Capped(seen.held + 1, MaxFreeze + 1)
                     ELSE IF Due THEN 0 ELSE seen.held
             calm == IF Request THEN 0 ELSE Capped(seen.calm + 1, Recovery)
  <2>1. held \in Nat /\ calm \in Nat
    BY <1>2 DEF Capped, SeenSet
  <2>2. seen' = [seen EXCEPT !.held = held, !.calm = calm,
                             !.run = RunAfter(seen).run, !.raw = RunAfter(seen).raw]
    BY <1>1
  <2> HIDE DEF held, calm, frozen
  <2>3. /\ seen'.held = held /\ seen'.calm = calm
        /\ seen'.run = RunAfter(seen).run /\ seen'.raw = RunAfter(seen).raw
    BY <1>2, <2>2 DEF SeenSet
  <2>4. seen' \in SeenSet
    BY <1>2, <1>6, <2>1, <2>2, Zenon DEF SeenSet
  <2> QED BY <2>3, <2>4 DEF held, calm
<1>8. GuardType'
  <2>1. lidar' \in LidarSet
    BY <1>1, <1>2, <1>5, Zenon DEF LidarSet
  <2> QED BY <1>1, <1>2, <1>4, <1>7, <2>1 DEF GuardType, GuardSet
<1>9. guard'.active => seen'.calm >= guard'.recovery
  <2>1. seen.calm \in Nat /\ guard.recovery \in Nat /\ g.recovery \in Nat
    BY <1>2, <1>3 DEF SeenSet, GuardSet
  <2>2. guard.active => seen.calm >= guard.recovery
    BY DEF GuardInv, GuardHistory
  <2>3. after.active => after.recovery <= seen'.calm
    <3> SUFFICES ASSUME after.active PROVE g.recovery <= seen'.calm
      BY <1>4
    <3>1. CASE Request
      BY <1>3, <1>4, <1>7, <3>1
    <3>2. CASE ~Request
      <4>1. guard.active /\ g.recovery = guard.recovery + 1 /\ g.recovery < Recovery
        BY <1>3, <1>4, <3>2
      <4>2. seen'.calm = Capped(seen.calm + 1, Recovery) /\ seen.calm >= guard.recovery
        BY <1>7, <2>2, <3>2, <4>1
      <4> QED BY <2>1, <4>1, <4>2 DEF Capped
    <3> QED BY <3>1, <3>2
  <2>4. seen'.calm \in Nat /\ after.recovery \in Nat
    BY <1>4, <1>7 DEF SeenSet, GuardSet
  <2> QED BY <1>1, <2>3, <2>4
<1>10. config.stride = 1 => seen'.held <= (IF guard'.active THEN guard'.freeze ELSE 0)
  <2> SUFFICES ASSUME config.stride = 1
               PROVE  seen'.held <= (IF guard'.active THEN guard'.freeze ELSE 0)
    OBVIOUS
  <2>1. seen.held \in Nat /\ guard.freeze \in Nat /\ g.freeze \in Nat
    BY <1>2, <1>3 DEF SeenSet, GuardSet
  <2>2. Due /\ seen.held <= (IF guard.active THEN guard.freeze ELSE 0)
    BY <1>5 DEF GuardInv, GuardHistory
  <2>3. CASE after.active
    <3>1. after.freeze = g.freeze + 1 /\ g.freeze = (IF guard.active THEN guard.freeze ELSE 0)
      BY <1>3, <1>4, <2>2, <2>3
    <3>2. seen'.held = Capped(seen.held + 1, MaxFreeze + 1)
      BY <1>7, <2>2, <2>3
    <3>3. Capped(seen.held + 1, MaxFreeze + 1) <= seen.held + 1
      BY <2>1 DEF Capped
    <3>4. seen'.held \in Nat
      BY <1>7 DEF SeenSet
    <3>5. seen.held <= g.freeze
      BY <2>2, <3>1
    <3>6. seen'.held <= after.freeze
      BY <2>1, <3>1, <3>2, <3>3, <3>4, <3>5
    <3> QED BY <1>1, <2>3, <3>6
  <2>4. CASE ~after.active
    BY <1>1, <1>7, <2>2, <2>4
  <2> QED BY <2>3, <2>4
<1>11. GuardHistory'
  BY <1>1, <1>2, <1>3, <1>4, <1>9, <1>10 DEF GuardHistory, NoGuard
<1>12. GuardStep
  <2>1. ASSUME guard.active, ~guard'.active PROVE guard'.latched \/ seen'.calm >= Recovery
    <3>1. config.enforce
      BY <2>1 DEF GuardInv, GuardHistory, NoGuard
    <3>2. CASE g.active
      BY <1>1, <1>4, <2>1, <3>2
    <3>3. CASE ~g.active
      <4>1. ~Request /\ guard.recovery + 1 >= Recovery
        BY <1>3, <2>1, <3>1, <3>3
      <4>2. seen'.calm = Capped(seen.calm + 1, Recovery) /\ seen.calm >= guard.recovery
        BY <1>7, <2>1, <4>1 DEF GuardInv, GuardHistory
      <4>3. seen.calm \in Nat /\ guard.recovery \in Nat
        BY <1>2 DEF SeenSet, GuardSet
      <4>4. seen'.calm >= Recovery
        BY <4>1, <4>2, <4>3 DEF Capped
      <4> QED BY <4>4
    <3> QED BY <3>2, <3>3
  <2>2. ASSUME guard.latched
        PROVE  ~guard'.active /\ (guard'.latched \/ seen'.calm > 0)
    <3>1. config.enforce
      BY <2>2 DEF GuardInv, GuardHistory, NoGuard
    <3>2. guard' = g /\ ~g.active /\ (g.latched <=> Request)
      BY <1>1, <1>3, <1>4, <2>2, <3>1
    <3>3. CASE Request
      BY <3>2, <3>3
    <3>4. CASE ~Request
      <4>1. seen'.calm = Capped(seen.calm + 1, Recovery) /\ seen.calm \in Nat
        BY <1>2, <1>7, <3>4 DEF SeenSet
      <4>2. seen'.calm > 0
        BY <4>1 DEF Capped
      <4> QED BY <3>2, <4>2
    <3> QED BY <3>3, <3>4
  <2>3. config.stride = 1 => seen'.held <= MaxFreeze
    <3>1. guard' \in GuardSet /\ seen' \in SeenSet
      BY <1>1, <1>4, <1>7
    <3>2. guard'.freeze \in 0..MaxFreeze /\ seen'.held \in Nat
      BY <3>1 DEF GuardSet, SeenSet
    <3> QED BY <1>10, <3>2
  <2> QED BY <2>1, <2>2, <2>3 DEF GuardStep
<1> QED BY <1>8, <1>11, <1>12, ScanEnds DEF GuardInv

LEMMA Unfrozen ==
  ASSUME GuardInv, ScanType', UNCHANGED <<config, guard, seen>>,
         \/ lidar' = lidar
         \/ lidar' = [lidar EXCEPT !.inited = TRUE, !.scans = @ + 1]
         \/ lidar' = [lidar EXCEPT !.fresh = FALSE]
  PROVE  GuardInv' /\ GuardStep
<1>1. lidar' \in LidarSet
  <2>1. lidar \in LidarSet
    BY DEF GuardInv, GuardType
  <2>2. lidar.scans + 1 \in Nat
    BY <2>1 DEF LidarSet
  <2> QED BY <2>1, <2>2, Zenon DEF LidarSet
<1>2. GuardType'
  BY <1>1 DEF GuardInv, GuardType
<1>3. GuardHistory'
  BY DEF GuardInv, GuardHistory
<1>4. GuardStep
  <2>1. guard.freeze \in 0..MaxFreeze /\ seen.held \in Nat /\ MaxFreeze \in Nat
    BY MeasurementAssumption DEF GuardInv, GuardType, GuardSet, SeenSet, MeasurementAssumption
  <2>2. config.stride = 1 => seen.held <= MaxFreeze
    BY <2>1 DEF GuardInv, GuardHistory
  <2> QED BY <2>2 DEF GuardInv, GuardHistory, GuardStep
<1> QED BY <1>2, <1>3, <1>4 DEF GuardInv

LEMMA ScanInitial == Init => ScanType
<1>1. NoHyst \in HystSet
  BY LidarCountsAssumption DEF NoHyst, HystSet, LidarCountsAssumption
<1> QED BY <1>1, NoScanType DEF Init, ScanType

LEMMA GuardInitial == Init => GuardInv
<1> SUFFICES ASSUME Init PROVE GuardInv
  OBVIOUS
<1>1. GuardType
  <2>1. NoGuard \in GuardSet
    BY MeasurementAssumption DEF NoGuard, GuardSet, MeasurementAssumption
  <2>2. NoHistory \in SeenSet /\ lidar \in LidarSet
    BY DEF Init, NoHistory, SeenSet, LidarSet
  <2> QED BY <2>1, <2>2 DEF Init, GuardType
<1>2. GuardHistory
  BY DEF Init, GuardHistory, NoGuard, NoHistory
<1> QED BY <1>1, <1>2, ScanInitial DEF GuardInv

LEMMA GuardStays ==
  ASSUME GuardInv, [Next]_vars
  PROVE  GuardInv' /\ GuardStep
<1>1. ScanType' /\ (BeginScan \/ Estimate \/ InsertScan \/ Elsewhere)
  BY ScanStep DEF GuardInv
<1>2. CASE BeginScan
  BY <1>1, <1>2, Unfrozen DEF BeginScan
<1>3. CASE Estimate
  BY <1>1, <1>3, Unfrozen DEF Estimate
<1>4. CASE InsertScan
  BY <1>4, InsertScanGuard
<1>5. CASE Elsewhere
  BY <1>1, <1>5, Unfrozen DEF Elsewhere, Spent
<1> QED BY <1>1, <1>2, <1>3, <1>4, <1>5

\* The freeze of the map ends as FreezeDiscipline says, and withholds no more
\* scans in a row than the hard limit, for every configuration and scene.
THEOREM FreezesAreDisciplined == Spec => FreezeDiscipline
<1>1. Init => GuardInv
  BY GuardInitial
<1>2. ASSUME GuardInv, [Next]_vars PROVE GuardInv' /\ GuardStep
  BY <1>2, GuardStays
<1>3. ASSUME GuardInv, [Next]_vars
      PROVE  [/\ (guard.active /\ ~guard'.active) => guard'.latched \/ seen'.calm >= Recovery
              /\ guard.latched => ~guard'.active
              /\ (guard.latched /\ ~guard'.latched) => seen'.calm > 0
              /\ config.stride = 1 => seen'.held <= MaxFreeze]_vars
  BY <1>2, <1>3 DEF GuardStep
<1> QED BY <1>1, <1>2, <1>3, PTL DEF Spec, FreezeDiscipline

-----------------------------------------------------------------------------
(* The hysteresis of degeneracy. *)

\* the counters of h are those of a run of equal verdicts
CountsOf(h, run, raw) ==
  /\ h.bad = IF raw THEN Capped(run, EnterBad) ELSE 0
  /\ h.good = IF raw THEN 0 ELSE Capped(run, ExitGood)

Staged ==
  /\ lpc = "idle" => CountsOf(hyst, seen.run, seen.raw)
  /\ lpc # "idle" => CountsOf(saved, seen.run, seen.raw)
  /\ lpc = "icp" => /\ ~scan.posterior
                    /\ hyst = IF scan.it = 0 THEN saved ELSE Debounced(saved, scan.raw)
  /\ lpc = "validate" /\ scan.posterior /\ ~scan.failed => hyst = Debounced(saved, scan.raw)
  /\ lpc = "insert" => hyst = IF scan.commit THEN Debounced(saved, scan.raw) ELSE saved

StagedInv == GuardInv /\ (config.observability => Staged)

RunOf(run, raw, next) ==
  IF next = raw THEN Capped(run + 1, EnterBad + ExitGood) ELSE 1

LEMMA RunCounted ==
  ASSUME NEW h \in HystSet, NEW run \in Nat, NEW raw \in BOOLEAN, NEW next \in BOOLEAN,
         CountsOf(h, run, raw)
  PROVE  LET d == Debounced(h, next)
             n == RunOf(run, raw, next)
         IN  /\ CountsOf(d, n, next)
             /\ d.degenerated # h.degenerated => d.degenerated = next
             /\ n >= (IF next THEN EnterBad ELSE ExitGood) => d.degenerated = next
             /\ d.degenerated # h.degenerated => n >= (IF next THEN EnterBad ELSE ExitGood)
<1> DEFINE n == RunOf(run, raw, next)
<1>0. EnterBad \in Nat \ {0} /\ ExitGood \in Nat \ {0}
  BY LidarCountsAssumption DEF LidarCountsAssumption
<1>1. n \in Nat /\ n >= 1
  BY <1>0 DEF RunOf, Capped
<1>2. h.degenerated \in BOOLEAN
  BY DEF HystSet
<1>3. CASE next
  <2> DEFINE bad == Capped(h.bad + 1, EnterBad)
  <2>1. Debounced(h, next)
          = [degenerated |-> h.degenerated \/ bad = EnterBad, bad |-> bad, good |-> 0]
    BY <1>3 DEF Debounced
  <2>2. bad = Capped(n, EnterBad)
    <3>1. CASE raw
      <4>1. h.bad = Capped(run, EnterBad) /\ n = Capped(run + 1, EnterBad + ExitGood)
        BY <1>3, <3>1 DEF CountsOf, RunOf
      <4> QED BY <1>0, <4>1 DEF Capped
    <3>2. CASE ~raw
      <4>1. h.bad = 0 /\ n = 1
        BY <1>3, <3>2 DEF CountsOf, RunOf
      <4> QED BY <1>0, <4>1 DEF Capped
    <3> QED BY <3>1, <3>2
  <2>3. bad = EnterBad <=> n >= EnterBad
    BY <1>0, <1>1, <2>2 DEF Capped
  <2> HIDE DEF n, bad
  <2>4. /\ Debounced(h, next).bad = bad /\ Debounced(h, next).good = 0
        /\ Debounced(h, next).degenerated = (h.degenerated \/ bad = EnterBad)
    BY <2>1
  <2>5. CountsOf(Debounced(h, next), n, next)
    BY <1>3, <2>2, <2>4 DEF CountsOf
  <2>6. /\ Debounced(h, next).degenerated # h.degenerated
             => Debounced(h, next).degenerated = TRUE /\ bad = EnterBad
        /\ bad = EnterBad => Debounced(h, next).degenerated = TRUE
    BY <1>2, <2>4, Zenon
  <2> QED BY <1>3, <2>3, <2>5, <2>6 DEF n
<1>4. CASE ~next
  <2> DEFINE good == Capped(h.good + 1, ExitGood)
  <2>1. Debounced(h, next)
          = [degenerated |-> h.degenerated /\ good < ExitGood, bad |-> 0, good |-> good]
    BY <1>4 DEF Debounced
  <2>2. good = Capped(n, ExitGood)
    <3>1. CASE ~raw
      <4>1. h.good = Capped(run, ExitGood) /\ n = Capped(run + 1, EnterBad + ExitGood)
        BY <1>4, <3>1 DEF CountsOf, RunOf
      <4> QED BY <1>0, <4>1 DEF Capped
    <3>2. CASE raw
      <4>1. h.good = 0 /\ n = 1
        BY <1>4, <3>2 DEF CountsOf, RunOf
      <4> QED BY <1>0, <4>1 DEF Capped
    <3> QED BY <3>1, <3>2
  <2>3. good < ExitGood <=> ~(n >= ExitGood)
    BY <1>0, <1>1, <2>2 DEF Capped
  <2> DEFINE short == good < ExitGood
  <2>4. /\ Debounced(h, next).bad = 0 /\ Debounced(h, next).good = good
        /\ Debounced(h, next).degenerated = (h.degenerated /\ short)
    BY <2>1
  <2>5. CountsOf(Debounced(h, next), n, next)
    BY <1>4, <2>2, <2>4 DEF CountsOf
  <2> HIDE DEF n, good, short
  <2>6. /\ Debounced(h, next).degenerated # h.degenerated
             => Debounced(h, next).degenerated = FALSE /\ ~short
        /\ ~short => Debounced(h, next).degenerated = FALSE
    BY <1>2, <2>4, Zenon
  <2> QED BY <1>4, <2>3, <2>5, <2>6 DEF n, short
<1> QED BY <1>3, <1>4

LEMMA StagedBegins ==
  ASSUME StagedInv, GuardInv', BeginScan
  PROVE  StagedInv'
<1>1. /\ saved' = hyst /\ hyst' = hyst /\ scan' = NoScan /\ lpc' = "icp" /\ lpc = "idle"
      /\ config' = config /\ seen' = seen
  BY ScanBegins DEF StagedInv, GuardInv, BeginScan, Idle
<1> QED BY <1>1 DEF StagedInv, Staged, CountsOf, NoScan

LEMMA StagedEstimates ==
  ASSUME StagedInv, GuardInv', Estimate
  PROVE  StagedInv'
<1>1. /\ GivesUp \/ GoesOn \/ Validates
      /\ saved' = saved /\ config' = config /\ seen' = seen
      /\ scan \in ScanSet /\ scan' \in ScanSet
  BY EstimateStep
     DEF StagedInv, GuardInv, ScanType, Estimate, NoPlane, NumericalFailure, Iterate, Validate
<1> SUFFICES ASSUME config.observability PROVE Staged'
  BY <1>1 DEF StagedInv
<1>2. Staged
  BY DEF StagedInv
<1>3. CASE GivesUp
  BY <1>1, <1>2, <1>3 DEF Staged, GivesUp, CountsOf
<1>4. CASE GoesOn
  BY <1>1, <1>2, <1>4 DEF Staged, GoesOn, CountsOf
<1>5. CASE Validates
  BY <1>1, <1>2, <1>5 DEF Staged, Validates, CountsOf
<1> QED BY <1>1, <1>3, <1>4, <1>5

LEMMA RunAfterIs ==
  RunAfter(seen) = IF scan.commit
                   THEN [run |-> RunOf(seen.run, seen.raw, scan.raw), raw |-> scan.raw]
                   ELSE [run |-> seen.run, raw |-> seen.raw]
BY DEF RunAfter, RunOf

LEMMA StagedEnds ==
  ASSUME StagedInv, GuardInv', InsertScan
  PROVE  StagedInv'
<1> SUFFICES ASSUME config.observability PROVE Staged'
  BY DEF StagedInv, InsertScan
<1>1. Staged /\ lpc = "insert" /\ lpc' = "idle" /\ hyst' = hyst
  BY DEF StagedInv, InsertScan
<1>2. seen'.run = RunAfter(seen).run /\ seen'.raw = RunAfter(seen).raw
  BY DEF StagedInv, GuardInv, GuardType, SeenSet, InsertScan
<1>3. /\ saved \in HystSet /\ scan.raw \in BOOLEAN
      /\ seen.run \in Nat /\ seen.raw \in BOOLEAN
  BY DEF StagedInv, GuardInv, GuardType, ScanType, SeenSet, ScanSet
<1>4. CountsOf(saved, seen.run, seen.raw)
  BY <1>1 DEF Staged
<1>5. CountsOf(hyst, RunAfter(seen).run, RunAfter(seen).raw)
  <2>1. CASE scan.commit
    BY <1>1, <1>3, <1>4, <2>1, RunCounted, RunAfterIs DEF Staged
  <2>2. CASE ~scan.commit
    BY <1>1, <1>4, <2>2, RunAfterIs DEF Staged
  <2> QED BY <2>1, <2>2
<1> QED BY <1>1, <1>2, <1>5 DEF Staged, CountsOf

\* Degeneracy is debounced over committed scans alone, whatever the thresholds,
\* the iterations and the verdicts.
THEOREM DegeneracyIsDebounced == Spec => []DegeneracyDebounced
<1>1. Init => StagedInv
  <2> SUFFICES ASSUME Init PROVE StagedInv
    OBVIOUS
  <2>1. Staged
    BY LidarCountsAssumption
       DEF Init, Staged, CountsOf, NoHyst, NoHistory, Capped, LidarCountsAssumption
  <2> QED BY <2>1, GuardInitial DEF StagedInv
<1>2. StagedInv /\ [Next]_vars => StagedInv'
  <2> SUFFICES ASSUME StagedInv, [Next]_vars PROVE StagedInv'
    OBVIOUS
  <2>1. GuardInv' /\ (BeginScan \/ Estimate \/ InsertScan \/ Elsewhere)
    BY GuardStays, ScanStep DEF StagedInv, GuardInv
  <2>2. CASE BeginScan
    BY <2>1, <2>2, StagedBegins
  <2>3. CASE Estimate
    BY <2>1, <2>3, StagedEstimates
  <2>4. CASE InsertScan
    BY <2>1, <2>4, StagedEnds
  <2>5. CASE Elsewhere
    BY <2>1, <2>5 DEF StagedInv, Staged, CountsOf, Elsewhere, lidarVars
  <2> QED BY <2>1, <2>2, <2>3, <2>4, <2>5
<1>3. StagedInv => DegeneracyDebounced
  <2> SUFFICES ASSUME StagedInv, lpc = "insert", config.observability
               PROVE  LET run == RunAfter(seen).run
                      IN  IF ~scan.commit THEN hyst = saved
                          ELSE /\ hyst.degenerated # saved.degenerated
                                    => hyst.degenerated = scan.raw
                               /\ run >= (IF scan.raw THEN EnterBad ELSE ExitGood)
                                    => hyst.degenerated = scan.raw
                               /\ hyst.degenerated # saved.degenerated
                                    => run >= (IF scan.raw THEN EnterBad ELSE ExitGood)
    BY DEF DegeneracyDebounced
  <2>1. /\ saved \in HystSet /\ scan.raw \in BOOLEAN
        /\ seen.run \in Nat /\ seen.raw \in BOOLEAN
        /\ CountsOf(saved, seen.run, seen.raw)
        /\ hyst = IF scan.commit THEN Debounced(saved, scan.raw) ELSE saved
    BY DEF StagedInv, Staged, GuardInv, GuardType, ScanType, SeenSet, ScanSet
  <2>2. CASE scan.commit
    <3>1. RunAfter(seen).run = RunOf(seen.run, seen.raw, scan.raw)
      BY <2>2, RunAfterIs
    <3> QED BY <2>1, <2>2, <3>1, RunCounted
  <2>3. CASE ~scan.commit
    BY <2>1, <2>3
  <2> QED BY <2>2, <2>3
<1> QED BY <1>1, <1>2, <1>3, PTL DEF Spec

-----------------------------------------------------------------------------
(* The estimate of one image. *)

EstSet == [x : Nat, cov : Nat, pose : Nat, gain : Nat]
EkfSet == [level : Nat, it : Nat, old : Nat, oldGain : Nat,
           any : BOOLEAN, oldAny : BOOLEAN, valid : BOOLEAN]
FrSet == [gate : {"none", "normal", "relaxed", "forced", "degeneracy", "skip"},
          aruco : BOOLEAN, updated : BOOLEAN, fused : BOOLEAN, refused : BOOLEAN,
          accepted : BOOLEAN]

ImageType == est \in EstSet /\ ekf \in EkfSet /\ fr \in FrSet

Undecided == ~fr.fused /\ ~fr.refused /\ ~fr.accepted

\* A skipped image was not updated; between images the estimate is the prediction.
Resting ==
  /\ fr.gate = "skip" => vpc # "ekf" /\ ~fr.updated
  /\ vpc = "idle" => est = Before

Iterating ==
  vpc = "ekf" =>
    /\ est.gain = est.x /\ ekf.oldGain = ekf.old /\ est.cov = 0 /\ est.pose = 0
    /\ (ekf.valid \/ ekf.any) <=> est.x # 0
    /\ (ekf.valid \/ ekf.oldAny) <=> ekf.old # 0
    /\ Undecided /\ ~fr.updated

Routed ==
  vpc \in {"route", "submit"} =>
    /\ est.cov = est.gain /\ est.pose = est.x /\ est.cov = est.x
    /\ fr.updated <=> est.x # 0
    /\ Undecided

Mapped ==
  vpc \in {"settle", "generate", "observe", "prune"} =>
    /\ est.pose = est.x /\ ~fr.refused /\ ~fr.accepted
    /\ ~(fr.updated \/ fr.fused) => est.x = 0 /\ est.cov = 0

ImageInv ==
  ImageType /\ Resting /\ Iterating /\ Routed /\ Mapped /\ FrameSettled

LEMMA EstRecord ==
  ASSUME NEW x \in Nat, NEW cov \in Nat, NEW pose \in Nat, NEW gain \in Nat
  PROVE  [x |-> x, cov |-> cov, pose |-> pose, gain |-> gain] \in EstSet
BY DEF EstSet

LEMMA StartingValues == Before \in EstSet /\ NoEkf \in EkfSet /\ NoFrame \in FrSet
BY DEF Before, NoEkf, NoFrame, EstSet, EkfSet, FrSet

LEMMA SkipStep ==
  ASSUME ImageInv, config' = config, UNCHANGED <<est, ekf, fr, vpc>>
  PROVE  ImageInv'
BY DEF ImageInv, ImageType, Resting, Iterating, Routed, Mapped, FrameSettled, Undecided

LEMMA DoneWithNothing ==
  ASSUME ImageInv, vpc = "idle", config' = config, est' = est, ekf' = ekf,
         fr' = NoFrame, vpc' = "done"
  PROVE  ImageInv'
<1>1. est = Before
  BY DEF ImageInv, Resting
<1>2. ImageType'
  BY StartingValues DEF ImageInv, ImageType
<1>3. FrameSettled'
  BY <1>1 DEF FrameSettled, Before, NoFrame
<1> QED BY <1>2, <1>3 DEF ImageInv, Resting, Iterating, Routed, Mapped, NoFrame

LEMMA RetrieveStep ==
  ASSUME ImageInv, config' = config, NEW normal, NEW mode, NEW degenerated,
         vpc = "idle", Retrieve(normal, mode, degenerated)
  PROVE  ImageInv'
<1>0. PICK total : \E gate \in Gates(total, degenerated) :
        \E aruco \in (IF mode = "off" THEN {FALSE} ELSE BOOLEAN) :
          /\ fr' = [NoFrame EXCEPT !.gate = gate, !.aruco = aruco]
          /\ ekf' = [NoEkf EXCEPT !.level = Levels - 1]
          /\ vpc' = IF gate = "skip" THEN "route" ELSE "ekf"
          /\ est' = est
  BY ZenonT(40) DEF Retrieve
<1>1. PICK gate \in Gates(total, degenerated),
           aruco \in (IF mode = "off" THEN {FALSE} ELSE BOOLEAN) :
        /\ fr' = [NoFrame EXCEPT !.gate = gate, !.aruco = aruco]
        /\ ekf' = [NoEkf EXCEPT !.level = Levels - 1]
        /\ vpc' = IF gate = "skip" THEN "route" ELSE "ekf"
        /\ est' = est
  BY <1>0, Zenon
<1>2. gate \in {"normal", "relaxed", "forced", "degeneracy", "skip"}
  BY DEF Gates
<1>3. aruco \in BOOLEAN
  OBVIOUS
<1>4. fr' = [gate |-> gate, aruco |-> aruco, updated |-> FALSE, fused |-> FALSE,
             refused |-> FALSE, accepted |-> FALSE]
  BY <1>1 DEF NoFrame
<1>5. fr' \in FrSet
  BY <1>2, <1>3, <1>4 DEF FrSet
<1>6. ekf' = [level |-> Levels - 1, it |-> 0, old |-> 0, oldGain |-> 0,
              any |-> FALSE, oldAny |-> FALSE, valid |-> FALSE]
  BY <1>1 DEF NoEkf
<1>7. Levels - 1 \in Nat
  BY VisualCountsAssumption DEF VisualCountsAssumption
<1>8. ekf' \in EkfSet
  BY <1>6, <1>7 DEF EkfSet
<1>9. est' = Before
  BY <1>1 DEF ImageInv, Resting
<1>10. ImageType'
  BY <1>5, <1>8, <1>9, StartingValues DEF ImageType
<1>11. Undecided' /\ ~fr'.updated /\ fr'.gate = gate
  BY <1>4 DEF Undecided
<1>12. est'.x = 0 /\ est'.cov = 0 /\ est'.pose = 0 /\ est'.gain = 0
  BY <1>9 DEF Before
<1>13. /\ ~ekf'.valid /\ ~ekf'.any /\ ~ekf'.oldAny /\ ekf'.old = 0 /\ ekf'.oldGain = 0
  BY <1>6
<1> QED BY <1>1, <1>10, <1>11, <1>12, <1>13
        DEF ImageInv, Resting, Iterating, Routed, Mapped, FrameSettled

-----------------------------------------------------------------------------
(* The iterated update. *)

LEMMA Restores ==
  ASSUME ImageInv, config' = config, vpc = "ekf", RestoreMeasurement
  PROVE  ImageInv'
<1>1. est' = Before /\ ekf' = NoEkf /\ vpc' = "route" /\ fr' = fr
  BY DEF RestoreMeasurement
<1>2. Undecided /\ ~fr.updated
  BY DEF ImageInv, Iterating
<1>3. ImageType'
  BY <1>1, StartingValues DEF ImageInv, ImageType
<1> QED BY <1>1, <1>2, <1>3
        DEF ImageInv, Resting, Iterating, Routed, Mapped, FrameSettled, Undecided, Before

\* e is a correction with its own gain, any says whether there was one
LEMMA LevelEnds ==
  ASSUME ImageInv, config' = config, vpc = "ekf", NEW e \in EstSet, NEW any \in BOOLEAN,
         e.gain = e.x, e.cov = 0, e.pose = 0,
         (ekf.valid \/ any) <=> e.x # 0,
         EndLevel(e, any)
  PROVE  ImageInv'
<1> DEFINE valid == ekf.valid \/ any
<1>1. Undecided /\ ~fr.updated /\ est \in EstSet /\ ekf \in EkfSet /\ fr \in FrSet /\ fr.gate # "skip"
  BY DEF ImageInv, Iterating, ImageType, Resting
<1>2. /\ e.x \in Nat /\ e.gain \in Nat /\ valid \in BOOLEAN /\ ekf.level \in Nat
  BY <1>1 DEF EstSet, EkfSet
<1>3. CASE /\ ekf.level > 0 /\ est' = e
           /\ ekf' = [level |-> ekf.level - 1, it |-> 0, old |-> e.x, oldGain |-> e.gain,
                      any |-> FALSE, oldAny |-> FALSE, valid |-> valid]
           /\ UNCHANGED <<fr, vpc>>
  <2>1. ekf.level - 1 \in Nat
    BY <1>2, <1>3
  <2> HIDE DEF valid
  <2>2. ekf' \in EkfSet
    BY <1>2, <1>3, <2>1 DEF EkfSet
  <2>3. /\ ekf'.old = e.x /\ ekf'.oldGain = e.gain /\ ~ekf'.any /\ ~ekf'.oldAny
        /\ ekf'.valid = valid
    BY <1>3
  <2>4. Iterating'
    BY <1>1, <1>3, <2>3 DEF Iterating, Undecided, valid
  <2> QED BY <1>1, <1>3, <2>2, <2>4
          DEF ImageInv, ImageType, Resting, Routed, Mapped, FrameSettled
<1>4. CASE valid /\ ApplyGain(e)
  <2>1. /\ est' = [e EXCEPT !.cov = e.gain, !.pose = e.x] /\ ekf' = NoEkf
        /\ fr' = [fr EXCEPT !.updated = TRUE] /\ vpc' = "route"
    BY <1>4 DEF ApplyGain
  <2>2. est' \in EstSet
    BY <1>2, <2>1, Zenon DEF EstSet
  <2>3. est'.x = e.x /\ est'.cov = e.x /\ est'.pose = e.x /\ est'.gain = e.x
    BY <2>1 DEF EstSet
  <2>4. fr' \in FrSet
    BY <1>1, <2>1, Zenon DEF FrSet
  <2>5. fr'.updated /\ fr'.gate = fr.gate /\ Undecided'
    BY <1>1, <2>1 DEF FrSet, Undecided
  <2>6. ImageType'
    BY <2>1, <2>2, <2>4, StartingValues DEF ImageType
  <2>7. Routed'
    BY <1>4, <2>3, <2>5 DEF Routed
  <2> QED BY <1>1, <2>1, <2>5, <2>6, <2>7
          DEF ImageInv, Resting, Iterating, Mapped, FrameSettled
<1>5. CASE ~valid /\ DropGain(e)
  <2>1. /\ est' = [e EXCEPT !.gain = 0, !.pose = e.x] /\ ekf' = NoEkf
        /\ fr' = fr /\ vpc' = "route"
    BY <1>5 DEF DropGain
  <2>2. est' \in EstSet
    BY <1>2, <2>1, 0 \in Nat, Zenon DEF EstSet
  <2>3. est'.x = 0 /\ est'.cov = 0 /\ est'.pose = 0 /\ est'.gain = 0
    BY <1>5, <2>1 DEF EstSet
  <2>4. ImageType'
    BY <1>1, <2>1, <2>2, StartingValues DEF ImageType
  <2> QED BY <1>1, <2>1, <2>3, <2>4
          DEF ImageInv, Resting, Iterating, Routed, Mapped, FrameSettled, Undecided
<1> QED BY <1>3, <1>4, <1>5, Restores DEF EndLevel

LEMMA CorrectedFields ==
  ASSUME ImageInv, vpc = "ekf"
  PROVE  /\ Corrected \in EstSet
         /\ Corrected.x = est.x + 1 /\ Corrected.gain = est.x + 1
         /\ Corrected.cov = 0 /\ Corrected.pose = 0 /\ est.x \in Nat
<1>1. est \in EstSet /\ est.cov = 0 /\ est.pose = 0
  BY DEF ImageInv, ImageType, Iterating
<1>2. est.x \in Nat /\ est.x + 1 \in Nat
  BY <1>1 DEF EstSet
<1>3. Corrected \in EstSet
  BY <1>1, <1>2, Zenon DEF Corrected, EstSet
<1>4. /\ Corrected.x = est.x + 1 /\ Corrected.gain = est.x + 1
      /\ Corrected.cov = est.cov /\ Corrected.pose = est.pose
  BY <1>1 DEF Corrected, EstSet
<1> QED BY <1>1, <1>2, <1>3, <1>4

LEMMA Abandons ==
  ASSUME ImageInv, config' = config, AbandonIteration
  PROVE  ImageInv'
<1>1. vpc = "ekf" /\ EndLevel(RolledBack, ekf.oldAny)
  BY DEF AbandonIteration
<1>2. /\ est \in EstSet /\ ekf \in EkfSet /\ est.cov = 0 /\ est.pose = 0
      /\ ekf.oldGain = ekf.old /\ ((ekf.valid \/ ekf.oldAny) <=> ekf.old # 0)
  BY <1>1 DEF ImageInv, ImageType, Iterating
<1>3. ekf.old \in Nat /\ ekf.oldGain \in Nat /\ ekf.oldAny \in BOOLEAN
  BY <1>2 DEF EkfSet
<1>4. RolledBack \in EstSet
  BY <1>2, <1>3, Zenon DEF RolledBack, EstSet
<1>5. /\ RolledBack.x = ekf.old /\ RolledBack.gain = ekf.oldGain
      /\ RolledBack.cov = est.cov /\ RolledBack.pose = est.pose
  BY <1>2 DEF RolledBack, EstSet
<1>6. PICK e \in EstSet : e = RolledBack
  BY <1>4
<1>7. PICK any \in BOOLEAN : any = ekf.oldAny
  BY <1>3
<1>8. EndLevel(e, any)
  BY <1>1, <1>6, <1>7
<1>9. e.gain = e.x /\ e.cov = 0 /\ e.pose = 0 /\ ((ekf.valid \/ any) <=> e.x # 0)
  BY <1>2, <1>5, <1>6, <1>7
<1> QED BY <1>1, <1>8, <1>9, LevelEnds

LEMMA LastCorrects ==
  ASSUME ImageInv, config' = config, LastIteration
  PROVE  ImageInv'
<1>1. vpc = "ekf" /\ EndLevel(Corrected, TRUE)
  BY DEF LastIteration
<1>2. PICK e \in EstSet : e = Corrected
  BY <1>1, CorrectedFields
<1>3. e.gain = e.x /\ e.cov = 0 /\ e.pose = 0 /\ e.x # 0
  BY <1>1, <1>2, CorrectedFields
<1>4. PICK any \in BOOLEAN : any = TRUE
  OBVIOUS
<1>5. EndLevel(e, any) /\ ((ekf.valid \/ any) <=> e.x # 0)
  BY <1>1, <1>2, <1>3, <1>4
<1> QED BY <1>1, <1>3, <1>5, LevelEnds

LEMMA Applies ==
  ASSUME ImageInv, config' = config, ApplyIteration
  PROVE  ImageInv'
<1>1. /\ vpc = "ekf" /\ vpc' = vpc /\ fr' = fr /\ est' = Corrected
      /\ ekf' = [ekf EXCEPT !.it = @ + 1, !.old = est.x, !.oldGain = est.gain,
                            !.any = TRUE, !.oldAny = ekf.any]
  BY DEF ApplyIteration
<1>2. /\ est \in EstSet /\ ekf \in EkfSet /\ fr \in FrSet /\ fr.gate # "skip"
      /\ est.gain = est.x /\ ((ekf.valid \/ ekf.any) <=> est.x # 0)
      /\ Undecided /\ ~fr.updated
  BY <1>1 DEF ImageInv, ImageType, Iterating, Resting
<1>3. ekf.it + 1 \in Nat /\ est.x \in Nat /\ est.gain \in Nat /\ ekf.any \in BOOLEAN
  BY <1>2 DEF EkfSet, EstSet
<1>4. ekf' \in EkfSet
  BY <1>1, <1>2, <1>3, Zenon DEF EkfSet
<1>5. /\ ekf'.old = est.x /\ ekf'.oldGain = est.gain /\ ekf'.any
      /\ ekf'.oldAny = ekf.any /\ ekf'.valid = ekf.valid
  BY <1>1, <1>2 DEF EkfSet
<1>6. /\ est' \in EstSet /\ est'.x = est.x + 1 /\ est'.gain = est.x + 1
      /\ est'.cov = 0 /\ est'.pose = 0
  BY <1>1, CorrectedFields
<1>7. est'.x # 0
  BY <1>3, <1>6
<1>8. Iterating'
  BY <1>1, <1>2, <1>5, <1>6, <1>7 DEF Iterating, Undecided
<1> QED BY <1>1, <1>2, <1>4, <1>6, <1>8
        DEF ImageInv, ImageType, Resting, Routed, Mapped, FrameSettled

-----------------------------------------------------------------------------
(* After the update. *)

\* an image goes on to the map with an estimate that was corrected for a reason
LEMMA GoesOnToMap ==
  ASSUME config' = config, ImageType', vpc' \in {"settle", "generate", "observe", "prune"},
         est'.pose = est'.x, ~fr'.refused, ~fr'.accepted,
         ~(fr'.updated \/ fr'.fused) => est'.x = 0 /\ est'.cov = 0,
         fr'.gate = "skip" => ~fr'.updated
  PROVE  ImageInv'
BY DEF ImageInv, Resting, Iterating, Routed, Mapped, FrameSettled

LEMMA FusedFields ==
  ASSUME est \in EstSet, fr \in FrSet, Fuse
  PROVE  /\ est' \in EstSet /\ fr' \in FrSet
         /\ est'.pose = est'.x /\ fr'.fused
         /\ fr'.gate = fr.gate /\ fr'.updated = fr.updated
         /\ fr'.refused = fr.refused /\ fr'.accepted = fr.accepted
<1>1. /\ est' = [est EXCEPT !.x = @ + 1, !.cov = est.x + 1, !.pose = est.x + 1]
      /\ fr' = [fr EXCEPT !.fused = TRUE]
  BY DEF Fuse
<1>2. est.x + 1 \in Nat
  BY DEF EstSet
<1>3. est' \in EstSet
  BY <1>1, <1>2, Zenon DEF EstSet
<1>4. fr' \in FrSet
  BY <1>1, Zenon DEF FrSet
<1>5. est'.pose = est'.x
  BY <1>1 DEF EstSet
<1>6. /\ fr'.fused /\ fr'.gate = fr.gate /\ fr'.updated = fr.updated
      /\ fr'.refused = fr.refused /\ fr'.accepted = fr.accepted
  BY <1>1 DEF FrSet
<1> QED BY <1>3, <1>4, <1>5, <1>6

LEMMA RouteStep ==
  ASSUME ImageInv, config' = config, NEW mode, Route(mode)
  PROVE  ImageInv'
<1>1. /\ vpc = "route" /\ ekf' = ekf
      /\ vpc' = IF fr.gate = "skip" THEN "generate" ELSE "settle"
      /\ Fuse \/ UNCHANGED <<est, fr>>
  BY DEF Route
<1>2. /\ est \in EstSet /\ fr \in FrSet /\ ekf \in EkfSet /\ est.pose = est.x /\ est.cov = est.x
      /\ (fr.updated <=> est.x # 0) /\ ~fr.refused /\ ~fr.accepted /\ ~fr.fused
      /\ fr.gate = "skip" => ~fr.updated
  BY <1>1 DEF ImageInv, ImageType, Routed, Resting, Undecided
<1>3. CASE Fuse
  <2>1. ImageType'
    BY <1>1, <1>2, <1>3, FusedFields DEF ImageType
  <2> QED BY <1>1, <1>2, <1>3, <2>1, FusedFields, GoesOnToMap
<1>4. CASE UNCHANGED <<est, fr>>
  <2>1. ImageType'
    BY <1>1, <1>2, <1>4 DEF ImageType
  <2> QED BY <1>1, <1>2, <1>4, <2>1, GoesOnToMap
<1> QED BY <1>1, <1>3, <1>4

LEMMA SettleStep ==
  ASSUME ImageInv, config' = config, NEW guarded, Settle(guarded)
  PROVE  ImageInv'
<1>1. vpc = "settle" /\ ekf' = ekf
  BY DEF Settle
<1>2. PICK e \in Damped :
        \/ est' = e /\ vpc' = "generate" /\ UNCHANGED fr
        \/ /\ guarded /\ est' = GuardRestored(e) /\ vpc' = "done"
           /\ fr' = [fr EXCEPT !.refused = TRUE]
  BY DEF Settle
<1>3. /\ est \in EstSet /\ fr \in FrSet /\ ekf \in EkfSet /\ est.pose = est.x
      /\ ~fr.refused /\ ~fr.accepted
      /\ ~(fr.updated \/ fr.fused) => est.x = 0 /\ est.cov = 0
      /\ fr.gate = "skip" => ~fr.updated
  BY <1>1 DEF ImageInv, ImageType, Mapped, Resting
<1>4. CASE est' = e /\ vpc' = "generate" /\ UNCHANGED fr
  <2>1. /\ e \in EstSet /\ e.pose = e.x
        /\ ~(fr.updated \/ fr.fused) => e.x = 0 /\ e.cov = 0
    <3>1. CASE fr.gate = "degeneracy" /\ fr.updated
      <4>1. e = Before \/ e = [Before EXCEPT !.x = 1, !.pose = 1]
        BY <3>1 DEF Damped
      <4>2. e = Before \/ e = [x |-> 1, cov |-> 0, pose |-> 1, gain |-> 0]
        BY <4>1 DEF Before
      <4> QED BY <3>1, <4>2 DEF Before, EstSet
    <3>2. CASE ~(fr.gate = "degeneracy" /\ fr.updated)
      BY <1>3, <3>2 DEF Damped
    <3> QED BY <3>1, <3>2
  <2>2. ImageType'
    BY <1>1, <1>3, <1>4, <2>1 DEF ImageType
  <2> QED BY <1>3, <1>4, <2>1, <2>2, GoesOnToMap
<1>5. CASE /\ guarded /\ est' = GuardRestored(e) /\ vpc' = "done"
           /\ fr' = [fr EXCEPT !.refused = TRUE]
  <2>1. est' = Before
    BY <1>5 DEF GuardRestored
  <2>2. fr' \in FrSet
    BY <1>3, <1>5, Zenon DEF FrSet
  <2>3. fr'.accepted = fr.accepted /\ fr'.gate = fr.gate /\ fr'.updated = fr.updated
    BY <1>3, <1>5 DEF FrSet
  <2>4. ImageType'
    BY <1>1, <1>3, <2>1, <2>2, StartingValues DEF ImageType
  <2> QED BY <1>3, <1>5, <2>1, <2>3, <2>4
          DEF ImageInv, Resting, Iterating, Routed, Mapped, FrameSettled, Before
<1> QED BY <1>2, <1>4, <1>5

LEMMA MapStep ==
  ASSUME ImageInv, config' = config, UNCHANGED <<est, ekf, fr>>,
         vpc \in {"submit", "settle", "generate", "observe", "prune"},
         vpc' \in {"settle", "generate", "observe", "prune"}
  PROVE  ImageInv'
BY DEF ImageInv, ImageType, Resting, Iterating, Routed, Mapped, FrameSettled, Undecided

LEMMA PruneStep ==
  ASSUME ImageInv, config' = config, NEW prune, Prune(prune, config.shadow)
  PROVE  ImageInv'
<1>1. /\ vpc = "prune" /\ vpc' = "done" /\ ekf' = ekf
      /\ est' = IF config.shadow /\ ~Skipped THEN [Before EXCEPT !.gain = est.gain] ELSE est
      /\ fr' = [fr EXCEPT !.accepted = fr.updated /\ ~config.shadow]
  BY DEF Prune
<1>2. /\ est \in EstSet /\ fr \in FrSet /\ ekf \in EkfSet /\ est.pose = est.x
      /\ ~fr.refused /\ ~fr.accepted
      /\ ~(fr.updated \/ fr.fused) => est.x = 0 /\ est.cov = 0
      /\ fr.gate = "skip" => ~fr.updated
  BY <1>1 DEF ImageInv, ImageType, Mapped, Resting
<1> DEFINE accepted == fr.updated /\ ~config.shadow
<1>3. accepted \in BOOLEAN /\ fr' = [fr EXCEPT !.accepted = accepted]
  BY <1>1
<1> HIDE DEF accepted
<1>4. fr' \in FrSet
  BY <1>2, <1>3, Zenon DEF FrSet
<1>5. /\ fr'.accepted = accepted /\ fr'.gate = fr.gate /\ fr'.updated = fr.updated
      /\ fr'.fused = fr.fused /\ fr'.refused = fr.refused
  BY <1>2, <1>3 DEF FrSet
<1>6. CASE config.shadow /\ ~Skipped
  <2>1. est' = [x |-> 0, cov |-> 0, pose |-> 0, gain |-> est.gain] /\ est.gain \in Nat
    BY <1>1, <1>2, <1>6 DEF Before, EstSet
  <2>2. est' \in EstSet /\ est'.x = 0 /\ est'.cov = 0 /\ est'.pose = 0
    BY <2>1 DEF EstSet
  <2>3. ImageType'
    BY <1>1, <1>2, <1>4, <2>2 DEF ImageType
  <2> QED BY <1>1, <1>2, <1>5, <1>6, <2>2, <2>3
          DEF ImageInv, Resting, Iterating, Routed, Mapped, FrameSettled, accepted
<1>7. CASE ~(config.shadow /\ ~Skipped)
  <2>1. est' = est
    BY <1>1, <1>7
  <2>2. ImageType'
    BY <1>1, <1>2, <1>4, <2>1 DEF ImageType
  <2> QED BY <1>1, <1>2, <1>5, <1>7, <2>1, <2>2
          DEF ImageInv, Resting, Iterating, Routed, Mapped, FrameSettled, accepted, Skipped
<1> QED BY <1>6, <1>7

LEMMA CorrectStep ==
  ASSUME ImageInv, Correct
  PROVE  ImageInv'
<1>1. config' = config
  BY DEF Correct, KeepVision
<1>2. CASE RejectMeasurement
  BY <1>1, <1>2, Restores DEF RejectMeasurement
<1>3. CASE AbandonIteration
  BY <1>1, <1>3, Abandons
<1>4. CASE ApplyIteration
  BY <1>1, <1>4, Applies
<1>5. CASE LastIteration
  BY <1>1, <1>5, LastCorrects
<1>6. CASE Route(config.aruco)
  BY <1>1, <1>6, RouteStep
<1>7. CASE Settle(config.guarded)
  BY <1>1, <1>7, SettleStep
<1>8. CASE Observe
  BY <1>1, <1>8, MapStep DEF Observe
<1>9. CASE Prune(config.prune, config.shadow)
  BY <1>1, <1>9, PruneStep
<1> QED BY <1>2, <1>3, <1>4, <1>5, <1>6, <1>7, <1>8, <1>9 DEF Correct

LEMMA ImageStays ==
  ASSUME ImageInv, [Next]_vars
  PROVE  ImageInv'
<1>1. CASE BeginScan
  BY <1>1, SkipStep DEF BeginScan, visualVars
<1>2. CASE Estimate
  BY <1>2, SkipStep DEF Estimate, visualVars
<1>3. CASE InsertScan
  BY <1>3, SkipStep DEF InsertScan, visualVars
<1>4. CASE ImageWithoutSupport
  BY <1>4, DoneWithNothing DEF ImageWithoutSupport, DryRun, KeepVision, Idle
<1>5. CASE SkipImage
  BY <1>5, SkipStep DEF SkipImage, visualVars, KeepVision
<1>6. CASE ProcessImage
  <2>1. vpc = "idle" /\ config' = config /\ TakeImage(config.normal, config.aruco, Degenerated)
    BY <1>6 DEF ProcessImage, Idle, KeepVision
  <2>2. CASE RejectImage
    BY <2>1, <2>2, DoneWithNothing DEF RejectImage
  <2>3. CASE Retrieve(config.normal, config.aruco, Degenerated)
    BY <2>1, <2>3, RetrieveStep
  <2> QED BY <2>1, <2>2, <2>3 DEF TakeImage
<1>7. CASE Correct
  BY <1>7, CorrectStep
<1>8. CASE AddPoints
  <2>1. /\ vpc = "generate" /\ vpc' \in {"prune", "observe"} /\ config' = config
        /\ UNCHANGED <<est, ekf, fr>>
    BY <1>8 DEF AddPoints, Generate, KeepVision
  <2> QED BY <2>1, MapStep
<1>9. CASE FinishImage
  <2>1. /\ est' = Before /\ vpc' = "idle" /\ fr' = NoFrame /\ ekf' = ekf
    BY <1>9 DEF FinishImage
  <2>2. ImageType'
    BY <2>1, StartingValues DEF ImageInv, ImageType
  <2> QED BY <2>1, <2>2 DEF ImageInv, Resting, Iterating, Routed, Mapped, FrameSettled, NoFrame
<1>10. CASE RouteToBackend
  <2>1. /\ vpc = "route" /\ vpc' = "submit" /\ config' = config /\ UNCHANGED <<est, ekf, fr>>
    BY <1>10 DEF RouteToBackend
  <2> QED BY <2>1 DEF ImageInv, ImageType, Resting, Iterating, Routed, Mapped, FrameSettled,
                      Undecided
<1>11. CASE SubmitNext
  <2>1. vpc = "submit" /\ config' = config /\ UNCHANGED <<est, ekf, fr>>
    BY <1>11 DEF SubmitNext
  <2>2. vpc' = vpc \/ vpc' \in {"generate", "settle"}
    BY <1>11, Zenon DEF SubmitNext
  <2> QED BY <2>1, <2>2, SkipStep, MapStep
<1>12. CASE LandmarkWork
  BY <1>12, SkipStep DEF LandmarkWork, visualVars
<1>13. CASE EndProgram
  BY <1>13, SkipStep DEF EndProgram, visualVars
<1>14. CASE UNCHANGED vars
  BY <1>14, SkipStep DEF vars, visualVars
<1> QED BY <1>1, <1>2, <1>3, <1>4, <1>5, <1>6, <1>7, <1>8, <1>9, <1>10, <1>11, <1>12,
           <1>13, <1>14 DEF Next

LEMMA ImageHolds == Spec => []ImageInv
<1>1. Init => ImageInv
  <2> SUFFICES ASSUME Init PROVE ImageInv
    OBVIOUS
  <2>1. ImageType
    BY StartingValues DEF Init, ImageType
  <2> QED BY <2>1
          DEF Init, ImageInv, Resting, Iterating, Routed, Mapped, FrameSettled, NoFrame
<1>2. ImageInv /\ [Next]_vars => ImageInv'
  BY ImageStays
<1> QED BY <1>1, <1>2, PTL DEF Spec

\* The gain an iterated image update ends with belongs to the correction that
\* is kept, for any pyramid and any number of iterations, whatever is abandoned.
THEOREM GainIsOfTheState == Spec => []GainMatchesState
<1>1. ImageInv => GainMatchesState
  BY DEF ImageInv, Iterating, Routed, GainMatchesState
<1> QED BY <1>1, ImageHolds, PTL

\* What an image leaves in the estimate is what it was accepted for.
THEOREM FramesAreSettled == Spec => []FrameSettled
<1>1. ImageInv => FrameSettled
  BY DEF ImageInv
<1> QED BY <1>1, ImageHolds, PTL

-----------------------------------------------------------------------------
(* The queue of the landmark backend. *)

InputSet == [id : Nat, board : Boards, t : Nat, finite : BOOLEAN]
InboxSet ==
  [queue : Seq(InputSet), hand : Seq(InputSet), accepted : Seq(Nat), last : Nat,
   count : [Counters -> Nat], stopping : BOOLEAN,
   worker : {"waiting", "busy", "stopped"}, joined : BOOLEAN]
SightSet == [boards : Seq(Boards), next : Nat]
PoseSet == [t : Nat, obs : Seq(Nat), marks : SUBSET Boards, keyed : BOOLEAN]

LandmarkType ==
  /\ inbox \in InboxSet /\ sight \in SightSet /\ frame \in Nat
  /\ chart.poses \in Seq(PoseSet)
  /\ inbox.stopping => vpc = "idle"

\* What the image thread may do to the backend: nothing, submit, or ask to stop.
Aside ==
  /\ UNCHANGED landmarkVars
  /\ sight' \in SightSet /\ sight'.next = sight.next /\ frame' \in Nat
  /\ inbox.stopping => vpc' = "idle"

Submits(in) ==
  /\ in.id = sight.next /\ ~inbox.stopping /\ Submit(in) /\ UNCHANGED <<chart, graph>>
  /\ sight' \in SightSet /\ sight'.next = sight.next + 1 /\ frame' = frame

SubmitsOne == \E in \in InputSet : Submits(in)

LEMMA SightingsType ==
  ASSUME NEW legacy
  PROVE  Sightings(legacy) \subseteq Seq(Boards)
<1> DEFINE usable == {b \in Boards : \E v \in Views(legacy)[b] : Usable(v)}
<1>1. usable \in SUBSET Boards /\ IsFiniteSet(Boards)
  BY BoardsAssumption DEF BoardsAssumption
<1>2. Sightings(legacy) \subseteq SeqsUpTo(usable, Cardinality(usable))
  BY DEF Sightings
<1> HIDE DEF usable
<1>3. Cardinality(usable) \in Nat
  BY <1>1, FS_Subset, FS_CardinalityType
<1>4. ASSUME NEW s \in SeqsUpTo(usable, Cardinality(usable)) PROVE s \in Seq(Boards)
  <2>1. PICK k \in 0..Cardinality(usable) : s \in [1..k -> usable]
    BY DEF SeqsUpTo
  <2>2. k \in Nat
    BY <1>3
  <2> QED BY <1>1, <2>1, <2>2
<1> QED BY <1>2, <1>4

LEMMA StaysAside ==
  ASSUME LandmarkType, landmarkVars' = landmarkVars, sight' = sight, frame' = frame,
         vpc' = vpc \/ ~inbox.stopping
  PROVE  Aside
BY DEF LandmarkType, Aside

LEMMA LandmarkSteps ==
  ASSUME LandmarkType, [Next]_vars
  PROVE  \/ Aside \/ SubmitsOne
         \/ Work /\ UNCHANGED <<sight, frame, vpc>>
         \/ AskToStop /\ vpc = "idle" /\ UNCHANGED <<sight, frame, vpc>>
<1> USE DEF LandmarkType
<1>1. CASE BeginScan
  BY <1>1, StaysAside DEF BeginScan, KeepLandmarks, visualVars
<1>2. CASE Estimate
  BY <1>2, StaysAside DEF Estimate, KeepLandmarks, visualVars
<1>3. CASE InsertScan
  BY <1>3, StaysAside DEF InsertScan, KeepLandmarks, visualVars
<1>4. CASE ImageWithoutSupport
  BY <1>4, StaysAside DEF ImageWithoutSupport, DryRun, KeepVision, KeepLandmarks, Idle
<1>5. CASE SkipImage
  BY <1>5, StaysAside DEF SkipImage, KeepVision, KeepLandmarks, visualVars
<1>6. CASE ProcessImage
  <2>1. /\ ~inbox.stopping /\ UNCHANGED landmarkVars /\ sight' = sight /\ frame' = frame + 1
    BY <1>6 DEF ProcessImage, Idle, KeepVision, KeepLandmarks, TakeImage
  <2> QED BY <2>1 DEF Aside
<1>7. CASE Correct
  <2>1. UNCHANGED landmarkVars /\ sight' = sight
    BY <1>7 DEF Correct, KeepVision, KeepLandmarks
  <2>2. vpc # "idle" /\ frame' = frame
    <3>1. CASE RejectMeasurement
      BY <3>1 DEF RejectMeasurement, RestoreMeasurement
    <3>2. CASE AbandonIteration
      BY <3>2 DEF AbandonIteration, EndLevel, RestoreMeasurement, ApplyGain, DropGain
    <3>3. CASE ApplyIteration
      BY <3>3 DEF ApplyIteration
    <3>4. CASE LastIteration
      BY <3>4 DEF LastIteration, EndLevel, RestoreMeasurement, ApplyGain, DropGain
    <3>5. CASE Route(config.aruco)
      BY <3>5 DEF Route
    <3>6. CASE Settle(config.guarded)
      BY <3>6 DEF Settle
    <3>7. CASE Observe
      BY <3>7 DEF Observe
    <3>8. CASE Prune(config.prune, config.shadow)
      BY <3>8 DEF Prune
    <3> QED BY <1>7, <3>1, <3>2, <3>3, <3>4, <3>5, <3>6, <3>7, <3>8 DEF Correct
  <2> QED BY <2>1, <2>2, StaysAside
<1>8. CASE AddPoints
  BY <1>8, StaysAside DEF AddPoints, Generate, KeepVision, KeepLandmarks
<1>9. CASE FinishImage
  BY <1>9, StaysAside DEF FinishImage, KeepVision, KeepLandmarks
<1>10. CASE RouteToBackend
  <2>1. /\ vpc = "route" /\ UNCHANGED landmarkVars /\ frame' = frame
    BY <1>10 DEF RouteToBackend
  <2>2. PICK boards \in Sightings(config.sameId) : sight' = [sight EXCEPT !.boards = boards]
    BY <1>10 DEF RouteToBackend
  <2>3. boards \in Seq(Boards)
    BY SightingsType
  <2>4. sight' \in SightSet
    BY <2>2, <2>3, Zenon DEF SightSet
  <2>5. sight'.next = sight.next
    BY <2>2 DEF SightSet
  <2> QED BY <2>1, <2>4, <2>5 DEF Aside
<1>11. CASE SubmitNext
  <2>1. vpc = "submit" /\ UNCHANGED <<frame, chart, graph>>
    BY <1>11 DEF SubmitNext
  <2>2. CASE sight.boards = <<>>
    BY <1>11, <2>1, <2>2, StaysAside DEF SubmitNext, landmarkVars
  <2>3. CASE sight.boards # <<>>
    <3>1. PICK finite \in BOOLEAN :
            Submit([id |-> sight.next, board |-> Head(sight.boards), t |-> frame,
                    finite |-> finite])
      BY <1>11, <2>3, Zenon DEF SubmitNext
    <3>2. sight' = [boards |-> Tail(sight.boards), next |-> sight.next + 1]
      BY <1>11, <2>3, Zenon DEF SubmitNext
    <3>3. sight.boards \in Seq(Boards) /\ sight.next \in Nat
      BY DEF SightSet
    <3>4. Head(sight.boards) \in Boards /\ Tail(sight.boards) \in Seq(Boards)
      BY <2>3, <3>3, HeadTailProperties
    <3>5. PICK in \in InputSet :
            in = [id |-> sight.next, board |-> Head(sight.boards), t |-> frame,
                  finite |-> finite]
      BY <3>3, <3>4, Zenon DEF InputSet
    <3>6. in.id = sight.next /\ Submit(in)
      BY <3>1, <3>5
    <3>7. sight' \in SightSet /\ sight'.next = sight.next + 1
      BY <3>2, <3>3, <3>4 DEF SightSet
    <3> QED BY <2>1, <3>6, <3>7 DEF SubmitsOne, Submits
  <2> QED BY <2>2, <2>3
<1>12. CASE LandmarkWork
  BY <1>12 DEF LandmarkWork, visualVars
<1>13. CASE EndProgram
  BY <1>13 DEF EndProgram, visualVars, Idle
<1>14. CASE UNCHANGED vars
  BY <1>14, StaysAside DEF vars, visualVars
<1> QED BY <1>1, <1>2, <1>3, <1>4, <1>5, <1>6, <1>7, <1>8, <1>9, <1>10, <1>11, <1>12,
           <1>13, <1>14 DEF Next

\* submit, as it leaves the queue: one input more or none
CountedIn(b, c) == IF c \in Counters THEN [b EXCEPT !.count[c] = @ + 1] ELSE b

LEMMA CountedFields ==
  ASSUME NEW b \in InboxSet, NEW c \in Counters
  PROVE  /\ CountedIn(b, c) \in InboxSet
         /\ CountedIn(b, c).count = [b.count EXCEPT ![c] = @ + 1]
         /\ CountedIn(b, c).queue = b.queue /\ CountedIn(b, c).hand = b.hand
         /\ CountedIn(b, c).accepted = b.accepted /\ CountedIn(b, c).last = b.last
         /\ CountedIn(b, c).stopping = b.stopping /\ CountedIn(b, c).worker = b.worker
         /\ CountedIn(b, c).joined = b.joined
<1>1. CountedIn(b, c) = [b EXCEPT !.count = [b.count EXCEPT ![c] = @ + 1]]
  BY DEF CountedIn
<1> DEFINE count == [b.count EXCEPT ![c] = @ + 1]
<1>2. count \in [Counters -> Nat]
  BY DEF InboxSet
<1>3. CountedIn(b, c) = [b EXCEPT !.count = count]
  BY <1>1
<1> HIDE DEF count
<1>4. CountedIn(b, c) \in InboxSet
  BY <1>2, <1>3, Zenon DEF InboxSet
<1>5. /\ CountedIn(b, c).count = count
      /\ CountedIn(b, c).queue = b.queue /\ CountedIn(b, c).hand = b.hand
      /\ CountedIn(b, c).accepted = b.accepted /\ CountedIn(b, c).last = b.last
      /\ CountedIn(b, c).stopping = b.stopping /\ CountedIn(b, c).worker = b.worker
      /\ CountedIn(b, c).joined = b.joined
  BY <1>3 DEF InboxSet
<1> QED BY <1>4, <1>5 DEF count

Reasons == {"invalid", "duplicate", "late", "overflow"}

LEMMA SubmitFields ==
  ASSUME inbox \in InboxSet, NEW in \in InputSet, ~inbox.stopping, Submit(in)
  PROVE  /\ inbox' \in InboxSet
         /\ inbox'.hand = inbox.hand /\ inbox'.stopping = inbox.stopping
         /\ inbox'.worker = inbox.worker /\ inbox'.joined = inbox.joined
         /\ \/ /\ inbox'.queue = inbox.queue /\ inbox'.accepted = inbox.accepted
               /\ inbox'.last = inbox.last
               /\ \E c \in Reasons :
                    inbox'.count = [inbox.count EXCEPT !["submitted"] = @ + 1, ![c] = @ + 1]
            \/ /\ inbox'.queue = Append(inbox.queue, in)
               /\ inbox'.accepted = Append(inbox.accepted, in.id)
               /\ inbox'.last = in.t /\ in.t >= inbox.last
               /\ inbox'.count = [inbox.count EXCEPT !["submitted"] = @ + 1]
<1> DEFINE one == CountedIn(inbox, "submitted")
           reason == Refusal(in)
           box == CountedIn(one, reason)
<1>1. inbox' = IF reason # "none" THEN box
               ELSE [box EXCEPT !.queue = Append(@, in), !.last = in.t,
                                !.accepted = Append(@, in.id)]
  BY Zenon DEF Submit, CountedIn
<1>2. reason \in Reasons \cup {"none"} /\ (reason = "none" => ~(in.t < inbox.last))
  BY DEF Refusal, Reasons
<1>3. /\ one \in InboxSet /\ one.count = [inbox.count EXCEPT !["submitted"] = @ + 1]
      /\ one.queue = inbox.queue /\ one.hand = inbox.hand
      /\ one.accepted = inbox.accepted /\ one.last = inbox.last
      /\ one.stopping = inbox.stopping /\ one.worker = inbox.worker
      /\ one.joined = inbox.joined
  BY CountedFields DEF Counters
<1> HIDE DEF one, reason
<1>4. CASE reason # "none"
  <2>1. PICK c \in Reasons : c = reason
    BY <1>2, <1>4
  <2>2. c \in Counters
    BY DEF Counters, Reasons
  <2>3. /\ box \in InboxSet /\ box.count = [one.count EXCEPT ![c] = @ + 1]
        /\ box.queue = one.queue /\ box.hand = one.hand
        /\ box.accepted = one.accepted /\ box.last = one.last
        /\ box.stopping = one.stopping /\ box.worker = one.worker
        /\ box.joined = one.joined
    BY <1>3, <2>1, <2>2, CountedFields
  <2>4. inbox' = box
    BY <1>1, <1>4
  <2> HIDE DEF box
  <2>5. inbox'.count = [inbox.count EXCEPT !["submitted"] = @ + 1, ![c] = @ + 1]
    BY <1>3, <2>3, <2>4
  <2> QED BY <1>3, <2>3, <2>4, <2>5
<1>5. CASE reason = "none"
  <2>1. box = one
    BY <1>5 DEF CountedIn, Counters
  <2>2. inbox' = [one EXCEPT !.queue = Append(one.queue, in), !.last = in.t,
                             !.accepted = Append(one.accepted, in.id)]
    BY <1>1, <1>5, <2>1
  <2>3. /\ one.queue \in Seq(InputSet) /\ one.accepted \in Seq(Nat)
        /\ in.t \in Nat /\ in.id \in Nat /\ inbox.last \in Nat
    BY <1>3 DEF InboxSet, InputSet
  <2>4. /\ Append(one.queue, in) \in Seq(InputSet)
        /\ Append(one.accepted, in.id) \in Seq(Nat)
    BY <2>3, AppendProperties
  <2>5. inbox' \in InboxSet
    BY <1>3, <2>2, <2>3, <2>4, Zenon DEF InboxSet
  <2>6. /\ inbox'.queue = Append(one.queue, in) /\ inbox'.last = in.t
        /\ inbox'.accepted = Append(one.accepted, in.id)
        /\ inbox'.hand = one.hand /\ inbox'.count = one.count
        /\ inbox'.stopping = one.stopping /\ inbox'.worker = one.worker
        /\ inbox'.joined = one.joined
    BY <1>3, <2>2 DEF InboxSet
  <2>7. in.t >= inbox.last
    BY <1>2, <1>5, <2>3
  <2> QED BY <1>3, <2>5, <2>6, <2>7
<1> QED BY <1>4, <1>5

-----------------------------------------------------------------------------
(* What the worker does, field by field. *)

LEMMA PopFields ==
  ASSUME inbox \in InboxSet, Pop
  PROVE  /\ inbox' \in InboxSet /\ UNCHANGED <<chart, graph>>
         /\ inbox.worker = "waiting" /\ inbox'.worker = "busy" /\ inbox.queue # <<>>
         /\ inbox'.hand = <<inbox.queue[1]>> /\ inbox'.queue = Tail(inbox.queue)
         /\ inbox'.accepted = inbox.accepted /\ inbox'.last = inbox.last
         /\ inbox'.count = inbox.count /\ inbox'.stopping = inbox.stopping
         /\ inbox'.joined = inbox.joined
<1>1. /\ inbox' = [inbox EXCEPT !.hand = <<Head(inbox.queue)>>, !.queue = Tail(inbox.queue),
                                !.worker = "busy"]
      /\ UNCHANGED <<chart, graph>> /\ inbox.worker = "waiting" /\ inbox.queue # <<>>
  BY DEF Pop
<1>2. inbox.queue \in Seq(InputSet)
  BY DEF InboxSet
<1>3. Head(inbox.queue) \in InputSet /\ Tail(inbox.queue) \in Seq(InputSet)
  BY <1>1, <1>2, HeadTailProperties
<1>4. <<Head(inbox.queue)>> \in Seq(InputSet) /\ Head(inbox.queue) = inbox.queue[1]
  BY <1>2, <1>3
<1>5. inbox' \in InboxSet
  BY <1>1, <1>3, <1>4, Zenon DEF InboxSet
<1>6. /\ inbox'.hand = <<Head(inbox.queue)>> /\ inbox'.queue = Tail(inbox.queue)
      /\ inbox'.worker = "busy"
      /\ inbox'.accepted = inbox.accepted /\ inbox'.last = inbox.last
      /\ inbox'.count = inbox.count /\ inbox'.stopping = inbox.stopping
      /\ inbox'.joined = inbox.joined
  BY <1>1 DEF InboxSet
<1> QED BY <1>1, <1>4, <1>5, <1>6

\* leaving, joining and being asked to stop change one field each
LEMMA OtherFields ==
  ASSUME inbox \in InboxSet, Leave \/ Join \/ AskToStop
  PROVE  /\ inbox' \in InboxSet /\ UNCHANGED <<chart, graph>>
         /\ inbox'.hand = inbox.hand /\ inbox'.queue = inbox.queue
         /\ inbox'.accepted = inbox.accepted /\ inbox'.last = inbox.last
         /\ inbox'.count = inbox.count
         /\ \/ /\ inbox.stopping /\ inbox.worker = "waiting" /\ inbox.queue = <<>>
               /\ inbox'.worker = "stopped" /\ inbox'.stopping = inbox.stopping
               /\ inbox'.joined = inbox.joined
            \/ /\ inbox.worker = "stopped" /\ inbox'.worker = inbox.worker
               /\ inbox.stopping /\ inbox'.stopping = inbox.stopping
            \/ /\ inbox'.stopping /\ inbox'.worker = inbox.worker
               /\ inbox'.joined = inbox.joined
<1>1. CASE Leave
  <2>1. /\ inbox' = [inbox EXCEPT !.worker = "stopped"] /\ UNCHANGED <<chart, graph>>
        /\ inbox.stopping /\ inbox.worker = "waiting" /\ inbox.queue = <<>>
    BY <1>1 DEF Leave
  <2>2. inbox' \in InboxSet
    BY <2>1, Zenon DEF InboxSet
  <2> QED BY <2>1, <2>2 DEF InboxSet
<1>2. CASE Join
  <2>1. /\ inbox' = [inbox EXCEPT !.joined = TRUE] /\ UNCHANGED <<chart, graph>>
        /\ inbox.stopping /\ inbox.worker = "stopped"
    BY <1>2 DEF Join
  <2>2. inbox' \in InboxSet
    BY <2>1, Zenon DEF InboxSet
  <2> QED BY <2>1, <2>2 DEF InboxSet
<1>3. CASE AskToStop
  <2>1. inbox' = [inbox EXCEPT !.stopping = TRUE] /\ UNCHANGED <<chart, graph>>
    BY <1>3 DEF AskToStop
  <2>2. inbox' \in InboxSet
    BY <2>1, Zenon DEF InboxSet
  <2> QED BY <2>1, <2>2 DEF InboxSet
<1> QED BY <1>1, <1>2, <1>3

\* an input joins the last keypose or founds the next one
Extended(poses, in, created, keyed) ==
  /\ poses' \in Seq(PoseSet)
  /\ Len(poses') = IF created THEN Len(poses) + 1 ELSE Len(poses)
  /\ Len(poses') >= 1
  /\ \A j \in 1..Len(poses') : j # Len(poses') => poses'[j] = poses[j]
  /\ poses'[Len(poses')].obs
       = IF created THEN <<in.id>> ELSE Append(poses[Len(poses)].obs, in.id)
  /\ poses'[Len(poses')].marks
       = IF created THEN {in.board} ELSE poses[Len(poses)].marks \cup {in.board}
  /\ poses'[Len(poses')].keyed
       <=> keyed \/ (~created /\ poses[Len(poses)].keyed)

LEMMA PosesWithFields ==
  ASSUME chart.poses \in Seq(PoseSet), NEW in \in InputSet, NEW created \in BOOLEAN,
         ~created => Keys > 0
  PROVE  LET new == PosesWith(in, created)
         IN  /\ new \in Seq(PoseSet)
             /\ Len(new) = (IF created THEN Keys + 1 ELSE Keys) /\ Len(new) \in Nat \ {0}
             /\ \A j \in 1..Len(new) : j # Len(new) => new[j] = chart.poses[j]
             /\ new[Len(new)].obs
                  = IF created THEN <<in.id>> ELSE Append(LastPose.obs, in.id)
             /\ new[Len(new)].marks
                  = IF created THEN {in.board} ELSE LastPose.marks \cup {in.board}
             /\ new[Len(new)].keyed = (~created /\ LastPose.keyed)
<1>0. Keys \in Nat /\ in.id \in Nat /\ in.t \in Nat /\ in.board \in Boards
  BY DEF Keys, InputSet
<1>1. CASE created
  <2> DEFINE pose == [t |-> in.t, obs |-> <<in.id>>, marks |-> {in.board}, keyed |-> FALSE]
  <2>0. <<in.id>> \in Seq(Nat) /\ {in.board} \in SUBSET Boards /\ FALSE \in BOOLEAN
    BY <1>0
  <2>1. PICK p \in PoseSet : p = pose
    BY <1>0, <2>0, Zenon DEF PoseSet
  <2>2. PosesWith(in, created) = Append(chart.poses, p)
    BY <1>1, <2>1 DEF PosesWith
  <2>3. /\ Append(chart.poses, p) \in Seq(PoseSet)
        /\ Len(Append(chart.poses, p)) = Keys + 1
        /\ \A i \in 1..Keys : Append(chart.poses, p)[i] = chart.poses[i]
        /\ Append(chart.poses, p)[Keys + 1] = p
    BY AppendProperties DEF Keys
  <2>4. p.obs = <<in.id>> /\ p.marks = {in.board} /\ p.keyed = FALSE
    BY <2>1
  <2>5. \A j \in 1..(Keys + 1) : j # Keys + 1 => j \in 1..Keys
    BY <1>0
  <2>6. PICK new : new = PosesWith(in, created)
    OBVIOUS
  <2>7. new \in Seq(PoseSet) /\ Len(new) = Keys + 1 /\ new[Keys + 1] = p
    BY <2>2, <2>3, <2>6
  <2>8. \A j \in 1..Len(new) : j # Len(new) => new[j] = chart.poses[j]
    BY <2>2, <2>3, <2>5, <2>6, <2>7
  <2>9. Len(new) \in Nat \ {0}
    BY <1>0, <2>7
  <2> QED BY <1>1, <2>4, <2>6, <2>7, <2>8, <2>9
<1>2. CASE ~created
  <2>1. Keys \in 1..Len(chart.poses)
    BY <1>0, <1>2 DEF Keys
  <2>2. LastPose \in PoseSet
    BY <2>1, ElementOfSeq DEF LastPose
  <2>3. LastPose.obs \in Seq(Nat) /\ LastPose.marks \in SUBSET Boards
    BY <2>2 DEF PoseSet
  <2>4. Append(LastPose.obs, in.id) \in Seq(Nat) /\ LastPose.marks \cup {in.board} \in SUBSET Boards
    BY <1>0, <2>3, AppendProperties
  <2>5. PICK p : p = JoinedBy(LastPose, in)
    OBVIOUS
  <2>6. p = [LastPose EXCEPT !.obs = Append(LastPose.obs, in.id),
                             !.marks = LastPose.marks \cup {in.board}]
    BY <2>5 DEF JoinedBy
  <2>7. p \in PoseSet
    BY <2>2, <2>4, <2>6, Zenon DEF PoseSet
  <2>8. /\ p.obs = Append(LastPose.obs, in.id) /\ p.marks = LastPose.marks \cup {in.board}
        /\ p.keyed = LastPose.keyed
    BY <2>2, <2>6 DEF PoseSet
  <2>9. PosesWith(in, created) = [chart.poses EXCEPT ![Keys] = p]
    BY <1>2, <2>5 DEF PosesWith, LastPose
  <2>10. /\ [chart.poses EXCEPT ![Keys] = p] \in Seq(PoseSet)
         /\ Len([chart.poses EXCEPT ![Keys] = p]) = Keys
         /\ \A j \in 1..Keys : [chart.poses EXCEPT ![Keys] = p][j]
                                  = IF j = Keys THEN p ELSE chart.poses[j]
    BY <2>1, <2>7, ExceptSeq DEF Keys
  <2>11. LastPose.keyed \in BOOLEAN /\ Keys \in Nat \ {0}
    BY <1>0, <1>2, <2>2 DEF PoseSet
  <2> QED BY <1>2, <2>8, <2>9, <2>10, <2>11
<1> QED BY <1>1, <1>2

\* One input processed: what becomes of the keyposes, the landmark and the graph.
Processes(in, created, far, definite, throws) ==
  LET k  == Len(PosesWith(in, created))
      up == Updated(k, created /\ k > 1, in, Sighted(in).episode,
                    created \/ Coalesces(in, far), definite, throws)
  IN  /\ graph' = up.graph
      /\ chart'.poses = [PosesWith(in, created) EXCEPT ![k].keyed =
                            @ \/ (up.ok /\ k \in up.graph.keys)]
      /\ chart'.marks = Placed(chart.marks, in.board,
                               [Sighted(in) EXCEPT !.keyed =
                                   @ \/ (up.ok /\ in.board \in up.graph.marks)])
      /\ chart'.episodes = chart.episodes + (IF NewEpisode(in) THEN 1 ELSE 0)

LEMMA ProcessFields ==
  ASSUME inbox \in InboxSet, chart.poses \in Seq(PoseSet), Len(inbox.hand) = 1, Process
  PROVE  /\ inbox' \in InboxSet /\ inbox.worker = "busy" /\ inbox'.worker = "waiting"
         /\ inbox'.hand = <<>> /\ inbox'.queue = inbox.queue
         /\ inbox'.accepted = inbox.accepted /\ inbox'.last = inbox.last
         /\ inbox'.count = [inbox.count EXCEPT !["processed"] = @ + 1]
         /\ inbox'.stopping = inbox.stopping /\ inbox'.joined = inbox.joined
         /\ inbox.hand[1] \in InputSet
         /\ \E created, definite, throws \in BOOLEAN : \E far :
              /\ ~created => Keys > 0
              /\ Processes(inbox.hand[1], created, far, definite, throws)
<1> DEFINE in == inbox.hand[1]
<1>1. inbox.hand \in Seq(InputSet)
  BY DEF InboxSet
<1>2. in \in InputSet
  BY <1>1, ElementOfSeq
<1>3. PICK far \in Distances(in), definite \in BOOLEAN, throws \in BOOLEAN :
         LET created == ~Coalesces(in, far) /\ Creates(in, far)
             poses   == PosesWith(in, created)
             mark    == Sighted(in)
             k       == Len(poses)
             up      == Updated(k, created /\ k > 1, in, mark.episode,
                                created \/ Coalesces(in, far), definite, throws)
         IN  /\ graph' = up.graph
             /\ chart' = [marks |-> Placed(chart.marks, in.board,
                                      [mark EXCEPT !.keyed =
                                         @ \/ (up.ok /\ in.board \in up.graph.marks)]),
                          poses |-> [poses EXCEPT ![k].keyed =
                                       @ \/ (up.ok /\ k \in up.graph.keys)],
                          episodes |-> chart.episodes + (IF NewEpisode(in) THEN 1 ELSE 0)]
  BY Zenon DEF Process
<1> DEFINE made == ~Coalesces(in, far) /\ Creates(in, far)
<1>4. PICK created \in BOOLEAN : created = made
  OBVIOUS
<1>5. ~created => Keys > 0
  <2>1. Coalesces(in, far) => Keys > 0
    BY DEF Coalesces
  <2>2. Keys = 0 => Creates(in, far)
    BY DEF Creates
  <2>3. Keys \in Nat
    BY DEF Keys
  <2>4. ~created => Coalesces(in, far) \/ ~Creates(in, far)
    BY <1>4, Zenon
  <2>5. Coalesces(in, far) \/ ~Creates(in, far) => Keys > 0
    BY <2>1, <2>2, <2>3
  <2> QED BY <2>4, <2>5
<1>6. Processes(in, created, far, definite, throws)
  <2>1. LET k  == Len(PosesWith(in, created))
            up == Updated(k, created /\ k > 1, in, Sighted(in).episode,
                          created \/ Coalesces(in, far), definite, throws)
        IN  /\ graph' = up.graph
            /\ chart' = [marks |-> Placed(chart.marks, in.board,
                                      [Sighted(in) EXCEPT !.keyed =
                                         @ \/ (up.ok /\ in.board \in up.graph.marks)]),
                         poses |-> [PosesWith(in, created) EXCEPT ![k].keyed =
                                       @ \/ (up.ok /\ k \in up.graph.keys)],
                         episodes |-> chart.episodes + (IF NewEpisode(in) THEN 1 ELSE 0)]
    BY <1>3, <1>4, Zenon
  <2> QED BY <2>1, Zenon DEF Processes
<1>7. /\ inbox' = [inbox EXCEPT !.hand = <<>>, !.worker = "waiting", !.count["processed"] = @ + 1]
      /\ inbox.worker = "busy"
  BY DEF Process
<1> DEFINE count == [inbox.count EXCEPT !["processed"] = @ + 1]
<1>8. count \in [Counters -> Nat] /\ <<>> \in Seq(InputSet)
  BY DEF InboxSet, Counters
<1>9. inbox' = [inbox EXCEPT !.hand = <<>>, !.worker = "waiting", !.count = count]
  BY <1>7
<1> HIDE DEF count
<1>10. inbox' \in InboxSet
  BY <1>8, <1>9, Zenon DEF InboxSet
<1>11. /\ inbox'.hand = <<>> /\ inbox'.worker = "waiting" /\ inbox'.count = count
       /\ inbox'.queue = inbox.queue /\ inbox'.accepted = inbox.accepted
       /\ inbox'.last = inbox.last /\ inbox'.stopping = inbox.stopping
       /\ inbox'.joined = inbox.joined
  BY <1>9 DEF InboxSet
<1> QED BY <1>2, <1>5, <1>6, <1>7, <1>10, <1>11 DEF count

LEMMA ProcessedPoses ==
  ASSUME chart.poses \in Seq(PoseSet), NEW in \in InputSet, NEW created \in BOOLEAN,
         NEW far, NEW definite, NEW throws, ~created => Keys > 0,
         Processes(in, created, far, definite, throws)
  PROVE  \E keyed \in BOOLEAN :
           /\ Extended(chart.poses, in, created, keyed)
           /\ keyed => Keys' \in graph'.keys
<1> DEFINE new == PosesWith(in, created)
           k   == Len(new)
           up  == Updated(k, created /\ k > 1, in, Sighted(in).episode,
                          created \/ Coalesces(in, far), definite, throws)
           made == up.ok /\ k \in up.graph.keys
<1>1. /\ new \in Seq(PoseSet)
      /\ Len(new) = (IF created THEN Keys + 1 ELSE Keys) /\ Len(new) \in Nat \ {0}
      /\ \A j \in 1..Len(new) : j # Len(new) => new[j] = chart.poses[j]
      /\ new[Len(new)].obs = IF created THEN <<in.id>> ELSE Append(LastPose.obs, in.id)
      /\ new[Len(new)].marks
           = IF created THEN {in.board} ELSE LastPose.marks \cup {in.board}
      /\ new[Len(new)].keyed = (~created /\ LastPose.keyed)
  BY PosesWithFields
<1>2. graph' = up.graph /\ chart'.poses = [new EXCEPT ![k].keyed = @ \/ made]
  BY Zenon DEF Processes
<1>3. PICK keyed \in BOOLEAN : keyed = made
  OBVIOUS
<1>4. keyed => k \in graph'.keys
  BY <1>2, <1>3
<1> HIDE DEF new, up, made
<1>5. new[k] \in PoseSet /\ k \in 1..Len(new)
  BY <1>1, ElementOfSeq
<1> DEFINE flag == new[k].keyed \/ keyed
<1>6. flag \in BOOLEAN
  OBVIOUS
<1>7. chart'.poses = [new EXCEPT ![k] = [new[k] EXCEPT !.keyed = flag]]
  BY <1>2, <1>3, <1>5
<1> HIDE DEF flag
<1>8. PICK p : p = [new[k] EXCEPT !.keyed = flag]
  OBVIOUS
<1>9. p \in PoseSet
  BY <1>5, <1>6, <1>8, Zenon DEF PoseSet
<1>10. p.obs = new[k].obs /\ p.marks = new[k].marks /\ p.keyed = flag
  BY <1>5, <1>8 DEF PoseSet
<1>11. chart'.poses = [new EXCEPT ![k] = p]
  BY <1>7, <1>8
<1>12. /\ [new EXCEPT ![k] = p] \in Seq(PoseSet)
       /\ Len([new EXCEPT ![k] = p]) = Len(new)
       /\ \A j \in 1..Len(new) : [new EXCEPT ![k] = p][j] = IF j = k THEN p ELSE new[j]
  BY <1>1, <1>5, <1>9, ExceptSeq
<1>13. /\ chart'.poses \in Seq(PoseSet) /\ Len(chart'.poses) = k
       /\ \A j \in 1..k : chart'.poses[j] = IF j = k THEN p ELSE new[j]
  BY <1>11, <1>12
<1>14. Keys' = k
  BY <1>13 DEF Keys
<1>15. p.keyed <=> keyed \/ (~created /\ LastPose.keyed)
  BY <1>1, <1>10 DEF flag
<1>16. chart'.poses[k] = p
  BY <1>5, <1>13
<1>17. \A j \in 1..k : j # k => chart'.poses[j] = chart.poses[j]
  BY <1>1, <1>13
<1>18. k >= 1 /\ k = (IF created THEN Len(chart.poses) + 1 ELSE Len(chart.poses))
  BY <1>1 DEF Keys
<1>19. Extended(chart.poses, in, created, keyed)
  BY <1>1, <1>10, <1>13, <1>15, <1>16, <1>17, <1>18 DEF Extended, LastPose, Keys
<1> QED BY <1>4, <1>14, <1>19

-----------------------------------------------------------------------------
(* The poses of the chart and the inputs they record. *)

\* the ids the keyposes record, and their order
ObsOf(poses) ==
  UNION {{poses[k].obs[i] : i \in DOMAIN poses[k].obs} : k \in 1..Len(poses)}

Ascending(poses) ==
  \A k, j \in 1..Len(poses) : \A i \in DOMAIN poses[k].obs, l \in DOMAIN poses[j].obs :
    (k < j \/ (k = j /\ i < l)) => poses[k].obs[i] < poses[j].obs[l]

LEMMA ExtendedEntries ==
  ASSUME chart.poses \in Seq(PoseSet), NEW in \in InputSet, NEW created \in BOOLEAN,
         ~created => Keys > 0, NEW keyed, Extended(chart.poses, in, created, keyed)
  PROVE  /\ \A k \in 1..Keys' : \A i \in DOMAIN chart'.poses[k].obs :
              \/ /\ k \in 1..Keys /\ i \in DOMAIN chart.poses[k].obs
                 /\ chart'.poses[k].obs[i] = chart.poses[k].obs[i]
              \/ /\ k = Keys' /\ chart'.poses[k].obs[i] = in.id
                 /\ \A l \in DOMAIN chart'.poses[k].obs : l <= i
         /\ \A k \in 1..Keys : \A i \in DOMAIN chart.poses[k].obs :
              /\ k \in 1..Keys' /\ i \in DOMAIN chart'.poses[k].obs
              /\ chart'.poses[k].obs[i] = chart.poses[k].obs[i]
         /\ \E i \in DOMAIN chart'.poses[Keys'].obs : chart'.poses[Keys'].obs[i] = in.id
         /\ Keys' \in Nat \ {0}
<1> DEFINE old == chart.poses
           new == chart'.poses
           n   == Len(new)
<1>0. Keys \in Nat /\ in.id \in Nat /\ Keys = Len(old) /\ Keys' = n
  BY DEF Keys, InputSet
<1>1. /\ n = (IF created THEN Keys + 1 ELSE Keys) /\ n \in Nat \ {0}
      /\ \A j \in 1..n : j # n => new[j] = old[j]
      /\ new[n].obs = IF created THEN <<in.id>> ELSE Append(old[Keys].obs, in.id)
  BY <1>0 DEF Extended
<1>2. \A k \in 1..n : k # n => k \in 1..Keys /\ new[k] = old[k]
  BY <1>0, <1>1
<1>3. \A k \in 1..Keys : k \in 1..n /\ (k # n => new[k] = old[k]) /\ (created => k # n)
  BY <1>0, <1>1
<1>4. /\ \A i \in DOMAIN new[n].obs :
           \/ /\ ~created /\ i \in DOMAIN old[n].obs /\ new[n].obs[i] = old[n].obs[i]
           \/ new[n].obs[i] = in.id /\ \A l \in DOMAIN new[n].obs : l <= i
      /\ ~created => \A i \in DOMAIN old[n].obs :
                       i \in DOMAIN new[n].obs /\ new[n].obs[i] = old[n].obs[i]
      /\ \E i \in DOMAIN new[n].obs : new[n].obs[i] = in.id
  <2>1. CASE created
    <3>1. new[n].obs = <<in.id>>
      BY <1>1, <2>1
    <3> HIDE DEF new, n
    <3> QED BY <2>1, <3>1
  <2>2. CASE ~created
    <3>1. Keys \in 1..Len(old) /\ n = Keys
      BY <1>0, <1>1, <2>2
    <3>2. old[Keys] \in PoseSet
      BY <3>1, ElementOfSeq
    <3>3. PICK s \in Seq(Nat) : s = old[Keys].obs
      BY <3>2 DEF PoseSet
    <3>4. new[n].obs = Append(s, in.id)
      BY <1>1, <2>2, <3>3
    <3>5. /\ Len(Append(s, in.id)) = Len(s) + 1 /\ Append(s, in.id) \in Seq(Nat)
          /\ \A i \in 1..Len(s) : Append(s, in.id)[i] = s[i]
          /\ Append(s, in.id)[Len(s) + 1] = in.id
      BY <1>0, AppendProperties
    <3>6. /\ Len(s) \in Nat /\ DOMAIN s = 1..Len(s)
          /\ DOMAIN Append(s, in.id) = 1..(Len(s) + 1)
      BY <3>5
    <3>7. \A i \in 1..(Len(s) + 1) : i \in 1..Len(s) \/ i = Len(s) + 1
      BY <3>6
    <3>8. \A l \in 1..(Len(s) + 1) : l <= Len(s) + 1
      BY <3>6
    <3>9. 1..Len(s) \subseteq 1..(Len(s) + 1) /\ Len(s) + 1 \in 1..(Len(s) + 1)
      BY <3>6
    <3>10. old[n].obs = s
      BY <3>1, <3>3
    <3> HIDE DEF new, n, old
    <3> QED BY <2>2, <3>4, <3>5, <3>6, <3>7, <3>8, <3>9, <3>10
  <2> QED BY <2>1, <2>2
<1> HIDE DEF new, n, old
<1>5. \A k \in 1..n : \A i \in DOMAIN new[k].obs :
        \/ k \in 1..Keys /\ i \in DOMAIN old[k].obs /\ new[k].obs[i] = old[k].obs[i]
        \/ k = n /\ new[k].obs[i] = in.id /\ \A l \in DOMAIN new[k].obs : l <= i
  <2> TAKE k \in 1..n
  <2>1. CASE k # n
    BY <1>2, <2>1
  <2>2. CASE k = n
    <3>1. ~created => n \in 1..Keys
      BY <1>0, <1>1
    <3> QED BY <1>4, <2>2, <3>1
  <2> QED BY <2>1, <2>2
<1>6. \A k \in 1..Keys : \A i \in DOMAIN old[k].obs :
        k \in 1..n /\ i \in DOMAIN new[k].obs /\ new[k].obs[i] = old[k].obs[i]
  <2> TAKE k \in 1..Keys
  <2>1. CASE k # n
    BY <1>3, <2>1
  <2>2. CASE k = n
    BY <1>3, <1>4, <2>2
  <2> QED BY <2>1, <2>2
<1>7. \A k \in 1..Keys' : \A i \in DOMAIN new[k].obs :
        \/ k \in 1..Keys /\ i \in DOMAIN old[k].obs /\ new[k].obs[i] = old[k].obs[i]
        \/ k = Keys' /\ new[k].obs[i] = in.id /\ \A l \in DOMAIN new[k].obs : l <= i
  BY <1>0, <1>5
<1>8. \A k \in 1..Keys : \A i \in DOMAIN old[k].obs :
        k \in 1..Keys' /\ i \in DOMAIN new[k].obs /\ new[k].obs[i] = old[k].obs[i]
  BY <1>0, <1>6
<1>9. (\E i \in DOMAIN new[Keys'].obs : new[Keys'].obs[i] = in.id) /\ Keys' \in Nat \ {0}
  BY <1>0, <1>1, <1>4
<1> QED BY <1>7, <1>8, <1>9 DEF old, new

LEMMA ExtendedObs ==
  ASSUME chart.poses \in Seq(PoseSet), NEW in \in InputSet, NEW created \in BOOLEAN,
         ~created => Keys > 0, NEW keyed, Extended(chart.poses, in, created, keyed)
  PROVE  /\ ObsOf(chart'.poses) = ObsOf(chart.poses) \cup {in.id}
         /\ Ascending(chart.poses) /\ (\A x \in ObsOf(chart.poses) : x < in.id)
              => Ascending(chart'.poses)
<1> DEFINE old == chart.poses
           new == chart'.poses
<1>0. /\ Keys = Len(old) /\ Keys' = Len(new)
      /\ Keys' \in Nat \ {0} /\ Keys \in Nat
  BY ExtendedEntries DEF Keys
<1>1. /\ \A k \in 1..Keys' : \A i \in DOMAIN new[k].obs :
           \/ k \in 1..Keys /\ i \in DOMAIN old[k].obs /\ new[k].obs[i] = old[k].obs[i]
           \/ k = Keys' /\ new[k].obs[i] = in.id /\ \A l \in DOMAIN new[k].obs : l <= i
      /\ \A k \in 1..Keys : \A i \in DOMAIN old[k].obs :
           k \in 1..Keys' /\ i \in DOMAIN new[k].obs /\ new[k].obs[i] = old[k].obs[i]
      /\ \E i \in DOMAIN new[Keys'].obs : new[Keys'].obs[i] = in.id
  BY ExtendedEntries
<1>2. /\ \A x : x \in ObsOf(old) <=> \E k \in 1..Keys : \E i \in DOMAIN old[k].obs : x = old[k].obs[i]
      /\ \A x : x \in ObsOf(new) <=> \E k \in 1..Keys' : \E i \in DOMAIN new[k].obs : x = new[k].obs[i]
  BY <1>0 DEF ObsOf
<1>3. Keys' \in 1..Keys'
  BY <1>0
<1>4. /\ Ascending(old) <=>
           \A k, j \in 1..Keys : \A i \in DOMAIN old[k].obs, l \in DOMAIN old[j].obs :
             (k < j \/ (k = j /\ i < l)) => old[k].obs[i] < old[j].obs[l]
      /\ Ascending(new) <=>
           \A k, j \in 1..Keys' : \A i \in DOMAIN new[k].obs, l \in DOMAIN new[j].obs :
             (k < j \/ (k = j /\ i < l)) => new[k].obs[i] < new[j].obs[l]
  BY <1>0 DEF Ascending
<1>5. \A k \in 1..Keys' : k \in Int /\ ~(Keys' < k)
  BY <1>0
<1>6. \A k \in 1..Keys' : \A i \in DOMAIN new[k].obs : i \in Nat
  <2> TAKE k \in 1..Keys'
  <2>1. new \in Seq(PoseSet) /\ k \in 1..Len(new)
    BY <1>0 DEF Extended
  <2>2. new[k] \in PoseSet
    BY <2>1, ElementOfSeq
  <2>3. new[k].obs \in Seq(Nat)
    BY <2>2 DEF PoseSet
  <2> QED BY <2>3
<1> HIDE DEF old, new
<1>7. ObsOf(new) = ObsOf(old) \cup {in.id}
  BY <1>1, <1>2, <1>3
<1>8. ASSUME Ascending(old), \A x \in ObsOf(old) : x < in.id
      PROVE  Ascending(new)
  <2> SUFFICES ASSUME NEW k \in 1..Keys', NEW j \in 1..Keys',
                      NEW i \in DOMAIN new[k].obs, NEW l \in DOMAIN new[j].obs,
                      k < j \/ (k = j /\ i < l)
               PROVE  new[k].obs[i] < new[j].obs[l]
    BY <1>4
  <2>1. i \in Nat /\ l \in Nat /\ k \in Int /\ j \in Int /\ ~(Keys' < j)
    BY <1>5, <1>6
  <2>2. k \in 1..Keys /\ i \in DOMAIN old[k].obs /\ new[k].obs[i] = old[k].obs[i]
    <3> SUFFICES ASSUME k = Keys', \A m \in DOMAIN new[k].obs : m <= i
                 PROVE  FALSE
      BY <1>1
    <3>1. CASE k < j
      BY <2>1, <3>1
    <3>2. CASE k = j /\ i < l
      <4>1. l <= i
        BY <3>2
      <4> QED BY <2>1, <3>2, <4>1
    <3> QED BY <3>1, <3>2
  <2>3. CASE j \in 1..Keys /\ l \in DOMAIN old[j].obs /\ new[j].obs[l] = old[j].obs[l]
    BY <1>4, <1>8, <2>2, <2>3
  <2>4. CASE new[j].obs[l] = in.id
    <3>1. old[k].obs[i] \in ObsOf(old)
      BY <1>2, <2>2
    <3> QED BY <1>8, <2>2, <2>4, <3>1
  <2> QED BY <1>1, <2>3, <2>4
<1> QED BY <1>7, <1>8 DEF old, new

-----------------------------------------------------------------------------
(* The ledger of the landmark backend. *)

Worker ==
  /\ inbox.worker = "stopped" => inbox.stopping /\ inbox.queue = <<>>
  /\ inbox.joined => inbox.worker = "stopped"
  /\ Len(inbox.hand) = IF inbox.worker = "busy" THEN 1 ELSE 0

Balanced ==
  LET count == inbox.count
  IN  /\ count["submitted"] = Len(inbox.accepted) + count["duplicate"] + count["overflow"]
                              + count["late"] + count["invalid"]
      /\ Len(inbox.accepted) = count["processed"] + Len(inbox.hand) + Len(inbox.queue)

\* the ids accepted, and that hand and queue hold the last of them
IdsInOrder ==
  LET done == inbox.count["processed"]
  IN  /\ \A i, j \in 1..Len(inbox.accepted) : i < j => inbox.accepted[i] < inbox.accepted[j]
      /\ \A i \in 1..Len(inbox.accepted) : inbox.accepted[i] < sight.next
      /\ \A i \in 1..Len(inbox.hand) : inbox.hand[i].id = inbox.accepted[done + i]
      /\ \A i \in 1..Len(inbox.queue) :
           inbox.queue[i].id = inbox.accepted[done + Len(inbox.hand) + i]

Recorded ==
  /\ {inbox.accepted[i] : i \in 1..inbox.count["processed"]} = ObsOf(chart.poses)
  /\ Ascending(chart.poses)

LedgerInv == LandmarkType /\ Worker /\ Balanced /\ IdsInOrder /\ Recorded

LEMMA LastPlaces ==
  ASSUME NEW n, NEW d \in Nat, NEW h \in Nat, NEW q \in Nat, n = d + h + q
  PROVE  /\ \A i \in 1..h : d + i \in 1..n
         /\ \A i \in 1..q : d + h + i \in 1..n
         /\ d + h + (q + 1) = n + 1
OBVIOUS

LEMMA NextPlace ==
  ASSUME NEW n, NEW d \in Nat, NEW q \in Nat, n = d + 1 + q
  PROVE  d + 1 \in 1..n
OBVIOUS

LEMMA LedgerNumbers ==
  ASSUME LedgerInv
  PROVE  /\ \A c \in Counters : inbox.count[c] \in Nat
         /\ inbox.count \in [Counters -> Nat]
         /\ inbox.queue \in Seq(InputSet) /\ inbox.hand \in Seq(InputSet)
         /\ inbox.accepted \in Seq(Nat)
         /\ Len(inbox.queue) \in Nat /\ Len(inbox.hand) \in Nat
         /\ Len(inbox.accepted) \in Nat /\ sight.next \in Nat
         /\ \A i \in 1..Len(inbox.accepted) : inbox.accepted[i] \in Nat
<1>1. inbox \in InboxSet /\ sight \in SightSet
  BY DEF LedgerInv, LandmarkType
<1>2. /\ inbox.count \in [Counters -> Nat]
      /\ inbox.queue \in Seq(InputSet) /\ inbox.hand \in Seq(InputSet)
      /\ inbox.accepted \in Seq(Nat) /\ sight.next \in Nat
  BY <1>1 DEF InboxSet, SightSet
<1> QED BY <1>2

LEMMA LedgerAside ==
  ASSUME LedgerInv, Aside
  PROVE  LedgerInv'
<1>1. UNCHANGED <<inbox, chart>> /\ sight'.next = sight.next
  BY DEF Aside, landmarkVars
<1>2. LandmarkType'
  BY DEF LedgerInv, LandmarkType, Aside, landmarkVars
<1> QED BY <1>1, <1>2 DEF LedgerInv, Worker, Balanced, IdsInOrder, Recorded

LEMMA LedgerSubmit ==
  ASSUME LedgerInv, NEW in \in InputSet, Submits(in)
  PROVE  LedgerInv'
<1> DEFINE count == inbox.count
           done == count["processed"]
<1>0. /\ \A c \in Counters : inbox.count[c] \in Nat
      /\ inbox.count \in [Counters -> Nat]
      /\ inbox.queue \in Seq(InputSet) /\ inbox.hand \in Seq(InputSet)
      /\ inbox.accepted \in Seq(Nat)
      /\ Len(inbox.queue) \in Nat /\ Len(inbox.hand) \in Nat
      /\ Len(inbox.accepted) \in Nat /\ sight.next \in Nat
      /\ \A i \in 1..Len(inbox.accepted) : inbox.accepted[i] \in Nat
  BY LedgerNumbers
<1>1. /\ in.id = sight.next /\ ~inbox.stopping /\ UNCHANGED chart
      /\ sight' \in SightSet /\ sight'.next = sight.next + 1 /\ frame' = frame
      /\ Submit(in) /\ inbox \in InboxSet
  BY DEF Submits, LedgerInv, LandmarkType
<1>2. /\ inbox' \in InboxSet
      /\ inbox'.hand = inbox.hand /\ inbox'.stopping = inbox.stopping
      /\ inbox'.worker = inbox.worker /\ inbox'.joined = inbox.joined
      /\ \/ /\ inbox'.queue = inbox.queue /\ inbox'.accepted = inbox.accepted
            /\ inbox'.last = inbox.last
            /\ \E c \in Reasons :
                 inbox'.count = [inbox.count EXCEPT !["submitted"] = @ + 1, ![c] = @ + 1]
         \/ /\ inbox'.queue = Append(inbox.queue, in)
            /\ inbox'.accepted = Append(inbox.accepted, in.id)
            /\ inbox'.last = in.t /\ in.t >= inbox.last
            /\ inbox'.count = [inbox.count EXCEPT !["submitted"] = @ + 1]
  BY <1>1, SubmitFields
<1>3. LandmarkType'
  BY <1>1, <1>2 DEF LedgerInv, LandmarkType
<1>4. /\ count["submitted"] \in Nat /\ count["processed"] \in Nat
      /\ count["duplicate"] \in Nat /\ count["overflow"] \in Nat
      /\ count["late"] \in Nat /\ count["invalid"] \in Nat
  BY <1>0 DEF Counters
<1>5. /\ count["submitted"] = Len(inbox.accepted) + count["duplicate"] + count["overflow"]
                              + count["late"] + count["invalid"]
      /\ Len(inbox.accepted) = done + Len(inbox.hand) + Len(inbox.queue)
  BY DEF LedgerInv, Balanced
<1>6. sight.next \in Nat
  BY <1>0
<1>7. CASE /\ inbox'.queue = inbox.queue /\ inbox'.accepted = inbox.accepted
           /\ \E c \in Reasons :
                inbox'.count = [inbox.count EXCEPT !["submitted"] = @ + 1, ![c] = @ + 1]
  <2>1. PICK c \in Reasons :
          inbox'.count = [inbox.count EXCEPT !["submitted"] = @ + 1, ![c] = @ + 1]
    BY <1>7
  <2>2. /\ inbox'.count["submitted"] = count["submitted"] + 1
        /\ inbox'.count["processed"] = done
        /\ inbox'.count[c] = count[c] + 1
        /\ \A d \in Reasons \ {c} : inbox'.count[d] = count[d]
    BY <1>0, <2>1 DEF Reasons, Counters
  <2>3. Balanced'
    <3>1. inbox'.count["duplicate"] + inbox'.count["overflow"] + inbox'.count["late"]
            + inbox'.count["invalid"]
          = count["duplicate"] + count["overflow"] + count["late"] + count["invalid"] + 1
      <4>1. CASE c = "duplicate"
        <5>1. /\ inbox'.count["duplicate"] = count["duplicate"] + 1
              /\ inbox'.count["overflow"] = count["overflow"]
              /\ inbox'.count["late"] = count["late"]
              /\ inbox'.count["invalid"] = count["invalid"]
          BY <2>2, <4>1 DEF Reasons
        <5> QED BY <1>4, <5>1
      <4>2. CASE c = "overflow"
        <5>1. /\ inbox'.count["overflow"] = count["overflow"] + 1
              /\ inbox'.count["duplicate"] = count["duplicate"]
              /\ inbox'.count["late"] = count["late"]
              /\ inbox'.count["invalid"] = count["invalid"]
          BY <2>2, <4>2 DEF Reasons
        <5> QED BY <1>4, <5>1
      <4>3. CASE c = "late"
        <5>1. /\ inbox'.count["late"] = count["late"] + 1
              /\ inbox'.count["duplicate"] = count["duplicate"]
              /\ inbox'.count["overflow"] = count["overflow"]
              /\ inbox'.count["invalid"] = count["invalid"]
          BY <2>2, <4>3 DEF Reasons
        <5> QED BY <1>4, <5>1
      <4>4. CASE c = "invalid"
        <5>1. /\ inbox'.count["invalid"] = count["invalid"] + 1
              /\ inbox'.count["duplicate"] = count["duplicate"]
              /\ inbox'.count["overflow"] = count["overflow"]
              /\ inbox'.count["late"] = count["late"]
          BY <2>2, <4>4 DEF Reasons
        <5> QED BY <1>4, <5>1
      <4> QED BY <4>1, <4>2, <4>3, <4>4 DEF Reasons
    <3>2. /\ inbox'.count["duplicate"] \in Nat /\ inbox'.count["overflow"] \in Nat
          /\ inbox'.count["late"] \in Nat /\ inbox'.count["invalid"] \in Nat
      <4>1. inbox'.count \in [Counters -> Nat]
        BY <1>2 DEF InboxSet
      <4> QED BY <4>1 DEF Counters
    <3>3. inbox'.count["submitted"] = Len(inbox'.accepted) + inbox'.count["duplicate"]
            + inbox'.count["overflow"] + inbox'.count["late"] + inbox'.count["invalid"]
      <4> DEFINE s == count["submitted"]
                 a == Len(inbox.accepted)
                 d == count["duplicate"]
                 o == count["overflow"]
                 l == count["late"]
                 i == count["invalid"]
                 a1 == Len(inbox'.accepted)
                 s1 == inbox'.count["submitted"]
                 d1 == inbox'.count["duplicate"]
                 o1 == inbox'.count["overflow"]
                 l1 == inbox'.count["late"]
                 i1 == inbox'.count["invalid"]
      <4>1. /\ s \in Nat /\ a \in Nat /\ d \in Nat /\ o \in Nat /\ l \in Nat /\ i \in Nat
            /\ d1 \in Nat /\ o1 \in Nat /\ l1 \in Nat /\ i1 \in Nat
            /\ s = a + d + o + l + i /\ d1 + o1 + l1 + i1 = d + o + l + i + 1
            /\ a1 = a /\ s1 = s + 1
        BY <1>0, <1>7, <1>4, <1>5, <2>2, <3>1, <3>2
      <4> HIDE DEF s, a, d, o, l, i, a1, s1, d1, o1, l1, i1
      <4>2. s1 = a1 + d1 + o1 + l1 + i1
        BY <4>1
      <4> QED BY <4>2 DEF a1, s1, d1, o1, l1, i1
    <3>4. Len(inbox'.accepted)
            = inbox'.count["processed"] + Len(inbox'.hand) + Len(inbox'.queue)
      BY <1>2, <1>7, <1>5, <2>2
    <3> QED BY <3>3, <3>4 DEF Balanced
  <2>4. IdsInOrder'
    <3>1. \A i \in 1..Len(inbox.accepted) : inbox.accepted[i] < sight.next + 1
      <4> TAKE i \in 1..Len(inbox.accepted)
      <4>1. inbox.accepted[i] < sight.next /\ inbox.accepted[i] \in Nat
        BY <1>0 DEF LedgerInv, IdsInOrder
      <4> QED BY <1>6, <4>1
    <3>2. /\ \A i, j \in 1..Len(inbox.accepted) :
               i < j => inbox.accepted[i] < inbox.accepted[j]
          /\ \A i \in 1..Len(inbox.hand) : inbox.hand[i].id = inbox.accepted[done + i]
          /\ \A i \in 1..Len(inbox.queue) :
               inbox.queue[i].id = inbox.accepted[done + Len(inbox.hand) + i]
      BY DEF LedgerInv, IdsInOrder
    <3>3. inbox'.count["processed"] = done /\ inbox'.hand = inbox.hand
          /\ inbox'.queue = inbox.queue /\ inbox'.accepted = inbox.accepted
          /\ sight'.next = sight.next + 1
      BY <1>1, <1>2, <1>7, <2>2
    <3> HIDE DEF done
    <3> QED BY <3>1, <3>2, <3>3, Zenon DEF IdsInOrder
  <2>5. Recorded' /\ Worker'
    BY <1>1, <1>2, <1>7, <2>2 DEF LedgerInv, Recorded, Worker
  <2> QED BY <1>3, <2>3, <2>4, <2>5 DEF LedgerInv
<1>8. CASE /\ inbox'.queue = Append(inbox.queue, in)
           /\ inbox'.accepted = Append(inbox.accepted, in.id)
           /\ inbox'.count = [inbox.count EXCEPT !["submitted"] = @ + 1]
  <2>0. in.id \in Nat
    BY <1>0, <1>1
  <2>1. /\ inbox'.count["submitted"] = count["submitted"] + 1
        /\ \A d \in Counters \ {"submitted"} : inbox'.count[d] = count[d]
        /\ inbox'.count["processed"] = done /\ done \in Nat
    BY <1>0, <1>8 DEF Counters
  <2>2. /\ Len(inbox'.queue) = Len(inbox.queue) + 1
        /\ \A i \in 1..Len(inbox.queue) : inbox'.queue[i] = inbox.queue[i]
        /\ inbox'.queue[Len(inbox.queue) + 1] = in
    BY <1>0, <1>8, AppendProperties
  <2>3. /\ Len(inbox'.accepted) = Len(inbox.accepted) + 1
        /\ \A i \in 1..Len(inbox.accepted) : inbox'.accepted[i] = inbox.accepted[i]
        /\ inbox'.accepted[Len(inbox.accepted) + 1] = in.id
    BY <1>0, <1>8, <2>0, AppendProperties
  <2>4. /\ Len(inbox.accepted) = done + Len(inbox.hand) + Len(inbox.queue)
        /\ Len(inbox.accepted) \in Nat /\ done \in Nat /\ Len(inbox.hand) \in Nat
        /\ Len(inbox.queue) \in Nat
    BY <1>0, <1>5, <2>1
  <2>5. Balanced'
    <3>1. /\ inbox'.count["duplicate"] = count["duplicate"]
          /\ inbox'.count["overflow"] = count["overflow"]
          /\ inbox'.count["late"] = count["late"]
          /\ inbox'.count["invalid"] = count["invalid"]
          /\ inbox'.count["processed"] = count["processed"]
      BY <2>1 DEF Counters
    <3>2. inbox'.count["submitted"] = count["submitted"] + 1
      BY <2>1
    <3>3. /\ Len(inbox'.accepted) = Len(inbox.accepted) + 1 /\ Len(inbox.accepted) \in Nat
          /\ Len(inbox'.queue) = Len(inbox.queue) + 1 /\ Len(inbox.queue) \in Nat
          /\ Len(inbox'.hand) = Len(inbox.hand) /\ Len(inbox.hand) \in Nat
      BY <1>0, <1>2, <2>2, <2>3
    <3>4. inbox'.count["submitted"] = Len(inbox'.accepted) + inbox'.count["duplicate"]
            + inbox'.count["overflow"] + inbox'.count["late"] + inbox'.count["invalid"]
      <4> DEFINE s == count["submitted"]
                 a == Len(inbox.accepted)
                 d == count["duplicate"]
                 o == count["overflow"]
                 l == count["late"]
                 i == count["invalid"]
                 a1 == Len(inbox'.accepted)
                 s1 == inbox'.count["submitted"]
                 d1 == inbox'.count["duplicate"]
                 o1 == inbox'.count["overflow"]
                 l1 == inbox'.count["late"]
                 i1 == inbox'.count["invalid"]
      <4>1. /\ s \in Nat /\ a \in Nat /\ d \in Nat /\ o \in Nat /\ l \in Nat /\ i \in Nat
            /\ d1 = d /\ o1 = o /\ l1 = l /\ i1 = i
            /\ s = a + d + o + l + i /\ a1 = a + 1 /\ s1 = s + 1
        BY <1>4, <1>5, <3>1, <3>2, <3>3
      <4> HIDE DEF s, a, d, o, l, i, a1, s1, d1, o1, l1, i1
      <4>2. s1 = a1 + d1 + o1 + l1 + i1
        BY <4>1
      <4> QED BY <4>2 DEF a1, s1, d1, o1, l1, i1
    <3>5. Len(inbox'.accepted)
            = inbox'.count["processed"] + Len(inbox'.hand) + Len(inbox'.queue)
      <4> DEFINE a == Len(inbox.accepted)
                 h == Len(inbox.hand)
                 q == Len(inbox.queue)
                 a1 == Len(inbox'.accepted)
                 h1 == Len(inbox'.hand)
                 q1 == Len(inbox'.queue)
                 p1 == inbox'.count["processed"]
      <4>1. /\ a = done + h + q /\ done \in Nat /\ h \in Nat /\ q \in Nat
            /\ a1 = a + 1 /\ h1 = h /\ q1 = q + 1 /\ p1 = done
        BY <1>4, <1>5, <3>1, <3>3
      <4> HIDE DEF a, h, q, a1, h1, q1, p1, done
      <4>2. a1 = p1 + h1 + q1
        BY <4>1
      <4> QED BY <4>2 DEF a1, h1, q1, p1
    <3> QED BY <3>4, <3>5 DEF Balanced
  <2>6. \A i \in 1..Len(inbox'.accepted) :
          i \in 1..Len(inbox.accepted) \/ i = Len(inbox.accepted) + 1
    BY <1>0, <2>3
  <2>7. \A i \in 1..Len(inbox'.accepted) : inbox'.accepted[i] < sight'.next
    <3> TAKE i \in 1..Len(inbox'.accepted)
    <3>1. CASE i \in 1..Len(inbox.accepted)
      <4>1. inbox.accepted[i] < sight.next /\ inbox.accepted[i] \in Nat
        BY <1>0, <3>1 DEF LedgerInv, IdsInOrder
      <4> QED BY <1>0, <1>1, <2>3, <3>1, <4>1
    <3>2. CASE i = Len(inbox.accepted) + 1
      BY <1>0, <1>1, <2>3, <3>2
    <3> QED BY <2>6, <3>1, <3>2
  <2>8. \A i, j \in 1..Len(inbox'.accepted) : i < j => inbox'.accepted[i] < inbox'.accepted[j]
    <3> SUFFICES ASSUME NEW i \in 1..Len(inbox'.accepted), NEW j \in 1..Len(inbox'.accepted),
                        i < j
                 PROVE  inbox'.accepted[i] < inbox'.accepted[j]
      OBVIOUS
    <3>1. i \in 1..Len(inbox.accepted)
      BY <1>0, <2>3
    <3>2. CASE j \in 1..Len(inbox.accepted)
      BY <2>3, <3>1, <3>2 DEF LedgerInv, IdsInOrder
    <3>3. CASE j = Len(inbox.accepted) + 1
      BY <1>1, <2>3, <3>1, <3>3 DEF LedgerInv, IdsInOrder
    <3> QED BY <2>6, <3>2, <3>3
  <2>9. \A i \in 1..Len(inbox.hand) : inbox'.hand[i].id = inbox'.accepted[done + i]
    <3> TAKE i \in 1..Len(inbox.hand)
    <3>1. done + i \in 1..Len(inbox.accepted)
      <4> HIDE DEF done
      <4> QED BY <2>4, LastPlaces, Zenon
    <3> QED BY <1>2, <2>3, <3>1 DEF LedgerInv, IdsInOrder
  <2>10. \A i \in 1..Len(inbox'.queue) :
           inbox'.queue[i].id = inbox'.accepted[done + Len(inbox.hand) + i]
    <3> TAKE i \in 1..Len(inbox'.queue)
    <3>1. CASE i \in 1..Len(inbox.queue)
      <4>1. done + Len(inbox.hand) + i \in 1..Len(inbox.accepted)
        <5> HIDE DEF done
        <5> QED BY <2>4, <3>1, LastPlaces, Zenon
      <4> QED BY <2>2, <2>3, <3>1, <4>1 DEF LedgerInv, IdsInOrder
    <3>2. CASE i = Len(inbox.queue) + 1
      <4>1. done + Len(inbox.hand) + i = Len(inbox.accepted) + 1
        <5> HIDE DEF done
        <5> QED BY <2>4, <3>2, LastPlaces, ZenonT(40)
      <4> QED BY <2>2, <2>3, <3>2, <4>1
    <3>3. i \in 1..Len(inbox.queue) \/ i = Len(inbox.queue) + 1
      BY <1>0, <2>2
    <3> QED BY <3>1, <3>2, <3>3
  <2>11. IdsInOrder'
    BY <1>2, <2>1, <2>7, <2>8, <2>9, <2>10 DEF IdsInOrder
  <2>12. \A i \in 1..done : inbox'.accepted[i] = inbox.accepted[i]
    <3>1. 1..done \subseteq 1..Len(inbox.accepted)
      BY <1>0, <2>1, <2>4
    <3> QED BY <2>3, <3>1
  <2>13. {inbox'.accepted[i] : i \in 1..done} = {inbox.accepted[i] : i \in 1..done}
    BY <2>12
  <2>14. Recorded'
    BY <1>1, <2>1, <2>13 DEF LedgerInv, Recorded
  <2>15. Worker'
    BY <1>1, <1>2 DEF LedgerInv, Worker
  <2> QED BY <1>3, <2>5, <2>11, <2>14, <2>15 DEF LedgerInv
<1> QED BY <1>2, <1>7, <1>8

LEMMA LedgerPop ==
  ASSUME LedgerInv, Pop, UNCHANGED <<sight, frame, vpc>>
  PROVE  LedgerInv'
<1> DEFINE done == inbox.count["processed"]
<1>0. /\ \A c \in Counters : inbox.count[c] \in Nat
      /\ inbox.queue \in Seq(InputSet) /\ Len(inbox.queue) \in Nat
      /\ Len(inbox.accepted) \in Nat /\ done \in Nat
  BY LedgerNumbers DEF Counters
<1>1. /\ inbox' \in InboxSet /\ chart' = chart
      /\ inbox.worker = "waiting" /\ inbox'.worker = "busy" /\ inbox.queue # <<>>
      /\ inbox'.hand = <<inbox.queue[1]>> /\ inbox'.queue = Tail(inbox.queue)
      /\ inbox'.accepted = inbox.accepted /\ inbox'.last = inbox.last
      /\ inbox'.count = inbox.count /\ inbox'.stopping = inbox.stopping
      /\ inbox'.joined = inbox.joined
  BY PopFields DEF LedgerInv, LandmarkType
<1>2. LandmarkType'
  BY <1>1 DEF LedgerInv, LandmarkType
<1>3. /\ Len(Tail(inbox.queue)) = Len(inbox.queue) - 1
      /\ \A i \in 1..Len(Tail(inbox.queue)) : Tail(inbox.queue)[i] = inbox.queue[i + 1]
  BY <1>0, <1>1, HeadTailProperties
<1>4. Len(inbox.hand) = 0 /\ Len(inbox'.hand) = 1 /\ inbox'.hand[1] = inbox.queue[1]
      /\ Len(inbox.queue) > 0
  BY <1>0, <1>1 DEF LedgerInv, Worker
<1>5. Worker'
  BY <1>1, <1>4 DEF LedgerInv, Worker
<1>6. Balanced'
  BY <1>0, <1>1, <1>3, <1>4 DEF LedgerInv, Balanced
<1>7. \A i \in 1..1 : inbox'.hand[i].id = inbox.accepted[done + i]
  <2> TAKE i \in 1..1
  <2>1. i = 1 /\ 1 \in 1..Len(inbox.queue) /\ done + Len(inbox.hand) + 1 = done + i
    BY <1>0, <1>4
  <2> QED BY <1>4, <2>1 DEF LedgerInv, IdsInOrder
<1>8. \A i \in 1..Len(inbox'.queue) : inbox'.queue[i].id = inbox.accepted[done + 1 + i]
  <2> TAKE i \in 1..Len(inbox'.queue)
  <2>1. i + 1 \in 1..Len(inbox.queue) /\ done + Len(inbox.hand) + (i + 1) = done + 1 + i
    <3>1. i \in 1..(Len(inbox.queue) - 1)
      BY <1>1, <1>3
    <3>2. Len(inbox.queue) \in Nat /\ done \in Nat /\ Len(inbox.hand) = 0
      BY <1>0, <1>4
    <3> HIDE DEF done
    <3> QED BY <3>1, <3>2
  <2> QED BY <1>1, <1>3, <2>1 DEF LedgerInv, IdsInOrder
<1>9. IdsInOrder'
  BY <1>1, <1>4, <1>7, <1>8 DEF LedgerInv, IdsInOrder
<1>10. Recorded'
  BY <1>1 DEF LedgerInv, Recorded
<1> QED BY <1>2, <1>5, <1>6, <1>9, <1>10 DEF LedgerInv

LEMMA LedgerProcess ==
  ASSUME LedgerInv, Process, UNCHANGED <<sight, frame, vpc>>
  PROVE  LedgerInv'
<1> DEFINE done == inbox.count["processed"]
           in == inbox.hand[1]
<1>0. /\ \A c \in Counters : inbox.count[c] \in Nat
      /\ inbox.count \in [Counters -> Nat]
      /\ inbox.queue \in Seq(InputSet) /\ Len(inbox.queue) \in Nat
      /\ inbox.accepted \in Seq(Nat) /\ Len(inbox.accepted) \in Nat /\ done \in Nat
      /\ \A i \in 1..Len(inbox.accepted) : inbox.accepted[i] \in Nat
  BY LedgerNumbers DEF Counters
<1>1. Len(inbox.hand) = 1 /\ chart.poses \in Seq(PoseSet) /\ inbox \in InboxSet
  BY DEF LedgerInv, LandmarkType, Worker, Process
<1>2. /\ inbox' \in InboxSet /\ inbox.worker = "busy" /\ inbox'.worker = "waiting"
      /\ inbox'.hand = <<>> /\ inbox'.queue = inbox.queue
      /\ inbox'.accepted = inbox.accepted /\ inbox'.last = inbox.last
      /\ inbox'.count = [inbox.count EXCEPT !["processed"] = @ + 1]
      /\ inbox'.stopping = inbox.stopping /\ inbox'.joined = inbox.joined
      /\ in \in InputSet
      /\ \E created, definite, throws \in BOOLEAN : \E far :
           /\ ~created => Keys > 0
           /\ Processes(in, created, far, definite, throws)
  BY <1>1, ProcessFields
<1>3. PICK created \in BOOLEAN, definite \in BOOLEAN, throws \in BOOLEAN :
        \E far : (~created => Keys > 0) /\ Processes(in, created, far, definite, throws)
  BY <1>2, Zenon
<1>4. PICK far : (~created => Keys > 0) /\ Processes(in, created, far, definite, throws)
  BY <1>3, Zenon
<1>5. PICK keyed \in BOOLEAN : Extended(chart.poses, in, created, keyed)
  BY <1>1, <1>2, <1>4, ProcessedPoses
<1>6. chart'.poses \in Seq(PoseSet)
  BY <1>5 DEF Extended
<1>7. LandmarkType'
  BY <1>2, <1>6 DEF LedgerInv, LandmarkType
<1>8. /\ inbox'.count["processed"] = done + 1
      /\ \A d \in Counters \ {"processed"} : inbox'.count[d] = inbox.count[d]
  BY <1>0, <1>2 DEF Counters
<1>9. Len(inbox'.hand) = 0
  BY <1>2
<1>10. Worker'
  BY <1>2, <1>9 DEF LedgerInv, Worker
<1>11. Balanced'
  BY <1>0, <1>1, <1>2, <1>8, <1>9 DEF LedgerInv, Balanced, Counters
<1>12. Len(inbox.accepted) = done + 1 + Len(inbox.queue)
  BY <1>1 DEF LedgerInv, Balanced
<1>13. IdsInOrder'
  <2>1. \A i \in 1..Len(inbox.queue) : inbox.queue[i].id = inbox.accepted[done + 1 + i]
    BY <1>1 DEF LedgerInv, IdsInOrder
  <2>2. \A i \in 1..Len(inbox.queue) : done + 1 + i = done + 1 + 0 + i
    BY <1>0
  <2>3. \A i \in 1..0 : FALSE
    OBVIOUS
  <2> QED BY <1>2, <1>8, <1>9, <2>1, <2>2, <2>3 DEF LedgerInv, IdsInOrder
<1>14. Len(inbox.queue) \in Nat /\ done \in Nat
  BY <1>0
<1>15. done + 1 \in 1..Len(inbox.accepted) /\ in.id = inbox.accepted[done + 1]
  <2>1. 1 \in 1..Len(inbox.hand)
    BY <1>1
  <2>2. in.id = inbox.accepted[done + 1]
    BY <2>1 DEF LedgerInv, IdsInOrder
  <2>3. done + 1 \in 1..Len(inbox.accepted)
    <3> HIDE DEF done
    <3> QED BY <1>12, <1>14, NextPlace, Zenon
  <2> QED BY <2>2, <2>3
<1>16. \A x \in ObsOf(chart.poses) : x < in.id
  <2> TAKE x \in ObsOf(chart.poses)
  <2>1. PICK i \in 1..done : x = inbox.accepted[i]
    BY DEF LedgerInv, Recorded
  <2>2. i \in 1..Len(inbox.accepted) /\ i < done + 1
    BY <1>0, <1>12
  <2> QED BY <1>15, <2>1, <2>2 DEF LedgerInv, IdsInOrder
<1>17. /\ ObsOf(chart'.poses) = ObsOf(chart.poses) \cup {in.id}
       /\ Ascending(chart'.poses)
  BY <1>1, <1>2, <1>4, <1>5, <1>16, ExtendedObs DEF LedgerInv, Recorded
<1>18. 1..(done + 1) = 1..done \cup {done + 1}
  <2> HIDE DEF done
  <2> QED BY <1>14
<1>19. {inbox.accepted[i] : i \in 1..(done + 1)}
         = {inbox.accepted[i] : i \in 1..done} \cup {inbox.accepted[done + 1]}
  <2> HIDE DEF done
  <2> QED BY <1>18
<1>20. Recorded'
  <2>1. {inbox.accepted[i] : i \in 1..done} = ObsOf(chart.poses)
    BY DEF LedgerInv, Recorded
  <2>2. {inbox'.accepted[i] : i \in 1..inbox'.count["processed"]}
          = {inbox.accepted[i] : i \in 1..(done + 1)}
    BY <1>2, <1>8
  <2>3. {inbox'.accepted[i] : i \in 1..inbox'.count["processed"]} = ObsOf(chart'.poses)
    BY <1>15, <1>17, <1>19, <2>1, <2>2
  <2> QED BY <1>17, <2>3 DEF Recorded
<1> QED BY <1>7, <1>10, <1>11, <1>13, <1>20 DEF LedgerInv

LEMMA LedgerOther ==
  ASSUME LedgerInv, Leave \/ Join \/ AskToStop, UNCHANGED <<sight, frame, vpc>>,
         AskToStop => vpc = "idle"
  PROVE  LedgerInv'
<1>1. /\ inbox' \in InboxSet /\ UNCHANGED <<chart, graph>>
      /\ inbox'.hand = inbox.hand /\ inbox'.queue = inbox.queue
      /\ inbox'.accepted = inbox.accepted /\ inbox'.last = inbox.last
      /\ inbox'.count = inbox.count
      /\ \/ /\ inbox.stopping /\ inbox.worker = "waiting" /\ inbox.queue = <<>>
            /\ inbox'.worker = "stopped" /\ inbox'.stopping = inbox.stopping
            /\ inbox'.joined = inbox.joined
         \/ /\ inbox.worker = "stopped" /\ inbox'.worker = inbox.worker
            /\ inbox.stopping /\ inbox'.stopping = inbox.stopping
         \/ /\ inbox'.stopping /\ inbox'.worker = inbox.worker
            /\ inbox'.joined = inbox.joined
  BY OtherFields DEF LedgerInv, LandmarkType
<1>2. vpc = "idle"
  BY DEF LedgerInv, LandmarkType, Leave, Join
<1>3. LandmarkType'
  BY <1>1, <1>2 DEF LedgerInv, LandmarkType
<1>4. Worker'
  BY <1>1 DEF LedgerInv, Worker
<1> QED BY <1>1, <1>3, <1>4 DEF LedgerInv, Balanced, IdsInOrder, Recorded

LEMMA LedgerStays ==
  ASSUME LedgerInv, [Next]_vars
  PROVE  LedgerInv'
<1>1. \/ Aside \/ SubmitsOne
      \/ Work /\ UNCHANGED <<sight, frame, vpc>>
      \/ AskToStop /\ vpc = "idle" /\ UNCHANGED <<sight, frame, vpc>>
  BY LandmarkSteps DEF LedgerInv
<1>2. CASE Aside
  BY <1>2, LedgerAside
<1>3. CASE SubmitsOne
  BY <1>3, LedgerSubmit DEF SubmitsOne
<1>4. CASE Pop /\ UNCHANGED <<sight, frame, vpc>>
  BY <1>4, LedgerPop
<1>5. CASE Process /\ UNCHANGED <<sight, frame, vpc>>
  BY <1>5, LedgerProcess
<1>6. CASE (Leave \/ Join) /\ UNCHANGED <<sight, frame, vpc>>
  <2>1. ~AskToStop
    BY <1>6 DEF Leave, Join, AskToStop
  <2> QED BY <1>6, <2>1, LedgerOther
<1>7. CASE AskToStop /\ vpc = "idle" /\ UNCHANGED <<sight, frame, vpc>>
  BY <1>7, LedgerOther
<1> QED BY <1>1, <1>2, <1>3, <1>4, <1>5, <1>6, <1>7 DEF Work

LEMMA LedgerStarts == Init => LedgerInv
<1> SUFFICES ASSUME Init PROVE LedgerInv
  OBVIOUS
<1>1. /\ inbox = [queue |-> <<>>, hand |-> <<>>, accepted |-> <<>>, last |-> 0,
                  count |-> [c \in Counters |-> 0], stopping |-> FALSE,
                  worker |-> "waiting", joined |-> FALSE]
      /\ chart.poses = <<>> /\ sight = [boards |-> <<>>, next |-> 1] /\ frame = 0
  BY DEF Init, LandmarkInit, NoInbox, NoChart
<1>2. inbox.count = [c \in Counters |-> 0] /\ inbox.count \in [Counters -> Nat]
  BY <1>1
<1>3. \A c \in Counters : inbox.count[c] = 0
  BY <1>2
<1>4. /\ <<>> \in Seq(InputSet) /\ <<>> \in Seq(Nat) /\ <<>> \in Seq(PoseSet)
      /\ <<>> \in Seq(Boards)
  BY EmptySeq
<1>5. inbox \in InboxSet
  BY <1>1, <1>2, <1>4, 0 \in Nat, Zenon DEF InboxSet
<1>6. sight \in SightSet
  BY <1>1, <1>4 DEF SightSet
<1>7. /\ inbox.queue = <<>> /\ inbox.hand = <<>> /\ inbox.accepted = <<>>
      /\ ~inbox.stopping /\ inbox.worker = "waiting" /\ ~inbox.joined
  BY <1>1
<1>8. LandmarkType
  BY <1>1, <1>4, <1>5, <1>6, <1>7 DEF LandmarkType
<1>9. Len(<<>>) = 0 /\ \A i \in 1..0 : FALSE
  OBVIOUS
<1>10. Worker
  BY <1>7, <1>9 DEF Worker
<1>11. Balanced
  BY <1>3, <1>7, <1>9 DEF Balanced, Counters
<1>12. IdsInOrder
  BY <1>7, <1>9 DEF IdsInOrder
<1>13. Recorded
  <2>1. ObsOf(chart.poses) = {}
    BY <1>1, <1>9 DEF ObsOf
  <2>2. inbox.count["processed"] = 0
    BY <1>3 DEF Counters
  <2>3. {inbox.accepted[i] : i \in 1..0} = {}
    BY <1>9
  <2>4. Ascending(chart.poses)
    BY <1>1, <1>9 DEF Ascending
  <2> QED BY <2>1, <2>2, <2>3, <2>4 DEF Recorded
<1> QED BY <1>8, <1>10, <1>11, <1>12, <1>13 DEF LedgerInv

\* Every input to the landmark backend is counted once, and what was accepted is
\* waiting, in hand or recorded in order, for every board, image and schedule of
\* the worker.
THEOREM LandmarksAreCounted == Spec => []LandmarkLedger
<1>1. LedgerInv /\ [Next]_vars => LedgerInv'
  BY LedgerStays
<1>2. LedgerInv => LandmarkLedger
  <2> SUFFICES ASSUME LedgerInv PROVE LandmarkLedger
    OBVIOUS
  <2>0. /\ \A c \in Counters : inbox.count[c] \in Nat
        /\ Len(inbox.accepted) \in Nat /\ Len(inbox.queue) \in Nat
        /\ \A i \in 1..Len(inbox.accepted) : inbox.accepted[i] \in Nat
    BY LedgerNumbers
  <2>1. \A i \in 1..(Len(inbox.accepted) - 1) : inbox.accepted[i] < inbox.accepted[i + 1]
    <3> TAKE i \in 1..(Len(inbox.accepted) - 1)
    <3>1. i \in 1..Len(inbox.accepted) /\ i + 1 \in 1..Len(inbox.accepted) /\ i < i + 1
      BY <2>0
    <3> QED BY <3>1 DEF LedgerInv, IdsInOrder
  <2>2. inbox.joined => inbox.count["processed"] = Len(inbox.accepted)
    <3> SUFFICES ASSUME inbox.joined
                 PROVE  inbox.count["processed"] = Len(inbox.accepted)
      OBVIOUS
    <3>1. inbox.queue = <<>> /\ Len(inbox.hand) = 0
      BY DEF LedgerInv, Worker
    <3>2. Len(inbox.queue) = 0
      BY <3>1
    <3> QED BY <2>0, <3>1, <3>2 DEF LedgerInv, Balanced, Counters
  <2>3. /\ {inbox.accepted[i] : i \in 1..inbox.count["processed"]}
             = UNION {{chart.poses[k].obs[i] : i \in DOMAIN chart.poses[k].obs} : k \in 1..Keys}
        /\ \A k, j \in 1..Keys :
             \A i \in DOMAIN chart.poses[k].obs, l \in DOMAIN chart.poses[j].obs :
               (k < j \/ (k = j /\ i < l)) => chart.poses[k].obs[i] < chart.poses[j].obs[l]
    BY DEF LedgerInv, Recorded, ObsOf, Ascending, Keys
  <2> QED BY <2>1, <2>2, <2>3 DEF LedgerInv, Balanced, LandmarkLedger
<1> QED BY <1>1, <1>2, LedgerStarts, PTL DEF Spec

-----------------------------------------------------------------------------
(* The graph: what an update may leave. *)

MarkSet == [episode : Nat, last : Nat, seen : Seq(Nat), keyed : BOOLEAN]
NoteSet == [episode : Nat, t : Nat]

\* what is kept per board, for the boards met so far
PerBoard(S) == UNION {[D -> S] : D \in SUBSET Boards}

GraphSet ==
  [failed : BOOLEAN, degraded : BOOLEAN, keys : SUBSET Nat, edges : SUBSET (Nat \X Nat),
   marks : SUBSET Boards, visual : SUBSET (Nat \X Boards \X Nat), at : PerBoard(NoteSet),
   again : SUBSET [board : Boards, id : Nat, before : Nat, episode : Nat, gap : Int]]

LEMMA PerBoardFields ==
  ASSUME NEW S, NEW at \in PerBoard(S)
  PROVE  /\ DOMAIN at \subseteq Boards /\ \A b \in DOMAIN at : at[b] \in S
         /\ at = [b \in DOMAIN at |-> at[b]]
<1>1. PICK D \in SUBSET Boards : at \in [D -> S]
  BY DEF PerBoard
<1> QED BY <1>1

LEMMA IsPerBoard ==
  ASSUME NEW S, NEW D \in SUBSET Boards, NEW at \in [D -> S]
  PROVE  at \in PerBoard(S)
BY DEF PerBoard

LEMMA PlacedType ==
  ASSUME NEW S, NEW at \in PerBoard(S), NEW b \in Boards, NEW r \in S
  PROVE  Placed(at, b, r) \in PerBoard(S)
<1>1. DOMAIN at \subseteq Boards /\ \A x \in DOMAIN at : at[x] \in S
  BY PerBoardFields
<1>2. Placed(at, b, r) \in [DOMAIN at \cup {b} -> S]
  BY <1>1 DEF Placed
<1>3. DOMAIN at \cup {b} \in SUBSET Boards
  BY <1>1
<1> QED BY <1>2, <1>3, IsPerBoard

LEMMA NotedFields ==
  ASSUME NEW g \in GraphSet, NEW in \in InputSet, NEW e \in Nat
  PROVE  LET h == Noted(g, in, e)
         IN  /\ h \in GraphSet
             /\ h.keys = g.keys /\ h.edges = g.edges /\ h.marks = g.marks
             /\ h.visual = g.visual /\ h.again = g.again
             /\ h.at = g.at \/ h.at = Placed(g.at, in.board, [episode |-> e, t |-> in.t])
<1>1. CASE ~(in.board \in DOMAIN g.at /\ g.at[in.board].episode = e)
  BY <1>1 DEF Noted
<1>2. CASE in.board \in DOMAIN g.at /\ g.at[in.board].episode = e
  <2> DEFINE b == in.board
             r == [episode |-> e, t |-> in.t]
  <2>0. g.at \in PerBoard(NoteSet) /\ b \in Boards /\ in.t \in Nat /\ r \in NoteSet
    BY DEF GraphSet, InputSet, NoteSet
  <2>1. /\ g.at[b] \in NoteSet /\ g.at = [x \in DOMAIN g.at |-> g.at[x]]
    BY <1>2, <2>0, PerBoardFields
  <2>2. [g.at[b] EXCEPT !.t = in.t] = r
    BY <1>2, <2>1 DEF NoteSet
  <2>3. [g.at EXCEPT ![b].t = in.t] = [g.at EXCEPT ![b] = r]
    BY <2>2
  <2>4. [g.at EXCEPT ![b] = r] = Placed(g.at, b, r)
    <3>1. DOMAIN g.at \cup {b} = DOMAIN g.at
      BY <1>2
    <3> QED BY <2>1, <3>1 DEF Placed
  <2>5. PICK at : at = Placed(g.at, b, r)
    OBVIOUS
  <2>6. at \in PerBoard(NoteSet)
    BY <2>0, <2>5, PlacedType
  <2>7. Noted(g, in, e) = [g EXCEPT !.at = at]
    BY <1>2, <2>3, <2>4, <2>5 DEF Noted
  <2>8. Noted(g, in, e) \in GraphSet
    BY <2>6, <2>7, Zenon DEF GraphSet
  <2>9. LET h == Noted(g, in, e)
        IN  /\ h.keys = g.keys /\ h.edges = g.edges /\ h.marks = g.marks
            /\ h.visual = g.visual /\ h.again = g.again /\ h.at = at
    BY <2>7 DEF GraphSet
  <2> QED BY <2>5, <2>8, <2>9
<1> QED BY <1>1, <1>2

\* what an update may leave of the graph
UpdateLeaves(g, k, moved, in, e) ==
  /\ \/ g.keys = graph.keys /\ g.edges = graph.edges
     \/ /\ k \notin graph.keys /\ (graph.keys = {} \/ (moved /\ k - 1 \in graph.keys))
        /\ g.keys = graph.keys \cup {k}
        /\ g.edges = graph.edges \cup (IF moved THEN {<<k - 1, k>>} ELSE {})
  /\ \/ g.visual = graph.visual /\ g.marks = graph.marks /\ g.again = graph.again
     \/ /\ k \in g.keys
        /\ g.visual = graph.visual \cup {Visual(k, in, e)}
        /\ g.marks = graph.marks \cup {in.board}
        /\ g.again = graph.again \cup Reobserved(in, e)
  /\ g.at = graph.at \/ g.at = Placed(graph.at, in.board, [episode |-> e, t |-> in.t])

LEMMA ReobservedType ==
  ASSUME graph \in GraphSet, NEW in \in InputSet, NEW e \in Nat
  PROVE  Reobserved(in, e)
           \subseteq [board : Boards, id : Nat, before : Nat, episode : Nat, gap : Int]
<1>1. CASE ~(in.board \in DOMAIN graph.at /\ graph.at[in.board].episode # e)
  BY <1>1 DEF Reobserved
<1>2. CASE in.board \in DOMAIN graph.at /\ graph.at[in.board].episode # e
  <2>1. graph.at \in PerBoard(NoteSet) /\ in.t \in Nat /\ in.id \in Nat /\ in.board \in Boards
    BY DEF GraphSet, InputSet
  <2>2. graph.at[in.board] \in NoteSet
    BY <1>2, <2>1, PerBoardFields
  <2>3. /\ graph.at[in.board].episode \in Nat
        /\ graph.at[in.board].t \in Nat
    BY <2>2 DEF NoteSet
  <2>4. in.t - graph.at[in.board].t \in Int
    BY <2>1, <2>3
  <2>5. PICK x : x = [board |-> in.board, id |-> in.id, before |-> graph.at[in.board].episode,
                      episode |-> e, gap |-> in.t - graph.at[in.board].t]
    OBVIOUS
  <2>6. x \in [board : Boards, id : Nat, before : Nat, episode : Nat, gap : Int]
    BY <2>1, <2>3, <2>4, <2>5, Zenon
  <2>7. Reobserved(in, e) = {x}
    BY <1>2, <2>5 DEF Reobserved
  <2> QED BY <2>6, <2>7
<1> QED BY <1>1, <1>2

LEMMA GrownFields ==
  ASSUME graph \in GraphSet, NEW k \in Nat \ {0}, NEW moved \in BOOLEAN,
         NEW in \in InputSet, NEW e \in Nat, NEW add \in BOOLEAN,
         ~Unanchored(k, moved), k \notin graph.keys \/ add
  PROVE  /\ Grown(k, moved, in, e, add) \in GraphSet
         /\ UpdateLeaves(Grown(k, moved, in, e, add), k, moved, in, e)
<1> DEFINE keys == graph.keys \cup {k}
           edges == graph.edges \cup (IF k \notin graph.keys /\ moved THEN {<<k - 1, k>>} ELSE {})
<1>1. PICK g : g = [graph EXCEPT !.keys = keys, !.edges = edges]
  OBVIOUS
<1>2. keys \in SUBSET Nat /\ edges \in SUBSET (Nat \X Nat)
  BY DEF GraphSet
<1>3. /\ k \in keys
      /\ \/ keys = graph.keys /\ edges = graph.edges
         \/ /\ k \notin graph.keys /\ (graph.keys = {} \/ (moved /\ k - 1 \in graph.keys))
            /\ keys = graph.keys \cup {k}
            /\ edges = graph.edges \cup (IF moved THEN {<<k - 1, k>>} ELSE {})
  BY DEF Unanchored
<1> HIDE DEF keys, edges
<1>4. g \in GraphSet
  BY <1>1, <1>2, Zenon DEF GraphSet
<1>5. /\ g.keys = keys /\ g.edges = edges /\ g.marks = graph.marks
      /\ g.visual = graph.visual /\ g.again = graph.again /\ g.at = graph.at
  BY <1>1 DEF GraphSet
<1>6. CASE ~add
  <2>1. Grown(k, moved, in, e, add) = Noted(g, in, e)
    BY <1>1, <1>6 DEF Grown, keys, edges
  <2> QED BY <1>3, <1>4, <1>5, <2>1, NotedFields DEF UpdateLeaves
<1>7. CASE add
  <2> DEFINE r == [episode |-> e, t |-> in.t]
             marks == graph.marks \cup {in.board}
             visual == graph.visual \cup {Visual(k, in, e)}
             again == graph.again \cup Reobserved(in, e)
             at == Placed(graph.at, in.board, r)
  <2>0. in.board \in Boards /\ in.t \in Nat /\ r \in NoteSet /\ graph.at \in PerBoard(NoteSet)
    BY DEF InputSet, NoteSet, GraphSet
  <2>1. Grown(k, moved, in, e, add)
          = [g EXCEPT !.marks = marks, !.visual = visual, !.again = again, !.at = at]
    <3>1. Grown(k, moved, in, e, add)
            = [g EXCEPT !.marks = g.marks \cup {in.board},
                        !.visual = g.visual \cup {Visual(k, in, e)},
                        !.again = g.again \cup Reobserved(in, e),
                        !.at = Placed(g.at, in.board, [episode |-> e, t |-> in.t])]
      BY <1>1, <1>7, Zenon DEF Grown, keys, edges
    <3> QED BY <1>5, <3>1, Zenon
  <2>2. marks \in SUBSET Boards /\ visual \in SUBSET (Nat \X Boards \X Nat)
    BY <2>0 DEF GraphSet, Visual
  <2>3. again \in SUBSET [board : Boards, id : Nat, before : Nat, episode : Nat, gap : Int]
    BY ReobservedType DEF GraphSet
  <2>4. at \in PerBoard(NoteSet)
    BY <2>0, PlacedType
  <2>5. marks = graph.marks \cup {in.board} /\ visual = graph.visual \cup {Visual(k, in, e)}
        /\ again = graph.again \cup Reobserved(in, e)
        /\ at = Placed(graph.at, in.board, [episode |-> e, t |-> in.t])
    OBVIOUS
  <2> HIDE DEF marks, visual, again, at
  <2>6. PICK h : h = Grown(k, moved, in, e, add)
    OBVIOUS
  <2>7. h \in GraphSet
    BY <1>4, <2>1, <2>2, <2>3, <2>4, <2>6, Zenon DEF GraphSet
  <2>8. /\ h.keys = keys /\ h.edges = edges /\ h.marks = marks /\ h.visual = visual
        /\ h.again = again /\ h.at = at
    BY <1>4, <1>5, <2>1, <2>6 DEF GraphSet
  <2>9. UpdateLeaves(h, k, moved, in, e)
    BY <1>3, <2>5, <2>8 DEF UpdateLeaves
  <2> QED BY <2>6, <2>7, <2>9
<1> QED BY <1>6, <1>7

LEMMA UpdatedFields ==
  ASSUME graph \in GraphSet, NEW k \in Nat \ {0}, NEW moved \in BOOLEAN,
         NEW in \in InputSet, NEW e \in Nat, NEW eligible, NEW definite, NEW throws
  PROVE  LET up == Updated(k, moved, in, e, eligible, definite, throws)
         IN  up.graph \in GraphSet /\ UpdateLeaves(up.graph, k, moved, in, e)
<1> DEFINE add == eligible /\ Visual(k, in, e) \notin graph.visual
           up == Updated(k, moved, in, e, eligible, definite, throws)
<1>0. add \in BOOLEAN
  OBVIOUS
<1>1. ASSUME NEW bad, NEW failed \in BOOLEAN,
             bad = [graph EXCEPT !.degraded = TRUE, !.failed = failed]
      PROVE  bad \in GraphSet /\ UpdateLeaves(bad, k, moved, in, e)
  <2>1. bad \in GraphSet
    BY <1>1, Zenon DEF GraphSet
  <2>2. /\ bad.keys = graph.keys /\ bad.edges = graph.edges /\ bad.marks = graph.marks
        /\ bad.visual = graph.visual /\ bad.again = graph.again /\ bad.at = graph.at
    BY <1>1 DEF GraphSet
  <2> QED BY <2>1, <2>2 DEF UpdateLeaves
<1>2. CASE graph.failed
  <2>1. up.graph = graph
    BY <1>2 DEF Updated
  <2> QED BY <2>1 DEF UpdateLeaves
<1>3. CASE ~graph.failed /\ (Unanchored(k, moved) \/ (add /\ ~definite))
  <2>1. up.graph = [graph EXCEPT !.degraded = TRUE]
    BY <1>3, Zenon DEF Updated
  <2>2. graph.failed = FALSE
    BY <1>3 DEF GraphSet
  <2>3. [graph EXCEPT !.degraded = TRUE] = [graph EXCEPT !.degraded = TRUE, !.failed = FALSE]
    BY <2>2 DEF GraphSet
  <2> QED BY <1>1, <2>1, <2>3
<1>4. CASE ~graph.failed /\ ~(Unanchored(k, moved) \/ (add /\ ~definite))
           /\ k \in graph.keys /\ ~add
  <2>1. up.graph = Noted(graph, in, e)
    BY <1>4, Zenon DEF Updated
  <2> QED BY <2>1, NotedFields DEF UpdateLeaves
<1>5. CASE ~graph.failed /\ ~(Unanchored(k, moved) \/ (add /\ ~definite))
           /\ ~(k \in graph.keys /\ ~add) /\ throws
  <2>1. up.graph = [[graph EXCEPT !.degraded = TRUE] EXCEPT !.failed = TRUE]
    BY <1>5, Zenon DEF Updated
  <2>2. [[graph EXCEPT !.degraded = TRUE] EXCEPT !.failed = TRUE]
          = [graph EXCEPT !.degraded = TRUE, !.failed = TRUE]
    OBVIOUS
  <2> QED BY <1>1, <2>1, <2>2
<1>6. CASE ~graph.failed /\ ~(Unanchored(k, moved) \/ (add /\ ~definite))
           /\ ~(k \in graph.keys /\ ~add) /\ ~throws
  <2>1. up.graph = Grown(k, moved, in, e, add)
    BY <1>6, Zenon DEF Updated
  <2> HIDE DEF add
  <2>2. /\ Grown(k, moved, in, e, add) \in GraphSet
        /\ UpdateLeaves(Grown(k, moved, in, e, add), k, moved, in, e)
    BY <1>0, <1>6, GrownFields
  <2> QED BY <2>1, <2>2
<1> QED BY <1>2, <1>3, <1>4, <1>5, <1>6

-----------------------------------------------------------------------------
(* Where the graph hangs. *)

GraphType ==
  graph \in GraphSet /\ chart.marks \in PerBoard(MarkSet) /\ chart.episodes \in Nat

\* inputs wait in the order of their times, and no landmark is ahead of them
Orderly ==
  /\ \A i \in 1..Len(inbox.queue) : inbox.queue[i].t <= inbox.last
  /\ \A i, j \in 1..Len(inbox.queue) : i < j => inbox.queue[i].t <= inbox.queue[j].t
  /\ \A i \in 1..Len(inbox.hand) :
       /\ inbox.hand[i].t <= inbox.last
       /\ \A j \in 1..Len(inbox.queue) : inbox.hand[i].t <= inbox.queue[j].t
  /\ \A b \in DOMAIN chart.marks :
       /\ chart.marks[b].last <= inbox.last
       /\ \A i \in 1..Len(inbox.queue) : chart.marks[b].last <= inbox.queue[i].t
       /\ \A i \in 1..Len(inbox.hand) : chart.marks[b].last <= inbox.hand[i].t

\* an episode is of one landmark, in the chart and in the graph
OfOneLandmark ==
  /\ \A b \in DOMAIN chart.marks : chart.marks[b].episode \in 1..chart.episodes
  /\ \A a, b \in DOMAIN chart.marks :
       chart.marks[a].episode = chart.marks[b].episode => a = b
  /\ \A v \in graph.visual : v[2] \in DOMAIN chart.marks /\ v[3] \in 1..chart.episodes
  /\ \A v \in graph.visual, b \in DOMAIN chart.marks :
       v[3] = chart.marks[b].episode => v[2] = b

\* a factor of an earlier episode is old
NotesBehind ==
  /\ DOMAIN graph.at \subseteq DOMAIN chart.marks
  /\ \A b \in DOMAIN graph.at :
       /\ graph.at[b].episode <= chart.marks[b].episode
       /\ graph.at[b].t <= chart.marks[b].last
       /\ graph.at[b].episode # chart.marks[b].episode
            => chart.marks[b].last - graph.at[b].t > EpisodeGap

AnchorInv ==
  LedgerInv /\ GraphType /\ Orderly /\ OfOneLandmark /\ NotesBehind /\ GraphAnchored

\* what an input does to its landmark
Sights(in, e) ==
  LET b == in.board
  IN  /\ chart'.marks \in PerBoard(MarkSet) /\ DOMAIN chart'.marks = DOMAIN chart.marks \cup {b}
      /\ \A x \in DOMAIN chart.marks : x # b => chart'.marks[x] = chart.marks[x]
      /\ chart'.marks[b].episode = e /\ chart'.marks[b].last = in.t
      /\ chart'.marks[b].keyed
           => b \in graph'.marks \/ (b \in DOMAIN chart.marks /\ chart.marks[b].keyed)
      /\ chart'.episodes \in Nat
      /\ \/ /\ e = chart.episodes + 1 /\ chart'.episodes = e
            /\ b \in DOMAIN chart.marks => in.t - chart.marks[b].last > EpisodeGap
         \/ /\ b \in DOMAIN chart.marks /\ e = chart.marks[b].episode
            /\ chart'.episodes = chart.episodes

LEMMA ProcessedMarks ==
  ASSUME GraphType, chart.poses \in Seq(PoseSet), NEW in \in InputSet, NEW created \in BOOLEAN,
         NEW far, NEW definite, NEW throws, ~created => Keys > 0,
         Processes(in, created, far, definite, throws)
  PROVE  \E e \in Nat, moved \in BOOLEAN :
           /\ Sights(in, e) /\ graph' \in GraphSet
           /\ UpdateLeaves(graph', Len(PosesWith(in, created)), moved, in, e)
<1> DEFINE b == in.board
           k == Len(PosesWith(in, created))
           e == Sighted(in).episode
           moved == created /\ k > 1
           up == Updated(k, moved, in, e, created \/ Coalesces(in, far), definite, throws)
           keys == up.ok /\ b \in up.graph.marks
<1>0. b \in Boards /\ in.id \in Nat /\ in.t \in Nat /\ chart.episodes \in Nat
      /\ chart.marks \in PerBoard(MarkSet) /\ graph \in GraphSet
  BY DEF InputSet, GraphType
<1>1. /\ graph' = up.graph
      /\ chart'.marks = Placed(chart.marks, b, [Sighted(in) EXCEPT !.keyed = @ \/ keys])
      /\ chart'.episodes = chart.episodes + (IF NewEpisode(in) THEN 1 ELSE 0)
  BY Zenon DEF Processes
<1>2. Landmark(in) \in MarkSet
  <2>1. CASE b \in DOMAIN chart.marks
    BY <1>0, <2>1, PerBoardFields DEF Landmark
  <2>2. CASE b \notin DOMAIN chart.marks
    <3>1. <<>> \in Seq(Nat) /\ 0 \in Nat
      OBVIOUS
    <3> QED BY <2>2, <3>1 DEF Landmark, MarkSet
  <2> QED BY <2>1, <2>2
<1> DEFINE episode == IF NewEpisode(in) THEN chart.episodes + 1 ELSE Landmark(in).episode
           inputs == Append(Landmark(in).seen, in.id)
<1>3. episode \in Nat /\ inputs \in Seq(Nat)
  <2>1. Landmark(in).episode \in Nat /\ Landmark(in).seen \in Seq(Nat)
    BY <1>2 DEF MarkSet
  <2> QED BY <1>0, <2>1, AppendProperties
<1>4. Sighted(in) = [Landmark(in) EXCEPT !.episode = episode, !.last = in.t, !.seen = inputs]
  BY Zenon DEF Sighted
<1>5. PICK made \in BOOLEAN : made = keys
  OBVIOUS
<1>6. made => b \in graph'.marks
  BY <1>1, <1>5
<1>7. k \in Nat \ {0}
  BY PosesWithFields
<1>8. moved \in BOOLEAN
  OBVIOUS
<1>9. /\ NewEpisode(in) => (b \in DOMAIN chart.marks => in.t - chart.marks[b].last > EpisodeGap)
      /\ ~NewEpisode(in) => b \in DOMAIN chart.marks
      /\ b \in DOMAIN chart.marks => Landmark(in) = chart.marks[b]
      /\ b \notin DOMAIN chart.marks => Landmark(in).keyed = FALSE
  BY DEF NewEpisode, Landmark
<1>10. /\ NewEpisode(in) => episode = chart.episodes + 1
       /\ ~NewEpisode(in) => episode = Landmark(in).episode
  OBVIOUS
<1> HIDE DEF keys, episode, inputs
<1>11. PICK mark : mark = Sighted(in)
  OBVIOUS
<1>12. mark \in MarkSet
  BY <1>0, <1>2, <1>3, <1>4, <1>11, Zenon DEF MarkSet
<1>13. mark.episode = episode /\ mark.last = in.t /\ mark.keyed = Landmark(in).keyed
  BY <1>2, <1>4, <1>11 DEF MarkSet
<1>14. PICK m : m = [mark EXCEPT !.keyed = mark.keyed \/ made]
  OBVIOUS
<1>15. m \in MarkSet
  BY <1>12, <1>14, Zenon DEF MarkSet
<1>16. m.episode = episode /\ m.last = in.t /\ (m.keyed <=> mark.keyed \/ made)
  BY <1>12, <1>13, <1>14 DEF MarkSet
<1>17. chart'.marks = Placed(chart.marks, b, m)
  BY <1>1, <1>5, <1>11, <1>14, Zenon
<1>18. /\ chart'.marks \in PerBoard(MarkSet)
       /\ DOMAIN chart'.marks = DOMAIN chart.marks \cup {b} /\ chart'.marks[b] = m
       /\ \A x \in DOMAIN chart.marks : x # b => chart'.marks[x] = chart.marks[x]
  <2> DEFINE new == Placed(chart.marks, b, m)
  <2>1. /\ new \in PerBoard(MarkSet)
        /\ DOMAIN new = DOMAIN chart.marks \cup {b} /\ new[b] = m
        /\ \A x \in DOMAIN chart.marks : x # b => new[x] = chart.marks[x]
    <3>1. new \in PerBoard(MarkSet)
      BY <1>0, <1>15, PlacedType
    <3>2. /\ DOMAIN new = DOMAIN chart.marks \cup {b} /\ new[b] = m
          /\ \A x \in DOMAIN chart.marks : x # b => new[x] = chart.marks[x]
      <4> HIDE DEF b
      <4> QED BY DEF Placed
    <3> QED BY <3>1, <3>2
  <2>2. chart'.marks = new
    BY <1>17
  <2> HIDE DEF new
  <2> QED BY <2>1, <2>2
<1>19. m.keyed => b \in graph'.marks \/ (b \in DOMAIN chart.marks /\ chart.marks[b].keyed)
  BY <1>6, <1>9, <1>13, <1>16
<1>20. /\ chart'.episodes \in Nat
       /\ \/ /\ episode = chart.episodes + 1 /\ chart'.episodes = episode
             /\ b \in DOMAIN chart.marks => in.t - chart.marks[b].last > EpisodeGap
          \/ /\ b \in DOMAIN chart.marks /\ episode = chart.marks[b].episode
             /\ chart'.episodes = chart.episodes
  <2>1. CASE NewEpisode(in)
    BY <1>0, <1>1, <1>9, <1>10, <2>1
  <2>2. CASE ~NewEpisode(in)
    BY <1>0, <1>1, <1>9, <1>10, <2>2
  <2> QED BY <2>1, <2>2
<1>21. Sights(in, episode)
  BY <1>16, <1>18, <1>19, <1>20 DEF Sights
<1>22. episode = e
  BY <1>11, <1>13
<1>23. up.graph \in GraphSet /\ UpdateLeaves(up.graph, k, moved, in, e)
  <2>1. e \in Nat
    BY <1>3, <1>22
  <2> HIDE DEF k, e, moved
  <2> QED BY <1>0, <1>7, <1>8, <2>1, UpdatedFields
<1> HIDE DEF e, up
<1> QED BY <1>1, <1>3, <1>8, <1>21, <1>22, <1>23

-----------------------------------------------------------------------------
(* What one input leaves of the graph. *)

\* one input processed, with all that hangs on it
Follows(in, e, created, moved, keyed) ==
  /\ in \in InputSet /\ e \in Nat /\ created \in BOOLEAN /\ moved \in BOOLEAN
  /\ ~created => Keys > 0
  /\ Sights(in, e) /\ graph' \in GraphSet /\ UpdateLeaves(graph', Keys', moved, in, e)
  /\ Extended(chart.poses, in, created, keyed) /\ (keyed => Keys' \in graph'.keys)

LEMMA FollowsFromProcess ==
  ASSUME LedgerInv, GraphType, Process
  PROVE  \E e \in Nat, created, moved, keyed \in BOOLEAN :
           Follows(inbox.hand[1], e, created, moved, keyed)
<1> DEFINE in == inbox.hand[1]
<1>1. Len(inbox.hand) = 1 /\ chart.poses \in Seq(PoseSet) /\ inbox \in InboxSet
  BY DEF LedgerInv, LandmarkType, Worker, Process
<1>2. /\ in \in InputSet
      /\ \E created, definite, throws \in BOOLEAN : \E far :
           (~created => Keys > 0) /\ Processes(in, created, far, definite, throws)
  BY <1>1, ProcessFields
<1>3. PICK created \in BOOLEAN, definite \in BOOLEAN, throws \in BOOLEAN :
        \E far : (~created => Keys > 0) /\ Processes(in, created, far, definite, throws)
  BY <1>2, Zenon
<1>4. PICK far : (~created => Keys > 0) /\ Processes(in, created, far, definite, throws)
  BY <1>3, Zenon
<1>5. PICK keyed \in BOOLEAN :
        Extended(chart.poses, in, created, keyed) /\ (keyed => Keys' \in graph'.keys)
  BY <1>1, <1>2, <1>4, ProcessedPoses
<1>6. PICK e \in Nat, moved \in BOOLEAN :
        /\ Sights(in, e) /\ graph' \in GraphSet
        /\ UpdateLeaves(graph', Len(PosesWith(in, created)), moved, in, e)
  BY <1>1, <1>2, <1>4, ProcessedMarks
<1>7. Keys' = Len(PosesWith(in, created))
  <2>1. Len(PosesWith(in, created)) = (IF created THEN Keys + 1 ELSE Keys)
    BY <1>1, <1>2, <1>4, PosesWithFields
  <2> QED BY <1>5, <2>1 DEF Extended, Keys
<1>8. Follows(in, e, created, moved, keyed)
  BY <1>2, <1>4, <1>5, <1>6, <1>7 DEF Follows
<1> QED BY <1>8

LEMMA FollowedKeys ==
  ASSUME LedgerInv, GraphType, GraphAnchored, NEW in, NEW e, NEW created, NEW moved,
         NEW keyed, Follows(in, e, created, moved, keyed)
  PROVE  /\ Keys \in Nat /\ Keys' \in Nat \ {0} /\ Keys' = (IF created THEN Keys + 1 ELSE Keys)
         /\ graph'.keys \subseteq 1..Keys' /\ graph.keys \subseteq graph'.keys
         /\ \A k, j \in graph'.keys : j..k \subseteq graph'.keys
         /\ \A k, j \in graph'.keys :
              j < k => {<<i - 1, i>> : i \in (j + 1)..k} \subseteq graph'.edges
<1> DEFINE n == Keys'
<1>1. /\ Keys \in Nat /\ n \in Nat \ {0} /\ n = (IF created THEN Keys + 1 ELSE Keys)
      /\ created \in BOOLEAN
  <2>1. chart.poses \in Seq(PoseSet)
    BY DEF LedgerInv, LandmarkType
  <2>2. Len(chart.poses) \in Nat /\ Len(chart'.poses) \in Nat
    BY <2>1 DEF Follows, Extended
  <2> QED BY <2>2 DEF Follows, Extended, Keys
<1>2. /\ graph.keys \subseteq 1..Keys
      /\ \A k, j \in graph.keys : j..k \subseteq graph.keys
      /\ \A k, j \in graph.keys :
           j < k => {<<i - 1, i>> : i \in (j + 1)..k} \subseteq graph.edges
  BY DEF GraphAnchored
<1>3. CASE graph'.keys = graph.keys /\ graph'.edges = graph.edges
  <2>1. 1..Keys \subseteq 1..n
    BY <1>1
  <2> QED BY <1>1, <1>2, <1>3, <2>1
<1>4. CASE /\ n \notin graph.keys /\ (graph.keys = {} \/ (moved /\ n - 1 \in graph.keys))
           /\ graph'.keys = graph.keys \cup {n}
           /\ graph'.edges = graph.edges \cup (IF moved THEN {<<n - 1, n>>} ELSE {})
  <2> HIDE DEF n
  <2>1. graph'.keys \subseteq 1..n
    <3>1. 1..Keys \subseteq 1..n /\ n \in 1..n
      BY <1>1
    <3> QED BY <1>2, <1>4, <3>1
  <2>2. \A k \in graph.keys : k \in Nat /\ k < n
    <3> TAKE k \in graph.keys
    <3>1. k \in 1..Keys /\ k # n
      BY <1>2, <1>4
    <3> QED BY <1>1, <3>1
  <2>3. ASSUME NEW k \in graph'.keys, NEW j \in graph'.keys
        PROVE  j..k \subseteq graph'.keys
    <3>1. CASE k = n /\ j = n
      <4>1. j..k = {n}
        BY <1>1, <3>1
      <4> QED BY <1>4, <4>1
    <3>2. CASE k = n /\ j \in graph.keys
      <4>1. n - 1 \in graph.keys
        BY <1>4, <3>2
      <4>2. j..(n - 1) \subseteq graph.keys
        BY <1>2, <3>2, <4>1
      <4>3. j \in Nat /\ n \in Nat /\ j..n \subseteq j..(n - 1) \cup {n}
        BY <1>1, <2>2, <3>2
      <4> QED BY <1>4, <3>2, <4>2, <4>3
    <3>3. CASE k \in graph.keys /\ j = n
      <4>1. k \in Nat /\ k < n
        BY <2>2, <3>3
      <4>2. j..k = {}
        BY <1>1, <3>3, <4>1
      <4> QED BY <4>2
    <3>4. CASE k \in graph.keys /\ j \in graph.keys
      BY <1>2, <1>4, <3>4
    <3> QED BY <1>4, <3>1, <3>2, <3>3, <3>4
  <2>4. ASSUME NEW k \in graph'.keys, NEW j \in graph'.keys, j < k,
               NEW i \in (j + 1)..k
        PROVE  <<i - 1, i>> \in graph'.edges
    <3>1. CASE k = n /\ j = n
      BY <1>1, <2>4, <3>1
    <3>2. CASE k = n /\ j \in graph.keys
      <4>1. n - 1 \in graph.keys /\ moved
        BY <1>4, <3>2
      <4>2. j \in Nat /\ n \in Nat /\ n - 1 \in Nat
        BY <1>1, <2>2, <3>2
      <4>3. CASE i = n
        BY <1>4, <4>1, <4>3
      <4>4. CASE i # n
        <5>1. i \in (j + 1)..(n - 1) /\ j < n - 1
          BY <2>4, <3>2, <4>2, <4>4
        <5>2. <<i - 1, i>> \in graph.edges
          BY <1>2, <3>2, <4>1, <5>1
        <5> QED BY <1>4, <5>2
      <4> QED BY <4>3, <4>4
    <3>3. CASE k \in graph.keys /\ j = n
      <4>1. k \in Nat /\ k < n
        BY <2>2, <3>3
      <4> QED BY <1>1, <2>4, <3>3, <4>1
    <3>4. CASE k \in graph.keys /\ j \in graph.keys
      <4>1. <<i - 1, i>> \in graph.edges
        BY <1>2, <2>4, <3>4
      <4> QED BY <1>4, <4>1
    <3> QED BY <1>4, <3>1, <3>2, <3>3, <3>4
  <2> QED BY <1>1, <1>4, <2>1, <2>3, <2>4 DEF n
<1> QED BY <1>3, <1>4 DEF Follows, UpdateLeaves

LEMMA FollowedVisual ==
  ASSUME LedgerInv, GraphType, OfOneLandmark, GraphAnchored, NEW in, NEW e, NEW created,
         NEW moved, NEW keyed, Follows(in, e, created, moved, keyed)
  PROVE  /\ \A v \in graph'.visual : v[1] \in graph'.keys /\ v[2] \in chart'.poses[v[1]].marks
         /\ graph'.marks = {v[2] : v \in graph'.visual} /\ graph.marks \subseteq graph'.marks
         /\ \A v, w \in graph'.visual : v[3] = w[3] => v[2] = w[2]
         /\ OfOneLandmark'
<1> DEFINE n == Keys'
           b == in.board
           new == Visual(n, in, e)
<1>1. /\ Keys \in Nat /\ n \in Nat \ {0} /\ n = (IF created THEN Keys + 1 ELSE Keys)
      /\ graph'.keys \subseteq 1..n /\ graph.keys \subseteq graph'.keys
      /\ graph.keys \subseteq 1..Keys
  BY FollowedKeys DEF GraphAnchored
<1>2. b \in Boards /\ e \in Nat
  BY DEF Follows, InputSet
<1>3. \/ /\ graph'.visual = graph.visual /\ graph'.marks = graph.marks
      \/ /\ n \in graph'.keys /\ graph'.visual = graph.visual \cup {new}
         /\ graph'.marks = graph.marks \cup {b}
  BY DEF Follows, UpdateLeaves
<1>4. new[1] = n /\ new[2] = b /\ new[3] = e
  BY DEF Visual
<1>5. \A k \in 1..Keys : k \in 1..n /\ chart.poses[k].marks \subseteq chart'.poses[k].marks
  <2> TAKE k \in 1..Keys
  <2>1. k \in 1..n
    BY <1>1
  <2>2. CASE k # n
    BY <2>1, <2>2 DEF Follows, Extended, Keys
  <2>3. CASE k = n
    <3>1. n = Keys /\ ~created
      BY <1>1, <2>3
    <3> QED BY <2>3, <3>1 DEF Follows, Extended, Keys
  <2> QED BY <2>1, <2>2, <2>3
<1>6. b \in chart'.poses[n].marks
  BY DEF Follows, Extended, Keys
<1>7. \A v \in graph.visual : v[1] \in graph.keys /\ v[2] \in chart.poses[v[1]].marks
  BY DEF GraphAnchored
<1>8. \A v \in graph.visual : v[1] \in graph'.keys /\ v[2] \in chart'.poses[v[1]].marks
  <2> TAKE v \in graph.visual
  <2>1. v[1] \in graph.keys /\ v[2] \in chart.poses[v[1]].marks
    BY <1>7
  <2>2. v[1] \in 1..Keys
    BY <1>1, <2>1
  <2> QED BY <1>1, <1>5, <2>1, <2>2
<1>9. graph.marks = {v[2] : v \in graph.visual}
  BY DEF GraphAnchored
<1>10. /\ DOMAIN chart'.marks = DOMAIN chart.marks \cup {b}
       /\ \A x \in DOMAIN chart.marks : x # b => chart'.marks[x] = chart.marks[x]
       /\ chart'.marks[b].episode = e
       /\ chart.episodes \in Nat /\ chart'.episodes \in Nat
       /\ \/ e = chart.episodes + 1 /\ chart'.episodes = e
          \/ /\ b \in DOMAIN chart.marks /\ e = chart.marks[b].episode
             /\ chart'.episodes = chart.episodes
  BY DEF Follows, Sights, GraphType
<1> HIDE DEF new, n, b
<1>11. e \in 1..chart'.episodes /\ 1..chart.episodes \subseteq 1..chart'.episodes
  <2>1. CASE e = chart.episodes + 1 /\ chart'.episodes = e
    BY <1>10, <2>1
  <2>2. CASE b \in DOMAIN chart.marks /\ e = chart.marks[b].episode
             /\ chart'.episodes = chart.episodes
    BY <2>2 DEF OfOneLandmark
  <2> QED BY <1>10, <2>1, <2>2
\* an earlier landmark with this episode is the board's own
<1>12. \A x \in DOMAIN chart.marks : chart.marks[x].episode = e => x = b
  <2> TAKE x \in DOMAIN chart.marks
  <2>1. CASE e = chart.episodes + 1
    BY <1>10, <2>1 DEF OfOneLandmark
  <2>2. CASE b \in DOMAIN chart.marks /\ e = chart.marks[b].episode
    BY <2>2 DEF OfOneLandmark
  <2> QED BY <1>10, <2>1, <2>2
<1>13. \A v \in graph.visual : v[3] = e => v[2] = b
  <2> TAKE v \in graph.visual
  <2>1. CASE e = chart.episodes + 1
    BY <1>10, <2>1 DEF OfOneLandmark
  <2>2. CASE b \in DOMAIN chart.marks /\ e = chart.marks[b].episode
    BY <2>2 DEF OfOneLandmark
  <2> QED BY <1>10, <2>1, <2>2
<1>14. \A v \in graph'.visual : v \in graph.visual \/ (v = new /\ n \in graph'.keys)
  BY <1>3
<1>15. \A v \in graph'.visual : v[1] \in graph'.keys /\ v[2] \in chart'.poses[v[1]].marks
  BY <1>4, <1>6, <1>8, <1>14
<1>16. graph'.marks = {v[2] : v \in graph'.visual} /\ graph.marks \subseteq graph'.marks
  BY <1>3, <1>4, <1>9
<1>17. \A v, w \in graph.visual : v[3] = w[3] => v[2] = w[2]
  BY DEF GraphAnchored
<1>18. \A v, w \in graph'.visual : v[3] = w[3] => v[2] = w[2]
  BY <1>4, <1>13, <1>14, <1>17
<1>19. OfOneLandmark'
  <2>1. \A x \in DOMAIN chart'.marks : chart'.marks[x].episode \in 1..chart'.episodes
    <3> TAKE x \in DOMAIN chart'.marks
    <3>1. CASE x = b
      BY <1>10, <1>11, <3>1
    <3>2. CASE x # b
      BY <1>10, <1>11, <3>2 DEF OfOneLandmark
    <3> QED BY <3>1, <3>2
  <2>2. \A x, y \in DOMAIN chart'.marks :
          chart'.marks[x].episode = chart'.marks[y].episode => x = y
    <3> TAKE x, y \in DOMAIN chart'.marks
    <3>1. CASE x = b /\ y = b
      BY <3>1
    <3>2. CASE x = b /\ y # b
      BY <1>10, <1>12, <3>2
    <3>3. CASE x # b /\ y = b
      BY <1>10, <1>12, <3>3
    <3>4. CASE x # b /\ y # b
      BY <1>10, <3>4 DEF OfOneLandmark
    <3> QED BY <3>1, <3>2, <3>3, <3>4
  <2>3. \A v \in graph'.visual : v[2] \in DOMAIN chart'.marks /\ v[3] \in 1..chart'.episodes
    BY <1>4, <1>10, <1>11, <1>14 DEF OfOneLandmark
  <2>4. \A v \in graph'.visual, x \in DOMAIN chart'.marks :
          v[3] = chart'.marks[x].episode => v[2] = x
    <3> TAKE v \in graph'.visual, x \in DOMAIN chart'.marks
    <3>1. CASE v \in graph.visual /\ x = b
      BY <1>10, <1>13, <3>1
    <3>2. CASE v \in graph.visual /\ x # b
      BY <1>10, <3>2 DEF OfOneLandmark
    <3>3. CASE v = new /\ x = b
      BY <1>4, <3>3
    <3>4. CASE v = new /\ x # b
      BY <1>4, <1>10, <1>12, <3>4
    <3> QED BY <1>14, <3>1, <3>2, <3>3, <3>4
  <2> QED BY <2>1, <2>2, <2>3, <2>4 DEF OfOneLandmark
<1> QED BY <1>15, <1>16, <1>18, <1>19 DEF n

-----------------------------------------------------------------------------
(* The order of the inputs and the graph over all steps. *)

LEMMA FollowedNotes ==
  ASSUME GraphType, Orderly, OfOneLandmark, NotesBehind, GraphAnchored, inbox \in InboxSet,
         NEW in, NEW e, NEW created, NEW moved, NEW keyed,
         Follows(in, e, created, moved, keyed),
         \A b \in DOMAIN chart.marks : chart.marks[b].last <= in.t
  PROVE  /\ \A r \in graph'.again : r.gap > EpisodeGap /\ r.before < r.episode
         /\ NotesBehind'
<1> DEFINE b == in.board
           note == [episode |-> e, t |-> in.t]
<1>1. /\ DOMAIN chart'.marks = DOMAIN chart.marks \cup {b}
      /\ \A x \in DOMAIN chart.marks : x # b => chart'.marks[x] = chart.marks[x]
      /\ chart'.marks[b].episode = e /\ chart'.marks[b].last = in.t
      /\ \/ /\ e = chart.episodes + 1
            /\ b \in DOMAIN chart.marks => in.t - chart.marks[b].last > EpisodeGap
         \/ b \in DOMAIN chart.marks /\ e = chart.marks[b].episode
  BY DEF Follows, Sights
<1>2. /\ graph'.again = graph.again \/ graph'.again = graph.again \cup Reobserved(in, e)
      /\ graph'.at = graph.at \/ graph'.at = Placed(graph.at, b, note)
  BY DEF Follows, UpdateLeaves
<1>3. /\ b \in Boards /\ e \in Nat /\ in.t \in Nat /\ chart.episodes \in Nat
      /\ EpisodeGap \in Nat
  BY LandmarkPolicyAssumption DEF Follows, InputSet, GraphType, LandmarkPolicyAssumption
<1>4. /\ graph.at \in PerBoard(NoteSet) /\ chart.marks \in PerBoard(MarkSet)
      /\ DOMAIN graph.at \subseteq DOMAIN chart.marks
  BY DEF GraphType, GraphSet, NotesBehind
<1>5. \A x \in DOMAIN graph.at :
        /\ graph.at[x].episode \in Nat /\ graph.at[x].t \in Nat
        /\ chart.marks[x].episode \in Nat /\ chart.marks[x].last \in Nat
        /\ chart.marks[x].episode <= chart.episodes
  <2> TAKE x \in DOMAIN graph.at
  <2>1. graph.at[x] \in NoteSet
    BY <1>4, PerBoardFields
  <2>2. chart.marks[x] \in MarkSet /\ x \in DOMAIN chart.marks
    BY <1>4, PerBoardFields
  <2>3. chart.marks[x].episode \in 1..chart.episodes
    BY <2>2 DEF OfOneLandmark
  <2> QED BY <1>3, <2>1, <2>2, <2>3 DEF NoteSet, MarkSet
\* the note of the board, seen from the input in hand
<1>6. b \in DOMAIN graph.at =>
        /\ graph.at[b].episode <= e /\ graph.at[b].t <= in.t
        /\ graph.at[b].episode # e => in.t - graph.at[b].t > EpisodeGap
  <2> SUFFICES ASSUME b \in DOMAIN graph.at
               PROVE  /\ graph.at[b].episode <= e /\ graph.at[b].t <= in.t
                      /\ graph.at[b].episode # e => in.t - graph.at[b].t > EpisodeGap
    OBVIOUS
  <2> DEFINE ae == graph.at[b].episode
             at == graph.at[b].t
             me == chart.marks[b].episode
             ml == chart.marks[b].last
  <2>1. /\ ae \in Nat /\ at \in Nat /\ me \in Nat /\ ml \in Nat /\ me <= chart.episodes
        /\ b \in DOMAIN chart.marks
    BY <1>4, <1>5
  <2>2. ae <= me /\ at <= ml /\ (ae # me => ml - at > EpisodeGap) /\ ml <= in.t
    BY <2>1 DEF NotesBehind
  <2>3. (e = chart.episodes + 1 /\ in.t - ml > EpisodeGap) \/ e = me
    BY <1>1, <2>1
  <2> HIDE DEF ae, at, me, ml
  <2>4. ae <= e /\ at <= in.t /\ (ae # e => in.t - at > EpisodeGap)
    BY <1>3, <2>1, <2>2, <2>3
  <2> QED BY <2>4 DEF ae, at
<1>7. \A r \in Reobserved(in, e) : r.gap > EpisodeGap /\ r.before < r.episode
  <2> TAKE r \in Reobserved(in, e)
  <2>1. b \in DOMAIN graph.at /\ graph.at[b].episode # e
    BY DEF Reobserved
  <2>2. /\ r.before = graph.at[b].episode /\ r.episode = e
        /\ r.gap = in.t - graph.at[b].t
    BY <2>1 DEF Reobserved
  <2>3. graph.at[b].episode <= e /\ in.t - graph.at[b].t > EpisodeGap
        /\ graph.at[b].episode \in Nat
    BY <1>5, <1>6, <2>1
  <2> QED BY <1>3, <2>1, <2>2, <2>3
<1>8. \A r \in graph'.again : r.gap > EpisodeGap /\ r.before < r.episode
  BY <1>2, <1>7 DEF GraphAnchored
<1>9. CASE graph'.at = graph.at
  <2>1. \A x \in DOMAIN graph.at :
          /\ graph.at[x].episode <= chart'.marks[x].episode
          /\ graph.at[x].t <= chart'.marks[x].last
          /\ graph.at[x].episode # chart'.marks[x].episode
               => chart'.marks[x].last - graph.at[x].t > EpisodeGap
    <3> TAKE x \in DOMAIN graph.at
    <3>1. CASE x = b
      BY <1>1, <1>6, <3>1
    <3>2. CASE x # b
      <4>1. chart'.marks[x] = chart.marks[x]
        BY <1>1, <1>4, <3>2
      <4> QED BY <4>1 DEF NotesBehind
    <3> QED BY <3>1, <3>2
  <2>2. DOMAIN graph.at \subseteq DOMAIN chart'.marks
    BY <1>1, <1>4
  <2> QED BY <1>8, <1>9, <2>1, <2>2 DEF NotesBehind
<1>10. CASE graph'.at = Placed(graph.at, b, note)
  <2>1. /\ DOMAIN graph'.at = DOMAIN graph.at \cup {b} /\ graph'.at[b] = note
        /\ \A x \in DOMAIN graph.at : x # b => graph'.at[x] = graph.at[x]
    <3> HIDE DEF b, note
    <3> QED BY <1>10 DEF Placed
  <2>2. note.episode = e /\ note.t = in.t
    OBVIOUS
  <2>3. \A x \in DOMAIN graph'.at :
          /\ graph'.at[x].episode <= chart'.marks[x].episode
          /\ graph'.at[x].t <= chart'.marks[x].last
          /\ graph'.at[x].episode # chart'.marks[x].episode
               => chart'.marks[x].last - graph'.at[x].t > EpisodeGap
    <3> TAKE x \in DOMAIN graph'.at
    <3>1. CASE x = b
      <4>1. /\ graph'.at[x].episode = e /\ graph'.at[x].t = in.t
            /\ chart'.marks[x].episode = e /\ chart'.marks[x].last = in.t
        BY <1>1, <2>1, <2>2, <3>1
      <4> QED BY <1>3, <4>1
    <3>2. CASE x # b
      <4>1. x \in DOMAIN graph.at /\ graph'.at[x] = graph.at[x]
        BY <2>1, <3>2
      <4>2. chart'.marks[x] = chart.marks[x]
        BY <1>1, <1>4, <3>2, <4>1
      <4> QED BY <4>1, <4>2 DEF NotesBehind
    <3> QED BY <3>1, <3>2
  <2>4. DOMAIN graph'.at \subseteq DOMAIN chart'.marks
    BY <1>1, <1>4, <2>1
  <2> QED BY <1>8, <2>3, <2>4 DEF NotesBehind
<1> QED BY <1>2, <1>8, <1>9, <1>10

LEMMA FollowedFlags ==
  ASSUME LedgerInv, GraphType, GraphAnchored, NEW in, NEW e, NEW created, NEW moved,
         NEW keyed, Follows(in, e, created, moved, keyed), graph.marks \subseteq graph'.marks,
         graph.keys \subseteq graph'.keys, Keys' = (IF created THEN Keys + 1 ELSE Keys),
         Keys \in Nat
  PROVE  /\ \A k \in 1..Keys' : chart'.poses[k].keyed => k \in graph'.keys
         /\ \A b \in DOMAIN chart'.marks : chart'.marks[b].keyed => b \in graph'.marks
<1>1. /\ \A k \in 1..Keys : chart.poses[k].keyed => k \in graph.keys
      /\ \A b \in DOMAIN chart.marks : chart.marks[b].keyed => b \in graph.marks
  BY DEF GraphAnchored
<1>2. \A k \in 1..Keys' : chart'.poses[k].keyed => k \in graph'.keys
  <2> TAKE k \in 1..Keys'
  <2>1. CASE k # Keys'
    <3>1. k \in 1..Keys
      BY <2>1 DEF Follows
    <3>2. chart'.poses[k] = chart.poses[k]
      BY <2>1 DEF Follows, Extended, Keys
    <3> QED BY <1>1, <3>1, <3>2
  <2>2. CASE k = Keys'
    <3>1. chart'.poses[k].keyed <=> keyed \/ (~created /\ chart.poses[Keys].keyed)
      BY <2>2 DEF Follows, Extended, Keys
    <3>2. keyed => k \in graph'.keys
      BY <2>2 DEF Follows
    <3>3. ~created => Keys = k /\ Keys \in 1..Keys
      BY <2>2 DEF Follows
    <3> QED BY <1>1, <3>1, <3>2, <3>3
  <2> QED BY <2>1, <2>2
<1>3. \A b \in DOMAIN chart'.marks : chart'.marks[b].keyed => b \in graph'.marks
  BY <1>1 DEF Follows, Sights
<1> QED BY <1>2, <1>3

LEMMA AnchorProcess ==
  ASSUME AnchorInv, LedgerInv', Process
  PROVE  AnchorInv'
<1> DEFINE in == inbox.hand[1]
<1> USE DEF AnchorInv
<1>1. PICK e \in Nat, created \in BOOLEAN, moved \in BOOLEAN, keyed \in BOOLEAN :
        Follows(in, e, created, moved, keyed)
  BY FollowsFromProcess
<1>2. /\ Len(inbox.hand) = 1 /\ inbox \in InboxSet /\ chart.poses \in Seq(PoseSet)
  BY DEF LedgerInv, LandmarkType, Worker, Process
<1>3. inbox'.hand = <<>> /\ inbox'.queue = inbox.queue /\ inbox'.last = inbox.last
  BY <1>2, ProcessFields
<1>4. 1 \in 1..Len(inbox.hand) /\ inbox.queue \in Seq(InputSet) /\ Len(inbox'.hand) = 0
  BY <1>2, <1>3 DEF InboxSet
<1>5. /\ in.t <= inbox.last /\ \A j \in 1..Len(inbox.queue) : in.t <= inbox.queue[j].t
      /\ \A b \in DOMAIN chart.marks : chart.marks[b].last <= in.t
  BY <1>4 DEF Orderly
<1> HIDE DEF in
<1>6. GraphType'
  BY <1>1 DEF GraphType, Follows, Sights
<1>7. Orderly'
  <2>1. \A b \in DOMAIN chart'.marks :
          \/ b \in DOMAIN chart.marks /\ chart'.marks[b].last = chart.marks[b].last
          \/ chart'.marks[b].last = in.t
    BY <1>1 DEF Follows, Sights
  <2>2. \A b \in DOMAIN chart'.marks :
          /\ chart'.marks[b].last <= inbox.last
          /\ \A i \in 1..Len(inbox.queue) : chart'.marks[b].last <= inbox.queue[i].t
    BY <1>5, <2>1 DEF Orderly
  <2>3. \A i \in 1..0 : FALSE
    OBVIOUS
  <2> QED BY <1>3, <1>4, <2>2, <2>3 DEF Orderly
<1>8. /\ Keys \in Nat /\ Keys' = (IF created THEN Keys + 1 ELSE Keys)
      /\ graph'.keys \subseteq 1..Keys' /\ graph.keys \subseteq graph'.keys
      /\ \A k, j \in graph'.keys : j..k \subseteq graph'.keys
      /\ \A k, j \in graph'.keys :
           j < k => {<<i - 1, i>> : i \in (j + 1)..k} \subseteq graph'.edges
  BY <1>1, FollowedKeys
<1>9. /\ \A v \in graph'.visual : v[1] \in graph'.keys /\ v[2] \in chart'.poses[v[1]].marks
      /\ graph'.marks = {v[2] : v \in graph'.visual} /\ graph.marks \subseteq graph'.marks
      /\ \A v, w \in graph'.visual : v[3] = w[3] => v[2] = w[2]
      /\ OfOneLandmark'
  BY <1>1, FollowedVisual
<1>10. /\ \A r \in graph'.again : r.gap > EpisodeGap /\ r.before < r.episode
       /\ NotesBehind'
  BY <1>1, <1>2, <1>5, FollowedNotes
<1>11. /\ \A k \in 1..Keys' : chart'.poses[k].keyed => k \in graph'.keys
       /\ \A b \in DOMAIN chart'.marks : chart'.marks[b].keyed => b \in graph'.marks
  BY <1>1, <1>8, <1>9, FollowedFlags
<1>12. GraphAnchored'
  BY <1>8, <1>9, <1>10, <1>11 DEF GraphAnchored
<1> QED BY <1>6, <1>7, <1>9, <1>10, <1>12

LEMMA AnchorAside ==
  ASSUME AnchorInv, LedgerInv', UNCHANGED <<chart, graph>>,
         inbox'.queue = inbox.queue, inbox'.hand = inbox.hand, inbox'.last = inbox.last
  PROVE  AnchorInv'
BY DEF AnchorInv, GraphType, Orderly, OfOneLandmark, NotesBehind, GraphAnchored, Keys

LEMMA AnchorSubmit ==
  ASSUME AnchorInv, LedgerInv', NEW in \in InputSet, Submits(in)
  PROVE  AnchorInv'
<1>1. /\ ~inbox.stopping /\ UNCHANGED <<chart, graph>> /\ Submit(in) /\ inbox \in InboxSet
      /\ chart.marks \in PerBoard(MarkSet)
  BY DEF Submits, AnchorInv, LedgerInv, LandmarkType, GraphType
<1>2. /\ inbox'.hand = inbox.hand
      /\ \/ inbox'.queue = inbox.queue /\ inbox'.last = inbox.last
         \/ /\ inbox'.queue = Append(inbox.queue, in)
            /\ inbox'.last = in.t /\ in.t >= inbox.last
  BY <1>1, SubmitFields
<1>3. CASE inbox'.queue = inbox.queue /\ inbox'.last = inbox.last
  BY <1>1, <1>2, <1>3, AnchorAside
<1>4. CASE /\ inbox'.queue = Append(inbox.queue, in)
           /\ inbox'.last = in.t /\ in.t >= inbox.last
  <2>1. /\ inbox.queue \in Seq(InputSet) /\ inbox.hand \in Seq(InputSet)
        /\ in.t \in Nat /\ inbox.last \in Nat /\ Len(inbox.queue) \in Nat
    BY <1>1 DEF InboxSet, InputSet
  <2>2. /\ \A i \in 1..Len(inbox.queue) : inbox.queue[i].t \in Nat
        /\ \A i \in 1..Len(inbox.hand) : inbox.hand[i].t \in Nat
        /\ \A b \in DOMAIN chart.marks : chart.marks[b].last \in Nat
    <3>1. /\ \A i \in 1..Len(inbox.queue) : inbox.queue[i] \in InputSet
          /\ \A i \in 1..Len(inbox.hand) : inbox.hand[i] \in InputSet
          /\ \A b \in DOMAIN chart.marks : chart.marks[b] \in MarkSet
      BY <1>1, <2>1, ElementOfSeq, PerBoardFields
    <3> QED BY <3>1 DEF InputSet, MarkSet
  <2>3. /\ Len(inbox'.queue) = Len(inbox.queue) + 1
        /\ \A i \in 1..Len(inbox.queue) : inbox'.queue[i] = inbox.queue[i]
        /\ inbox'.queue[Len(inbox.queue) + 1] = in
    BY <1>4, <2>1, AppendProperties
  <2>4. \A i \in 1..Len(inbox'.queue) :
          \/ i \in 1..Len(inbox.queue) /\ inbox'.queue[i].t = inbox.queue[i].t
          \/ i = Len(inbox.queue) + 1 /\ inbox'.queue[i].t = in.t
    <3> TAKE i \in 1..Len(inbox'.queue)
    <3>1. i \in 1..Len(inbox.queue) \/ i = Len(inbox.queue) + 1
      BY <2>1, <2>3
    <3> QED BY <2>3, <3>1
  <2>5. /\ \A i \in 1..Len(inbox.queue) : inbox.queue[i].t <= in.t
        /\ \A i \in 1..Len(inbox.hand) : inbox.hand[i].t <= in.t
        /\ \A b \in DOMAIN chart.marks : chart.marks[b].last <= in.t
    <3>1. /\ \A i \in 1..Len(inbox.queue) : inbox.queue[i].t <= inbox.last
          /\ \A i \in 1..Len(inbox.hand) : inbox.hand[i].t <= inbox.last
          /\ \A b \in DOMAIN chart.marks : chart.marks[b].last <= inbox.last
      BY DEF AnchorInv, Orderly
    <3>2. \A x \in Nat : x <= inbox.last => x <= in.t
      BY <1>4, <2>1
    <3> QED BY <2>2, <3>1, <3>2
  <2>6. \A i \in 1..Len(inbox'.queue) : inbox'.queue[i].t <= in.t
    BY <2>1, <2>4, <2>5
  <2>7. \A i, j \in 1..Len(inbox'.queue) : i < j => inbox'.queue[i].t <= inbox'.queue[j].t
    <3> SUFFICES ASSUME NEW i \in 1..Len(inbox'.queue), NEW j \in 1..Len(inbox'.queue), i < j
                 PROVE  inbox'.queue[i].t <= inbox'.queue[j].t
      OBVIOUS
    <3>1. CASE j = Len(inbox.queue) + 1
      BY <2>3, <2>6, <3>1
    <3>2. CASE j \in 1..Len(inbox.queue)
      <4>1. i \in 1..Len(inbox.queue)
        BY <2>1, <3>2
      <4> QED BY <2>3, <3>2, <4>1 DEF AnchorInv, Orderly
    <3> QED BY <2>4, <3>1, <3>2
  <2>8. /\ \A i \in 1..Len(inbox.hand) :
             \A j \in 1..Len(inbox'.queue) : inbox.hand[i].t <= inbox'.queue[j].t
        /\ \A b \in DOMAIN chart.marks :
             \A i \in 1..Len(inbox'.queue) : chart.marks[b].last <= inbox'.queue[i].t
    BY <2>4, <2>5 DEF AnchorInv, Orderly
  <2>9. \A b \in DOMAIN chart.marks : \A i \in 1..Len(inbox.hand) :
          chart.marks[b].last <= inbox.hand[i].t
    BY DEF AnchorInv, Orderly
  <2>10. Orderly'
    BY <1>1, <1>2, <1>4, <2>5, <2>6, <2>7, <2>8, <2>9 DEF Orderly
  <2> QED BY <1>1, <2>10 DEF AnchorInv, GraphType, OfOneLandmark, NotesBehind, GraphAnchored, Keys
<1> QED BY <1>2, <1>3, <1>4

LEMMA AnchorPop ==
  ASSUME AnchorInv, LedgerInv', Pop
  PROVE  AnchorInv'
<1>1. inbox \in InboxSet
  BY DEF AnchorInv, LedgerInv, LandmarkType
<1>2. /\ UNCHANGED <<chart, graph>> /\ inbox.queue # <<>> /\ inbox.queue \in Seq(InputSet)
      /\ inbox'.hand = <<inbox.queue[1]>> /\ inbox'.queue = Tail(inbox.queue)
      /\ inbox'.last = inbox.last
  BY <1>1, PopFields DEF InboxSet
<1>3. /\ Len(inbox'.queue) = Len(inbox.queue) - 1 /\ Len(inbox.queue) \in Nat \ {0}
      /\ \A i \in 1..Len(inbox'.queue) : inbox'.queue[i] = inbox.queue[i + 1]
      /\ Len(inbox'.hand) = 1 /\ inbox'.hand[1] = inbox.queue[1]
  BY <1>2, HeadTailProperties
<1>4. /\ 1 \in 1..Len(inbox.queue)
      /\ \A i \in 1..Len(inbox'.queue) : i + 1 \in 1..Len(inbox.queue) /\ 1 < i + 1
      /\ \A i \in 1..Len(inbox'.hand) : i = 1
  BY <1>3
<1>5. \A i, j \in 1..Len(inbox'.queue) : i < j => inbox'.queue[i].t <= inbox'.queue[j].t
  <2> SUFFICES ASSUME NEW i \in 1..Len(inbox'.queue), NEW j \in 1..Len(inbox'.queue), i < j
               PROVE  inbox'.queue[i].t <= inbox'.queue[j].t
    OBVIOUS
  <2>1. i + 1 < j + 1
    BY <1>3
  <2> QED BY <1>3, <1>4, <2>1 DEF AnchorInv, Orderly
<1>6. Orderly'
  BY <1>2, <1>3, <1>4, <1>5 DEF AnchorInv, Orderly
<1> QED BY <1>2, <1>6 DEF AnchorInv, GraphType, OfOneLandmark, NotesBehind, GraphAnchored, Keys

LEMMA AnchorStays ==
  ASSUME AnchorInv, [Next]_vars
  PROVE  AnchorInv'
<1>0. LedgerInv /\ LedgerInv' /\ LandmarkType /\ inbox \in InboxSet
  BY LedgerStays DEF AnchorInv, LedgerInv, LandmarkType
<1>1. \/ Aside \/ SubmitsOne
      \/ Work /\ UNCHANGED <<sight, frame, vpc>>
      \/ AskToStop /\ vpc = "idle" /\ UNCHANGED <<sight, frame, vpc>>
  BY <1>0, LandmarkSteps
<1>2. CASE Aside
  BY <1>0, <1>2, AnchorAside DEF Aside, landmarkVars
<1>3. CASE SubmitsOne
  BY <1>0, <1>3, AnchorSubmit DEF SubmitsOne
<1>4. CASE Pop
  BY <1>0, <1>4, AnchorPop
<1>5. CASE Process
  BY <1>0, <1>5, AnchorProcess
<1>6. CASE Leave \/ Join \/ AskToStop
  BY <1>0, <1>6, OtherFields, AnchorAside
<1> QED BY <1>1, <1>2, <1>3, <1>4, <1>5, <1>6 DEF Work

LEMMA AnchorStarts == Init => AnchorInv
<1> SUFFICES ASSUME Init PROVE AnchorInv
  OBVIOUS
<1>1. LedgerInv
  BY LedgerStarts
<1>2. /\ graph = [failed |-> FALSE, degraded |-> FALSE, keys |-> {}, edges |-> {},
                  marks |-> {}, visual |-> {}, at |-> <<>>, again |-> {}]
      /\ chart = [marks |-> <<>>, poses |-> <<>>, episodes |-> 0]
      /\ inbox.queue = <<>> /\ inbox.hand = <<>>
  BY DEF Init, LandmarkInit, NoInbox, NoChart, NoGraph
<1>3. /\ graph.keys = {} /\ graph.edges = {} /\ graph.marks = {} /\ graph.visual = {}
      /\ graph.at = <<>> /\ graph.again = {}
      /\ chart.marks = <<>> /\ chart.poses = <<>> /\ chart.episodes = 0
  BY <1>2
<1>4. DOMAIN <<>> = {} /\ Len(<<>>) = 0 /\ \A i \in 1..0 : FALSE
  OBVIOUS
<1>5. ASSUME NEW S PROVE <<>> \in PerBoard(S)
  <2>1. <<>> \in [{} -> S]
    BY <1>4
  <2> QED BY <2>1, IsPerBoard
<1>6. GraphType
  <2>1. graph \in GraphSet
    <3>1. <<>> \in PerBoard(NoteSet)
      BY <1>5
    <3> QED BY <1>2, <3>1, Zenon DEF GraphSet
  <2> QED BY <1>3, <1>5, <2>1 DEF GraphType
<1>7. Orderly
  BY <1>2, <1>3, <1>4 DEF Orderly
<1>8. OfOneLandmark /\ NotesBehind
  BY <1>3, <1>4 DEF OfOneLandmark, NotesBehind
<1>9. GraphAnchored
  BY <1>3, <1>4 DEF GraphAnchored, Keys
<1> QED BY <1>1, <1>6, <1>7, <1>8, <1>9 DEF AnchorInv

\* The graph of landmarks only grows along the trajectory, for every episode
\* gap, board and answer of the solver: its keyposes are consecutive and tied,
\* its landmarks hang on them, and a reobservation is of a later episode.
THEOREM GraphStaysAnchored == Spec => []GraphAnchored
<1>1. AnchorInv /\ [Next]_vars => AnchorInv'
  BY AnchorStays
<1>2. AnchorInv => GraphAnchored
  BY DEF AnchorInv
<1> QED BY <1>1, <1>2, AnchorStarts, PTL DEF Spec

-----------------------------------------------------------------------------
(* The visual map. *)

PatchesOf == (SUBSET (1..MaxFrames)) \ {{}}

\* A point: observed, its reference one of its observations, never over the cap.
Sound(pt) ==
  /\ pt \in [obs : PatchesOf, ref : 0..MaxFrames, hasRef : BOOLEAN]
  /\ pt.ref # NoPatch => pt.ref \in pt.obs
  /\ Cardinality(pt.obs) <= MaxObs

MapSound(m) ==
  /\ DOMAIN m \subseteq (1..MaxFrames) \X Voxels
  /\ \A p \in DOMAIN m : Sound(m[p])

WithinVoxelCap(m) ==
  MaxPerVoxel > 0 => \A v \in Voxels : Cardinality(InVoxel(m, v)) <= MaxPerVoxel

WithinTotalCap(m, spared) ==
  \/ Excess(Cardinality(DOMAIN m), MaxTotal) = 0
  \/ DOMAIN m \subseteq spared

WithinVoxelTotal(m, spared) ==
  \/ Excess(Cardinality(UsedVoxels(m)), MaxVoxels) = 0
  \/ \A v \in UsedVoxels(m) : InVoxel(m, v) \cap spared # {}

\* m keeps a part of the map n, with all of the spared points.
PartOf(m, n, spared) ==
  /\ DOMAIN m \subseteq DOMAIN n
  /\ \A p \in DOMAIN m : m[p] = n[p]
  /\ DOMAIN n \cap spared \subseteq DOMAIN m

PointIds == (1..MaxFrames) \X Voxels

TrackSet == [submap : SUBSET PointIds, total : Nat, protected : SUBSET PointIds]

MapInv ==
  /\ track \in TrackSet
  /\ MapSound(vmap) /\ WithinVoxelCap(vmap)
  /\ frame \in 0..MaxFrames
  /\ vpc \notin {"idle", "done"} => frame # 0
  /\ track.submap \subseteq DOMAIN vmap
  /\ vpc \in {"observe", "prune"} => track.protected = track.submap
  /\ (vpc = "done" /\ config.prune /\ fr.gate # "none" /\ ~fr.refused) =>
       WithinTotalCap(vmap, track.protected) /\ WithinVoxelTotal(vmap, track.protected)

LEMMA MinOfTwo ==
  ASSUME NEW a \in Nat, NEW b \in Nat
  PROVE  Min({a, b}) = IF a <= b THEN a ELSE b
<1>1. CASE a <= b
  <2>1. \A x \in {a, b} : (\A y \in {a, b} : x <= y) <=> x = a
    BY <1>1
  <2>2. Min({a, b}) = a
    BY <2>1 DEF Min
  <2> QED BY <1>1, <2>2
<1>2. CASE ~(a <= b)
  <2>1. \A x \in {a, b} : (\A y \in {a, b} : x <= y) <=> x = b
    BY <1>2
  <2>2. Min({a, b}) = b
    BY <2>1 DEF Min
  <2> QED BY <1>2, <2>2
<1> QED BY <1>1, <1>2

LEMMA MinOfOne ==
  ASSUME NEW x \in Nat
  PROVE  Min({x}) = x
BY DEF Min

LEMMA ExcessOf ==
  ASSUME NEW n \in Nat, NEW limit \in Nat
  PROVE  /\ Excess(n, limit) \in Nat /\ Excess(n, limit) <= n
         /\ Excess(n - Excess(n, limit), limit) = 0
         /\ \A k \in Nat : k <= n /\ Excess(n, limit) = 0 => Excess(k, limit) = 0
BY DEF Excess

LEMMA CapsFields ==
  /\ IsFiniteSet(Voxels) /\ {MaxPerVoxel, MaxTotal, MaxVoxels} \subseteq Nat
  /\ MaxObs \in Nat /\ MaxObs >= 2
  /\ MaxFrames \in Nat /\ IsFiniteSet(1..MaxFrames)
  /\ IsFiniteSet((1..MaxFrames) \X Voxels)
<1>1. /\ IsFiniteSet(Voxels) /\ {MaxPerVoxel, MaxTotal, MaxVoxels} \subseteq Nat
      /\ MaxObs \in Nat /\ MaxObs >= 2 /\ MaxFrames \in Nat
  BY VisualCapsAssumption, VisualCountsAssumption
     DEF VisualCapsAssumption, VisualCountsAssumption
<1>2. IsFiniteSet(1..MaxFrames)
  BY <1>1, FS_Interval
<1> QED BY <1>1, <1>2, FS_Product

\* The sets of a map that are counted are finite.
LEMMA MapFinite ==
  ASSUME NEW m, MapSound(m)
  PROVE  /\ IsFiniteSet(DOMAIN m) /\ Cardinality(DOMAIN m) \in Nat
         /\ \A v : IsFiniteSet(InVoxel(m, v)) /\ Cardinality(InVoxel(m, v)) \in Nat
         /\ UsedVoxels(m) \subseteq Voxels
         /\ IsFiniteSet(UsedVoxels(m)) /\ Cardinality(UsedVoxels(m)) \in Nat
<1>1. DOMAIN m \subseteq (1..MaxFrames) \X Voxels
  BY DEF MapSound
<1>2. IsFiniteSet(DOMAIN m)
  BY <1>1, CapsFields, FS_Subset
<1>3. \A v : InVoxel(m, v) \subseteq DOMAIN m
  BY DEF InVoxel
<1>4. \A v : IsFiniteSet(InVoxel(m, v))
  BY <1>2, <1>3, FS_Subset
<1>5. UsedVoxels(m) \subseteq Voxels
  BY <1>1 DEF UsedVoxels, VoxelOf
<1>6. IsFiniteSet(UsedVoxels(m))
  BY <1>5, CapsFields, FS_Subset
<1> QED BY <1>2, <1>4, <1>5, <1>6, FS_CardinalityType

LEMMA PartsAreSound ==
  ASSUME NEW m, NEW n, NEW spared, MapSound(n), PartOf(m, n, spared)
  PROVE  /\ MapSound(m)
         /\ WithinVoxelCap(n) => WithinVoxelCap(m)
         /\ WithinTotalCap(n, spared) => WithinTotalCap(m, spared)
<1>1. MapSound(m)
  BY DEF MapSound, PartOf
<1>2. ASSUME WithinVoxelCap(n) PROVE WithinVoxelCap(m)
  <2> SUFFICES ASSUME MaxPerVoxel > 0, NEW v \in Voxels
               PROVE  Cardinality(InVoxel(m, v)) <= MaxPerVoxel
    BY DEF WithinVoxelCap
  <2>1. InVoxel(m, v) \subseteq InVoxel(n, v)
    BY DEF InVoxel, PartOf
  <2>2. Cardinality(InVoxel(m, v)) <= Cardinality(InVoxel(n, v))
    BY <2>1, MapFinite, FS_Subset
  <2>3. Cardinality(InVoxel(n, v)) <= MaxPerVoxel
    BY <1>2 DEF WithinVoxelCap
  <2>4. Cardinality(InVoxel(m, v)) \in Nat /\ Cardinality(InVoxel(n, v)) \in Nat
    BY <1>1, MapFinite
  <2> QED BY <2>2, <2>3, <2>4, CapsFields
<1>3. ASSUME WithinTotalCap(n, spared) PROVE WithinTotalCap(m, spared)
  <2>1. DOMAIN m \subseteq DOMAIN n
    BY DEF PartOf
  <2>2. Cardinality(DOMAIN m) <= Cardinality(DOMAIN n)
    BY <2>1, MapFinite, FS_Subset
  <2>3. Cardinality(DOMAIN m) \in Nat /\ Cardinality(DOMAIN n) \in Nat
    BY <1>1, MapFinite
  <2> QED BY <1>3, <2>1, <2>2, <2>3, ExcessOf, CapsFields DEF WithinTotalCap
<1> QED BY <1>1, <1>2, <1>3

LEMMA WithoutIsPart ==
  ASSUME NEW m, NEW gone, NEW spared, gone \cap spared = {}
  PROVE  /\ PartOf(Without(m, gone), m, spared)
         /\ DOMAIN Without(m, gone) = DOMAIN m \ gone
BY DEF PartOf, Without, Restrict

LEMMA PartsChain ==
  ASSUME NEW a, NEW b, NEW c, NEW spared, PartOf(a, b, spared), PartOf(b, c, spared)
  PROVE  PartOf(a, c, spared)
BY DEF PartOf

LEMMA OldestAreFree ==
  ASSUME NEW m, NEW cand, NEW n \in Nat, NEW spared, IsFiniteSet(cand),
         NEW R \in OldestOf(m, cand, n, spared)
  PROVE  /\ R \subseteq cand /\ R \cap spared = {}
         /\ Cardinality(R) = n \/ R = cand \ spared
<1> DEFINE free == cand \ spared
<1>1. R \subseteq free /\ Cardinality(R) = Min({n, Cardinality(free)})
  BY DEF OldestOf, kSubset
<1>2. IsFiniteSet(free) /\ Cardinality(free) \in Nat
  BY FS_Difference, FS_CardinalityType
<1>3. Cardinality(R) = n \/ Cardinality(R) = Cardinality(free)
  BY <1>1, <1>2, MinOfTwo
<1>4. Cardinality(R) = Cardinality(free) => R = free
  BY <1>1, <1>2, FS_Subset
<1> QED BY <1>1, <1>3, <1>4

\* What a removal chosen voxel by voxel takes is none of the spared points.
LEMMA VoxelByVoxel ==
  ASSUME NEW m, MapSound(m), NEW spared, NEW gone \in SUBSET DOMAIN m,
         \A v \in Voxels : gone \cap InVoxel(m, v) \cap spared = {}
  PROVE  gone \cap spared = {}
<1> SUFFICES ASSUME NEW p \in gone, p \in spared PROVE FALSE
  OBVIOUS
<1>1. VoxelOf(p) \in Voxels
  BY DEF MapSound, VoxelOf
<1>2. p \in InVoxel(m, VoxelOf(p))
  BY DEF InVoxel
<1> QED BY <1>1, <1>2

LEMMA CapVoxelsFields ==
  ASSUME NEW m, MapSound(m), NEW spared, NEW a \in CapVoxels(m, spared)
  PROVE  PartOf(a, m, spared)
<1>1. PICK gone \in SUBSET DOMAIN m :
        /\ a = Without(m, gone)
        /\ \A v \in Voxels :
             gone \cap InVoxel(m, v) \in
               OldestOf(m, InVoxel(m, v),
                        Excess(Cardinality(InVoxel(m, v)), MaxPerVoxel), spared)
  BY Zenon DEF CapVoxels
<1>2. \A v \in Voxels : gone \cap InVoxel(m, v) \cap spared = {}
  <2> SUFFICES ASSUME NEW v \in Voxels PROVE gone \cap InVoxel(m, v) \cap spared = {}
    OBVIOUS
  <2> DEFINE n == Excess(Cardinality(InVoxel(m, v)), MaxPerVoxel)
  <2>1. n \in Nat /\ IsFiniteSet(InVoxel(m, v))
    BY MapFinite, ExcessOf, CapsFields
  <2>2. gone \cap InVoxel(m, v) \in OldestOf(m, InVoxel(m, v), n, spared)
    BY <1>1
  <2> HIDE DEF n
  <2> QED BY <2>1, <2>2, OldestAreFree
<1> QED BY <1>1, <1>2, VoxelByVoxel, WithoutIsPart

LEMMA CapPointsFields ==
  ASSUME NEW m, MapSound(m), NEW spared, NEW b \in CapPoints(m, spared)
  PROVE  PartOf(b, m, spared) /\ WithinTotalCap(b, spared)
<1> DEFINE all == Cardinality(DOMAIN m)
           n == Excess(all, MaxTotal)
<1>1. PICK gone \in OldestOf(m, DOMAIN m, n, spared) : b = Without(m, gone)
  BY Zenon DEF CapPoints
<1>2. all \in Nat /\ IsFiniteSet(DOMAIN m)
  BY MapFinite
<1>3. n \in Nat /\ Excess(all - n, MaxTotal) = 0
  BY <1>2, ExcessOf, CapsFields
<1>4. /\ gone \subseteq DOMAIN m /\ gone \cap spared = {}
      /\ Cardinality(gone) = n \/ gone = DOMAIN m \ spared
  <2> HIDE DEF n
  <2> QED BY <1>1, <1>2, <1>3, OldestAreFree
<1>5. PartOf(b, m, spared) /\ DOMAIN b = DOMAIN m \ gone
  BY <1>1, <1>4, WithoutIsPart
<1>6. CASE Cardinality(gone) = n
  <2>1. Cardinality(DOMAIN b) = all - Cardinality(DOMAIN m \cap gone)
    BY <1>2, <1>5, FS_Difference
  <2>2. DOMAIN m \cap gone = gone
    BY <1>4
  <2> QED BY <1>3, <1>5, <1>6, <2>1, <2>2 DEF WithinTotalCap
<1>7. CASE gone = DOMAIN m \ spared
  BY <1>5, <1>7 DEF WithinTotalCap
<1> QED BY <1>4, <1>6, <1>7

WithoutVoxels(m, W) == Without(m, UNION {InVoxel(m, v) : v \in W})

\* Taking whole voxels away leaves the other ones as they were.
LEMMA VoxelsTaken ==
  ASSUME NEW m, NEW W
  PROVE  LET c == WithoutVoxels(m, W)
         IN  /\ UsedVoxels(c) = UsedVoxels(m) \ W
             /\ \A v \in UsedVoxels(c) : InVoxel(c, v) = InVoxel(m, v)
<1> DEFINE c == WithoutVoxels(m, W)
<1>1. DOMAIN c = {p \in DOMAIN m : VoxelOf(p) \notin W}
  BY DEF WithoutVoxels, Without, Restrict, InVoxel
<1> HIDE DEF c
<1>2. UsedVoxels(c) = UsedVoxels(m) \ W
  BY <1>1 DEF UsedVoxels
<1>3. \A v \in UsedVoxels(c) : InVoxel(c, v) = InVoxel(m, v)
  BY <1>1, <1>2 DEF InVoxel
<1> QED BY <1>2, <1>3 DEF c

LEMMA CapUsedVoxelsFields ==
  ASSUME NEW m, MapSound(m), NEW spared, NEW c \in CapUsedVoxels(m, spared)
  PROVE  PartOf(c, m, spared) /\ WithinVoxelTotal(c, spared)
<1> DEFINE free == {v \in UsedVoxels(m) : InVoxel(m, v) \cap spared = {}}
           all == Cardinality(UsedVoxels(m))
           n == Excess(all, MaxVoxels)
<1>1. PICK W \in kSubset(Min({n, Cardinality(free)}), free) :
        c = Without(m, UNION {InVoxel(m, v) : v \in W})
  BY Zenon DEF CapUsedVoxels
<1>2. /\ all \in Nat /\ IsFiniteSet(UsedVoxels(m))
  BY MapFinite
<1>3. n \in Nat /\ Excess(all - n, MaxVoxels) = 0
  BY <1>2, ExcessOf, CapsFields
<1>4. IsFiniteSet(free) /\ Cardinality(free) \in Nat
  BY <1>2, FS_Subset, FS_CardinalityType
<1>5. W \subseteq free /\ Cardinality(W) = Min({n, Cardinality(free)})
  BY <1>1 DEF kSubset
<1>6. Cardinality(W) = n \/ W = free
  <2>1. Cardinality(W) = n \/ Cardinality(W) = Cardinality(free)
    BY <1>3, <1>4, <1>5, MinOfTwo
  <2>2. Cardinality(W) = Cardinality(free) => W = free
    BY <1>4, <1>5, FS_Subset
  <2> QED BY <2>1, <2>2
<1>7. W \subseteq UsedVoxels(m)
  BY <1>5
<1>8. /\ UsedVoxels(c) = UsedVoxels(m) \ W
      /\ \A v \in UsedVoxels(c) : InVoxel(c, v) = InVoxel(m, v)
  <2>1. c = WithoutVoxels(m, W)
    BY <1>1, Zenon DEF WithoutVoxels
  <2> HIDE DEF free, all, n
  <2> QED BY <2>1, VoxelsTaken
<1>9. PartOf(c, m, spared)
  <2>1. \A v \in W : InVoxel(m, v) \cap spared = {}
    BY <1>5
  <2>2. (UNION {InVoxel(m, v) : v \in W}) \cap spared = {}
    BY <2>1
  <2> QED BY <1>1, <2>2, WithoutIsPart
<1>10. WithinVoxelTotal(c, spared)
  <2>1. CASE Cardinality(W) = n
    <3>1. Cardinality(UsedVoxels(c)) = all - Cardinality(UsedVoxels(m) \cap W)
      BY <1>2, <1>8, FS_Difference
    <3>2. UsedVoxels(m) \cap W = W
      BY <1>7
    <3> QED BY <1>3, <2>1, <3>1, <3>2 DEF WithinVoxelTotal
  <2>2. CASE W = free
    BY <1>8, <2>2 DEF WithinVoxelTotal
  <2> QED BY <1>6, <2>1, <2>2
<1> QED BY <1>9, <1>10

\* pruneVisualMap: what is left is a part of the map with all of the spared
\* points, and over a cap only where nothing else could be removed.
LEMMA PrunedFields ==
  ASSUME NEW m, MapSound(m), NEW spared, NEW c \in Pruned(m, spared)
  PROVE  /\ PartOf(c, m, spared)
         /\ WithinTotalCap(c, spared) /\ WithinVoxelTotal(c, spared)
<1>1. PICK a \in CapVoxels(m, spared) :
        \E b \in CapPoints(a, spared) : c \in CapUsedVoxels(b, spared)
  BY Zenon DEF Pruned
<1>2. PICK b \in CapPoints(a, spared) : c \in CapUsedVoxels(b, spared)
  BY <1>1
<1>3. PartOf(a, m, spared) /\ MapSound(a)
  BY CapVoxelsFields, PartsAreSound
<1>4. PartOf(b, a, spared) /\ WithinTotalCap(b, spared) /\ MapSound(b)
  BY <1>3, CapPointsFields, PartsAreSound
<1>5. PartOf(c, b, spared) /\ WithinVoxelTotal(c, spared)
  BY <1>2, <1>4, CapUsedVoxelsFields
<1>6. WithinTotalCap(c, spared)
  BY <1>4, <1>5, PartsAreSound
<1>7. PartOf(c, m, spared)
  BY <1>3, <1>4, <1>5, PartsChain
<1> QED BY <1>5, <1>6, <1>7

LEMMA OneMore ==
  ASSUME NEW S, NEW x, IsFiniteSet(S)
  PROVE  /\ Cardinality(S) \in Nat
         /\ IsFiniteSet(S \cup {x}) /\ Cardinality(S \cup {x}) \in Nat
         /\ Cardinality(S \cup {x}) <= Cardinality(S) + 1
<1>1. Cardinality(S) \in Nat
  BY FS_CardinalityType
<1>2. /\ IsFiniteSet(S \cup {x})
      /\ Cardinality(S \cup {x}) = IF x \in S THEN Cardinality(S) ELSE Cardinality(S) + 1
  BY FS_AddElement, Zenon
<1> QED BY <1>1, <1>2

LEMMA OneLess ==
  ASSUME NEW S, NEW x \in S, IsFiniteSet(S)
  PROVE  Cardinality(S \ {x}) = Cardinality(S) - 1
<1>1. Cardinality(S \ {x}) = IF x \in S THEN Cardinality(S) - 1 ELSE Cardinality(S)
  BY FS_RemoveElement, Zenon
<1> QED BY <1>1

\* insertPointIntoVoxelMap: every spared point stays, every point is sound and
\* no voxel gets over its cap.
LEMMA InsertedFields ==
  ASSUME NEW m, MapSound(m), WithinVoxelCap(m), NEW image \in 1..MaxFrames,
         NEW voxels \in SUBSET Voxels, NEW spared, NEW c \in Inserted(m, image, voxels, spared)
  PROVE  MapSound(c) /\ WithinVoxelCap(c) /\ DOMAIN m \cap spared \subseteq DOMAIN c
<1>1. PICK gone \in SUBSET DOMAIN m :
        /\ \A v \in Voxels :
             gone \cap InVoxel(m, v) \in
               IF v \in voxels /\ Full(m, v)
               THEN OldestOf(m, InVoxel(m, v), 1, spared) ELSE {{}}
        /\ LET kept == Without(m, gone)
               new  == {Pt(image, v) : v \in {u \in voxels : ~Full(kept, u)}}
           IN  c = [p \in DOMAIN kept \cup new |->
                      IF p \in new THEN NewPoint(image) ELSE kept[p]]
  BY Zenon DEF Inserted
<1> DEFINE kept == Without(m, gone)
           new == {Pt(image, v) : v \in {u \in voxels : ~Full(kept, u)}}
<1>2. \A v \in Voxels : gone \cap InVoxel(m, v) \cap spared = {}
  <2> SUFFICES ASSUME NEW v \in Voxels PROVE gone \cap InVoxel(m, v) \cap spared = {}
    OBVIOUS
  <2>1. CASE v \in voxels /\ Full(m, v)
    <3>1. gone \cap InVoxel(m, v) \in OldestOf(m, InVoxel(m, v), 1, spared)
      BY <1>1, <2>1
    <3>2. IsFiniteSet(InVoxel(m, v)) /\ 1 \in Nat
      BY MapFinite
    <3> QED BY <3>1, <3>2, OldestAreFree
  <2>2. CASE ~(v \in voxels /\ Full(m, v))
    BY <1>1, <2>2
  <2> QED BY <2>1, <2>2
<1>3. PartOf(kept, m, spared) /\ MapSound(kept) /\ WithinVoxelCap(kept)
  <2>1. gone \cap spared = {}
    BY <1>2, VoxelByVoxel
  <2>2. PartOf(kept, m, spared)
    BY <2>1, WithoutIsPart
  <2> HIDE DEF kept
  <2> QED BY <2>2, PartsAreSound
<1>4. c = [p \in DOMAIN kept \cup new |-> IF p \in new THEN NewPoint(image) ELSE kept[p]]
  BY <1>1
<1>5. \A p \in new : p \in (1..MaxFrames) \X Voxels /\ VoxelOf(p) \in voxels
                     /\ p = Pt(image, VoxelOf(p)) /\ ~Full(kept, VoxelOf(p))
  BY DEF Pt, VoxelOf
<1>6. Sound(NewPoint(image))
  <2>1. {image} \in PatchesOf /\ 0 \in 0..MaxFrames
    BY CapsFields DEF PatchesOf
  <2>2. NewPoint(image) \in [obs : PatchesOf, ref : 0..MaxFrames, hasRef : BOOLEAN]
    BY <2>1 DEF NewPoint, NoPatch
  <2>3. Cardinality({image}) = 1
    BY FS_Singleton
  <2> QED BY <2>2, <2>3, CapsFields DEF Sound, NewPoint
<1> HIDE DEF kept, new
<1>7. MapSound(c)
  <2>1. DOMAIN c = DOMAIN kept \cup new
    BY <1>4
  <2>2. \A p \in DOMAIN c : c[p] = (IF p \in new THEN NewPoint(image) ELSE kept[p])
    BY <1>4
  <2>3. DOMAIN kept \subseteq (1..MaxFrames) \X Voxels /\ \A p \in DOMAIN kept : Sound(kept[p])
    BY <1>3 DEF MapSound
  <2>4. \A p \in DOMAIN c : Sound(c[p])
    BY <1>6, <2>1, <2>2, <2>3, Zenon
  <2> QED BY <1>5, <2>1, <2>3, <2>4 DEF MapSound
<1>8. WithinVoxelCap(c)
  <2> SUFFICES ASSUME MaxPerVoxel > 0, NEW v \in Voxels
               PROVE  Cardinality(InVoxel(c, v)) <= MaxPerVoxel
    BY DEF WithinVoxelCap
  <2>1. IsFiniteSet(InVoxel(kept, v)) /\ Cardinality(InVoxel(kept, v)) \in Nat
    BY <1>3, MapFinite
  <2>2. Cardinality(InVoxel(kept, v)) <= MaxPerVoxel
    BY <1>3 DEF WithinVoxelCap
  <2>3. InVoxel(c, v) \subseteq InVoxel(kept, v) \cup {Pt(image, v)}
    BY <1>4, <1>5 DEF InVoxel
  <2>4. CASE Pt(image, v) \in new
    <3>1. ~Full(kept, v)
      BY <1>5, <2>4 DEF VoxelOf, Pt
    <3>2. Cardinality(InVoxel(kept, v)) < MaxPerVoxel
      BY <2>1, <3>1, CapsFields DEF Full
    <3>3. /\ IsFiniteSet(InVoxel(kept, v) \cup {Pt(image, v)})
          /\ Cardinality(InVoxel(kept, v) \cup {Pt(image, v)}) \in Nat
          /\ Cardinality(InVoxel(kept, v) \cup {Pt(image, v)})
               <= Cardinality(InVoxel(kept, v)) + 1
      BY <2>1, OneMore
    <3>4. Cardinality(InVoxel(c, v)) <= Cardinality(InVoxel(kept, v) \cup {Pt(image, v)})
      BY <2>3, <3>3, FS_Subset
    <3>5. Cardinality(InVoxel(c, v)) \in Nat
      BY <1>7, MapFinite
    <3> QED BY <2>1, <3>2, <3>3, <3>4, <3>5, CapsFields
  <2>5. CASE Pt(image, v) \notin new
    <3>1. InVoxel(c, v) \subseteq InVoxel(kept, v)
      BY <1>4, <1>5, <2>5 DEF InVoxel
    <3>2. Cardinality(InVoxel(c, v)) <= Cardinality(InVoxel(kept, v))
      BY <2>1, <3>1, FS_Subset
    <3>3. Cardinality(InVoxel(c, v)) \in Nat
      BY <1>7, MapFinite
    <3> QED BY <2>1, <2>2, <3>2, <3>3, CapsFields
  <2> QED BY <2>4, <2>5
<1>9. DOMAIN m \cap spared \subseteq DOMAIN c
  BY <1>3, <1>4 DEF PartOf
<1> QED BY <1>7, <1>8, <1>9

PointSet == [obs : PatchesOf, ref : 0..MaxFrames, hasRef : BOOLEAN]

LEMMA SoundFields ==
  ASSUME NEW pt, Sound(pt)
  PROVE  /\ pt \in PointSet /\ pt.obs \subseteq 1..MaxFrames /\ pt.obs # {}
         /\ IsFiniteSet(pt.obs) /\ Cardinality(pt.obs) \in Nat
<1>1. pt \in PointSet
  BY DEF Sound, PointSet
<1>2. pt.obs \subseteq 1..MaxFrames /\ pt.obs # {}
  BY <1>1 DEF PointSet, PatchesOf
<1>3. IsFiniteSet(pt.obs)
  BY <1>2, CapsFields, FS_Subset
<1> QED BY <1>1, <1>2, <1>3, FS_CardinalityType

LEMMA ChosenIsSound ==
  ASSUME NEW pt, Sound(pt), NEW best \in pt.obs \cup {NoPatch}
  PROVE  Sound(ChosenReference(pt, best))
<1>1. /\ pt \in PointSet /\ pt.obs \subseteq 1..MaxFrames /\ pt.obs # {}
      /\ IsFiniteSet(pt.obs)
  BY SoundFields
<1>2. \A r \in pt.obs \cup {NoPatch} : Sound([pt EXCEPT !.ref = r, !.hasRef = TRUE])
  <2> SUFFICES ASSUME NEW r \in pt.obs \cup {NoPatch}
               PROVE  Sound([pt EXCEPT !.ref = r, !.hasRef = TRUE])
    OBVIOUS
  <2>1. r \in 0..MaxFrames
    BY <1>1, CapsFields DEF NoPatch
  <2> DEFINE q == [pt EXCEPT !.ref = r, !.hasRef = TRUE]
  <2>2. q \in PointSet /\ q.obs = pt.obs /\ q.ref = r
    BY <1>1, <2>1 DEF PointSet
  <2> QED BY <2>2 DEF Sound, PointSet
<1>3. CASE Cardinality(pt.obs) = 1
  <2>1. PICK x : pt.obs = {x}
    BY <1>1, <1>3, FS_Singleton
  <2>2. x \in Nat
    BY <1>1, <2>1, CapsFields
  <2>3. Min(pt.obs) \in pt.obs
    BY <2>1, <2>2, MinOfOne
  <2> QED BY <1>2, <1>3, <2>3 DEF ChosenReference
<1>4. CASE Cardinality(pt.obs) # 1
  BY <1>2, <1>4 DEF ChosenReference
<1> QED BY <1>3, <1>4

LEMMA RefreshedIsSound ==
  ASSUME NEW image \in 1..MaxFrames
  PROVE  Sound(Refreshed(image))
<1>1. {image} \in PatchesOf /\ image \in 0..MaxFrames
  BY CapsFields DEF PatchesOf
<1>2. Refreshed(image) \in [obs : PatchesOf, ref : 0..MaxFrames, hasRef : BOOLEAN]
  BY <1>1 DEF Refreshed
<1>3. Cardinality({image}) = 1
  BY FS_Singleton
<1> QED BY <1>2, <1>3, CapsFields DEF Sound, Refreshed

LEMMA RereferencedIsSound ==
  ASSUME NEW pt, Sound(pt), NEW o \in pt.obs
  PROVE  Sound(Rereferenced(pt, o))
<1>1. pt \in PointSet /\ o \in 0..MaxFrames
  BY SoundFields, CapsFields
<1>2. Rereferenced(pt, o) \in PointSet
  BY <1>1 DEF Rereferenced, PointSet
<1>3. Rereferenced(pt, o).obs = pt.obs /\ Rereferenced(pt, o).ref = o
  BY <1>1 DEF Rereferenced, PointSet
<1> QED BY <1>2, <1>3 DEF Sound, PointSet

\* the new patch of a point that has room for it
Shown(pt, image) == [pt EXCEPT !.obs = @ \cup {image}]

LEMMA ShownIsSound ==
  ASSUME NEW pt \in [obs : SUBSET (1..MaxFrames), ref : 0..MaxFrames, hasRef : BOOLEAN],
         NEW image \in 1..MaxFrames,
         pt.ref # NoPatch => pt.ref \in pt.obs, Cardinality(pt.obs) < MaxObs
  PROVE  Sound(Shown(pt, image))
<1> DEFINE q == Shown(pt, image)
<1>1. q.obs = pt.obs \cup {image} /\ q.ref = pt.ref
  BY DEF Shown
<1>2. pt.obs \cup {image} \in PatchesOf
  BY DEF PatchesOf
<1>3. q \in PointSet
  BY <1>2, Zenon DEF Shown, PointSet
<1>4. IsFiniteSet(pt.obs) /\ Cardinality(pt.obs) \in Nat
  BY CapsFields, FS_Subset, FS_CardinalityType
<1>5. Cardinality(pt.obs \cup {image}) <= MaxObs
  <2>1. /\ Cardinality(pt.obs \cup {image}) \in Nat
        /\ Cardinality(pt.obs \cup {image}) <= Cardinality(pt.obs) + 1
    BY <1>4, OneMore, Zenon
  <2> QED BY <1>4, <2>1, CapsFields
<1> QED BY <1>1, <1>3, <1>5 DEF Sound, PointSet

\* updateVisualMapPoints: the patch that makes room is not the reference.
LEMMA ObservedIsSound ==
  ASSUME NEW pt, Sound(pt), NEW image \in 1..MaxFrames, NEW q \in Observed(pt, image)
  PROVE  Sound(q)
<1>1. /\ pt \in PointSet /\ pt.obs \subseteq 1..MaxFrames /\ pt.obs # {}
      /\ IsFiniteSet(pt.obs) /\ Cardinality(pt.obs) \in Nat
  BY SoundFields
<1>2. Cardinality(pt.obs) <= MaxObs /\ (pt.ref # NoPatch => pt.ref \in pt.obs)
  BY DEF Sound
<1>3. pt \in [obs : SUBSET (1..MaxFrames), ref : 0..MaxFrames, hasRef : BOOLEAN]
  BY <1>1 DEF PointSet
<1>4. CASE Cardinality(pt.obs) >= MaxObs /\ Droppable(pt) # {}
  <2>1. PICK o \in Droppable(pt) : q = Shown(Forget(pt, o), image)
    BY <1>4 DEF Observed, Shown
  <2>2. o \in pt.obs /\ o # pt.ref
    BY <2>1 DEF Droppable
  <2> DEFINE r == Forget(pt, o)
  <2>3. r.obs = pt.obs \ {o} /\ r.ref = pt.ref
    BY <1>3, <2>2 DEF Forget
  <2>4. r \in [obs : SUBSET (1..MaxFrames), ref : 0..MaxFrames, hasRef : BOOLEAN]
    <3>1. pt.obs \ {o} \in SUBSET (1..MaxFrames) /\ 0 \in 0..MaxFrames
      BY <1>1, CapsFields
    <3>2. pt.ref \in 0..MaxFrames /\ pt.hasRef \in BOOLEAN
      BY <1>3
    <3> QED BY <1>3, <3>1, <3>2 DEF Forget, NoPatch
  <2>5. Cardinality(pt.obs \ {o}) < MaxObs
    BY <1>1, <1>2, <2>2, OneLess, CapsFields
  <2> HIDE DEF r
  <2>6. Sound(Shown(r, image))
    BY <1>2, <2>2, <2>3, <2>4, <2>5, ShownIsSound
  <2> QED BY <2>1, <2>6 DEF r
<1>5. CASE ~(Cardinality(pt.obs) >= MaxObs /\ Droppable(pt) # {})
  <2>1. q = Shown(pt, image)
    BY <1>5 DEF Observed, Shown
  <2>2. Cardinality(pt.obs) < MaxObs
    <3>1. ASSUME Cardinality(pt.obs) >= MaxObs PROVE FALSE
      <4>1. pt.obs \subseteq {pt.ref}
        BY <1>5, <3>1 DEF Droppable
      <4>2. Cardinality(pt.obs) <= 1
        <5>1. IsFiniteSet({pt.ref}) /\ Cardinality({pt.ref}) = 1
          BY FS_Singleton
        <5>2. pt.obs \in SUBSET {pt.ref}
          BY <4>1
        <5>3. Cardinality(pt.obs) <= Cardinality({pt.ref})
          BY <5>1, <5>2, FS_Subset, Zenon
        <5> QED BY <5>1, <5>3
      <4> QED BY <1>1, <3>1, <4>2, CapsFields
    <3> QED BY <1>1, <3>1, CapsFields
  <2> QED BY <1>2, <1>3, <2>1, <2>2, ShownIsSound
<1> QED BY <1>4, <1>5

LEMMA UpdatesAreSound ==
  ASSUME NEW pt, Sound(pt), frame \in 1..MaxFrames, NEW q \in Updates(pt)
  PROVE  Sound(q)
<1>1. PICK s \in Observed(pt, frame) : q = s \/ \E o \in s.obs : q = Rereferenced(s, o)
  BY DEF Updates
<1>2. Sound(s)
  BY ObservedIsSound
<1> QED BY <1>1, <1>2, RereferencedIsSound

\* A step that leaves map, submap and frame id alone, of an image at work.
LEMMA MapAside ==
  ASSUME MapInv, UNCHANGED <<vmap, track, frame>>, config' = config,
         \/ vpc' = vpc /\ fr' = fr
         \/ vpc' = "idle"
         \/ vpc \notin {"idle", "done"} /\ vpc' \notin {"observe", "prune", "done"}
         \/ vpc \notin {"idle", "done"} /\ vpc' = "done" /\ fr'.refused
  PROVE  MapInv'
BY DEF MapInv

LEMMA CorrectionKeepsMap ==
  ASSUME MapInv, config' = config, vpc = "ekf",
         RejectMeasurement \/ AbandonIteration \/ ApplyIteration \/ LastIteration
  PROVE  MapInv'
<1>1. \A e, any : EndLevel(e, any) =>
        /\ UNCHANGED <<vmap, track, frame>> /\ (vpc' = "route" \/ vpc' = vpc)
  BY DEF EndLevel, ApplyGain, DropGain, RestoreMeasurement
<1>2. UNCHANGED <<vmap, track, frame>> /\ (vpc' = "route" \/ vpc' = vpc)
  BY <1>1 DEF RejectMeasurement, AbandonIteration, ApplyIteration, LastIteration,
              RestoreMeasurement
<1> QED BY <1>2, MapAside

LEMMA SettleKeepsMap ==
  ASSUME MapInv, config' = config, fr \in FrSet, NEW guarded, Settle(guarded)
  PROVE  MapInv'
<1>1. /\ vpc = "settle" /\ UNCHANGED <<vmap, track, frame>>
      /\ \/ vpc' = "generate"
         \/ vpc' = "done" /\ fr' = [fr EXCEPT !.refused = TRUE]
  BY DEF Settle
<1>2. [fr EXCEPT !.refused = TRUE].refused
  BY DEF FrSet
<1> QED BY <1>1, <1>2, MapAside

LEMMA TrackFields ==
  ASSUME MapInv, NEW S \in SUBSET DOMAIN vmap
  PROVE  /\ LET t == [track EXCEPT !.submap = S, !.total = Cardinality(S)]
            IN  t \in TrackSet /\ t.submap = S /\ t.protected = track.protected
         /\ LET t == [track EXCEPT !.protected = S]
            IN  t \in TrackSet /\ t.submap = track.submap /\ t.protected = S
         /\ LET t == [track EXCEPT !.total = 0]
            IN  t \in TrackSet /\ t.submap = track.submap /\ t.protected = track.protected
<1>1. S \in SUBSET PointIds /\ 0 \in Nat
  BY DEF MapInv, MapSound, PointIds
<1>2. IsFiniteSet(DOMAIN vmap)
  BY MapFinite DEF MapInv
<1>3. Cardinality(S) \in Nat
  BY <1>2, FS_Subset, FS_CardinalityType
<1>4. track \in TrackSet
  BY DEF MapInv
<1> QED BY <1>1, <1>3, <1>4 DEF TrackSet

\* the submap is retrieved, and some of its points get a reference
LEMMA RetrieveMaps ==
  ASSUME MapInv, config' = config, vpc = "idle", frame < MaxFrames, frame' = frame + 1,
         NEW normal, NEW mode, NEW degenerated, Retrieve(normal, mode, degenerated)
  PROVE  MapInv'
<1>1. PICK C \in Retrievable :
      \E best \in (IF \E p \in C : Cardinality(vmap[p].obs) > 1 /\ ~vmap[p].hasRef
                   THEN BestPatches(C) ELSE {[p \in C |-> NoPatch]}) :
      \E S \in SUBSET Trackable(normal, Retrieved(normal, FALSE, C, best), C) :
        /\ vmap' = Retrieved(normal, FALSE, C, best)
        /\ track' = [track EXCEPT !.submap = S, !.total = Cardinality(S)]
        /\ vpc' \in {"route", "ekf"}
  BY DEF Retrieve
<1>2. PICK best \in (IF \E p \in C : Cardinality(vmap[p].obs) > 1 /\ ~vmap[p].hasRef
                     THEN BestPatches(C) ELSE {[p \in C |-> NoPatch]}) :
      \E S \in SUBSET Trackable(normal, Retrieved(normal, FALSE, C, best), C) :
        /\ vmap' = Retrieved(normal, FALSE, C, best)
        /\ track' = [track EXCEPT !.submap = S, !.total = Cardinality(S)]
        /\ vpc' \in {"route", "ekf"}
  BY <1>1, Zenon
<1>3. PICK S \in SUBSET Trackable(normal, Retrieved(normal, FALSE, C, best), C) :
        /\ vmap' = Retrieved(normal, FALSE, C, best)
        /\ track' = [track EXCEPT !.submap = S, !.total = Cardinality(S)]
        /\ vpc' \in {"route", "ekf"}
  BY <1>2, Zenon
<1>4. C \subseteq DOMAIN vmap /\ S \subseteq DOMAIN vmap
  BY DEF Retrievable, Trackable
<1>5. \A p \in C : best[p] \in vmap[p].obs \cup {NoPatch}
  BY DEF BestPatches
<1>6. /\ DOMAIN vmap' = DOMAIN vmap
      /\ \A p \in DOMAIN vmap :
           \/ vmap'[p] = vmap[p]
           \/ p \in C /\ vmap'[p] = ChosenReference(vmap[p], best[p])
  BY <1>3 DEF Retrieved
<1>7. MapSound(vmap')
  <2>1. \A p \in DOMAIN vmap : Sound(vmap[p])
    BY DEF MapInv, MapSound
  <2>2. \A p \in DOMAIN vmap : Sound(vmap'[p])
    BY <1>5, <1>6, <2>1, ChosenIsSound
  <2> QED BY <1>6, <2>2 DEF MapInv, MapSound
<1>8. \A v : InVoxel(vmap', v) = InVoxel(vmap, v)
  BY <1>6 DEF InVoxel
<1>9. WithinVoxelCap(vmap')
  BY <1>8 DEF MapInv, WithinVoxelCap
<1>10. track' \in TrackSet /\ track'.submap \subseteq DOMAIN vmap'
  <2>1. track' \in TrackSet /\ track'.submap = S
    BY <1>3, <1>4, TrackFields
  <2> QED BY <1>4, <1>6, <2>1
<1>11. frame' \in 0..MaxFrames /\ frame' # 0
  BY CapsFields DEF MapInv
<1> QED BY <1>3, <1>7, <1>9, <1>10, <1>11 DEF MapInv

LEMMA RejectedMaps ==
  ASSUME MapInv, config' = config, frame < MaxFrames, frame' = frame + 1, RejectImage
  PROVE  MapInv'
<1>1. track' = [track EXCEPT !.total = 0] /\ vmap' = vmap /\ vpc' = "done" /\ fr' = NoFrame
  BY DEF RejectImage
<1>2. track' \in TrackSet /\ track'.submap = track.submap
  BY <1>1, TrackFields
<1>3. frame' \in 0..MaxFrames
  BY CapsFields DEF MapInv
<1>4. fr'.gate = "none"
  BY <1>1 DEF NoFrame
<1> QED BY <1>1, <1>2, <1>3, <1>4 DEF MapInv

LEMMA DryRunMaps ==
  ASSUME MapInv, config' = config, NEW normal, DryRun(normal)
  PROVE  MapInv'
<1>1. PICK S \in SUBSET DOMAIN vmap :
        track' = [track EXCEPT !.submap = S, !.total = Cardinality(S)]
  BY DEF DryRun, Retrievable, Trackable
<1>2. vmap' = vmap /\ frame' = frame /\ vpc' = "done" /\ fr' = NoFrame
  BY DEF DryRun
<1>3. track' \in TrackSet /\ track'.submap = S
  BY <1>1, TrackFields
<1>4. fr'.gate = "none"
  BY <1>2 DEF NoFrame
<1> QED BY <1>2, <1>3, <1>4 DEF MapInv

\* The points of the submap are protected before the first new point is put in.
LEMMA GenerateMaps ==
  ASSUME MapInv, config' = config, NEW refresh, NEW fresh, Generate(refresh, fresh)
  PROVE  MapInv'
<1>1. PICK R \in Refreshes(refresh), N \in SUBSET Voxels :
        vmap' \in Inserted(AfterRefresh(R), frame, N, Protect)
  BY DEF Generate
<1>2. /\ vpc = "generate" /\ track' = [track EXCEPT !.protected = track.submap]
      /\ vpc' \in {"prune", "observe"} /\ frame' = frame
  BY DEF Generate, Protect
<1>3. frame \in 1..MaxFrames
  BY <1>2, CapsFields DEF MapInv
<1> DEFINE m == AfterRefresh(R)
<1>4. DOMAIN m = DOMAIN vmap /\ \A v : InVoxel(m, v) = InVoxel(vmap, v)
  BY DEF AfterRefresh, InVoxel
<1>5. MapSound(m) /\ WithinVoxelCap(m)
  <2>1. \A p \in DOMAIN vmap : m[p] = Refreshed(frame) \/ m[p] = vmap[p]
    BY DEF AfterRefresh
  <2>2. \A p \in DOMAIN vmap : Sound(m[p])
    BY <1>3, <2>1, RefreshedIsSound DEF MapInv, MapSound
  <2> HIDE DEF m
  <2> QED BY <1>4, <2>2 DEF MapInv, MapSound, WithinVoxelCap
<1> HIDE DEF m
<1>6. /\ MapSound(vmap') /\ WithinVoxelCap(vmap')
      /\ DOMAIN m \cap track.submap \subseteq DOMAIN vmap'
  <2>1. vmap' \in Inserted(m, frame, N, track.submap)
    BY <1>1 DEF m, Protect
  <2> QED BY <1>3, <1>5, <2>1, InsertedFields
<1>7. track.submap \subseteq DOMAIN vmap
  BY DEF MapInv
<1>8. track' \in TrackSet /\ track'.submap = track.submap /\ track'.protected = track.submap
  BY <1>2, <1>7, TrackFields
<1> QED BY <1>2, <1>3, <1>4, <1>6, <1>7, <1>8 DEF MapInv

LEMMA ObserveMaps ==
  ASSUME MapInv, config' = config, Observe
  PROVE  MapInv'
<1>1. PICK m : /\ \A p \in track.submap : m[p] \in {vmap[p]} \cup Updates(vmap[p])
               /\ vmap' = [p \in DOMAIN vmap |->
                             IF p \in track.submap THEN m[p] ELSE vmap[p]]
  BY Zenon DEF Observe
<1>2. vpc = "observe" /\ vpc' = "prune" /\ UNCHANGED <<track, frame>>
  BY DEF Observe
<1>3. frame \in 1..MaxFrames /\ track.submap \subseteq DOMAIN vmap
  BY <1>2, CapsFields DEF MapInv
<1>4. DOMAIN vmap' = DOMAIN vmap /\ \A v : InVoxel(vmap', v) = InVoxel(vmap, v)
  BY <1>1 DEF InVoxel
<1>5. MapSound(vmap')
  <2>1. \A p \in DOMAIN vmap : Sound(vmap[p])
    BY DEF MapInv, MapSound
  <2>2. \A p \in DOMAIN vmap : vmap'[p] = vmap[p] \/ vmap'[p] \in Updates(vmap[p])
    BY <1>1
  <2>3. \A p \in DOMAIN vmap : Sound(vmap'[p])
    BY <1>3, <2>1, <2>2, UpdatesAreSound
  <2> QED BY <1>4, <2>3 DEF MapInv, MapSound
<1>6. WithinVoxelCap(vmap')
  BY <1>4 DEF MapInv, WithinVoxelCap
<1> QED BY <1>2, <1>3, <1>4, <1>5, <1>6 DEF MapInv

\* pruning spares what is protected, the submap
LEMMA PruneMaps ==
  ASSUME MapInv, config' = config, NEW shadow, Prune(config.prune, shadow)
  PROVE  MapInv'
<1>1. /\ vpc = "prune" /\ vpc' = "done" /\ UNCHANGED <<track, frame>>
      /\ vmap' \in (IF config.prune THEN Pruned(vmap, track.protected) ELSE {vmap})
  BY DEF Prune
<1>2. MapSound(vmap) /\ WithinVoxelCap(vmap) /\ track.protected = track.submap
      /\ track.submap \subseteq DOMAIN vmap
  BY <1>1 DEF MapInv
<1>3. CASE config.prune
  <2>1. /\ PartOf(vmap', vmap, track.protected)
        /\ WithinTotalCap(vmap', track.protected)
        /\ WithinVoxelTotal(vmap', track.protected)
    BY <1>1, <1>2, <1>3, PrunedFields
  <2>2. MapSound(vmap') /\ WithinVoxelCap(vmap')
    BY <1>2, <2>1, PartsAreSound
  <2>3. track.submap \subseteq DOMAIN vmap'
    BY <1>2, <2>1 DEF PartOf
  <2> QED BY <1>1, <2>1, <2>2, <2>3 DEF MapInv
<1>4. CASE ~config.prune
  BY <1>1, <1>2, <1>4 DEF MapInv
<1> QED BY <1>3, <1>4

LEMMA MapStays ==
  ASSUME MapInv, fr \in FrSet, [Next]_vars
  PROVE  MapInv'
<1>1. CASE BeginScan
  BY <1>1, MapAside DEF BeginScan, visualVars
<1>2. CASE Estimate
  BY <1>2, MapAside DEF Estimate, visualVars
<1>3. CASE InsertScan
  BY <1>3, MapAside DEF InsertScan, visualVars
<1>4. CASE ImageWithoutSupport
  BY <1>4, DryRunMaps DEF ImageWithoutSupport, KeepVision
<1>5. CASE SkipImage
  BY <1>5, MapAside DEF SkipImage, visualVars, KeepVision
<1>6. CASE ProcessImage
  <2>1. /\ vpc = "idle" /\ config' = config /\ frame < MaxFrames
        /\ TakeImage(config.normal, config.aruco, Degenerated)
    BY <1>6 DEF ProcessImage, Idle, KeepVision
  <2>2. frame' = frame + 1
    BY <2>1 DEF TakeImage
  <2>3. CASE RejectImage
    BY <2>1, <2>2, <2>3, RejectedMaps
  <2>4. CASE Retrieve(config.normal, config.aruco, Degenerated)
    BY <2>1, <2>2, <2>4, RetrieveMaps
  <2> QED BY <2>1, <2>3, <2>4 DEF TakeImage
<1>7. CASE Correct
  <2>1. config' = config
    BY <1>7 DEF Correct, KeepVision
  <2>2. CASE RejectMeasurement \/ AbandonIteration \/ ApplyIteration \/ LastIteration
    <3>1. vpc = "ekf"
      BY <2>2 DEF RejectMeasurement, AbandonIteration, ApplyIteration, LastIteration
    <3> QED BY <2>1, <2>2, <3>1, CorrectionKeepsMap
  <2>3. CASE Route(config.aruco)
    <3>1. vpc = "route" /\ vpc' \in {"generate", "settle"} /\ UNCHANGED <<vmap, track, frame>>
      BY <2>3 DEF Route
    <3> QED BY <2>1, <3>1, MapAside
  <2>4. CASE Settle(config.guarded)
    BY <2>1, <2>4, SettleKeepsMap
  <2>5. CASE Observe
    BY <2>1, <2>5, ObserveMaps
  <2>6. CASE Prune(config.prune, config.shadow)
    BY <2>1, <2>6, PruneMaps
  <2> QED BY <1>7, <2>2, <2>3, <2>4, <2>5, <2>6 DEF Correct
<1>8. CASE AddPoints
  BY <1>8, GenerateMaps DEF AddPoints, KeepVision
<1>9. CASE FinishImage
  BY <1>9, MapAside DEF FinishImage, KeepVision
<1>10. CASE RouteToBackend
  <2>1. /\ vpc = "route" /\ vpc' = "submit" /\ config' = config
        /\ UNCHANGED <<vmap, track, frame>>
    BY <1>10 DEF RouteToBackend
  <2> QED BY <2>1, MapAside
<1>11. CASE SubmitNext
  <2>1. vpc = "submit" /\ config' = config /\ UNCHANGED <<vmap, track, frame, fr>>
    BY <1>11 DEF SubmitNext
  <2>2. vpc' = vpc \/ vpc' \in {"generate", "settle"}
    BY <1>11, Zenon DEF SubmitNext
  <2> QED BY <2>1, <2>2, MapAside
<1>12. CASE LandmarkWork
  BY <1>12, MapAside DEF LandmarkWork, visualVars
<1>13. CASE EndProgram
  BY <1>13, MapAside DEF EndProgram, visualVars
<1>14. CASE UNCHANGED vars
  BY <1>14, MapAside DEF vars, visualVars
<1> QED BY <1>1, <1>2, <1>3, <1>4, <1>5, <1>6, <1>7, <1>8, <1>9, <1>10, <1>11, <1>12,
           <1>13, <1>14 DEF Next

LEMMA MapStarts == Init => MapInv
<1> SUFFICES ASSUME Init PROVE MapInv
  OBVIOUS
<1>1. DOMAIN vmap = {}
  BY DEF Init
<1>2. MapSound(vmap)
  BY <1>1 DEF MapSound
<1>3. \A v : InVoxel(vmap, v) = {}
  BY <1>1 DEF InVoxel
<1>4. WithinVoxelCap(vmap)
  BY SMTT(30), <1>3, FS_EmptySet, CapsFields DEF WithinVoxelCap
<1>5. track \in TrackSet /\ track.submap = {}
  BY DEF Init, TrackSet
<1>6. frame \in 0..MaxFrames /\ vpc = "idle"
  BY CapsFields DEF Init
<1> QED BY <1>2, <1>4, <1>5, <1>6 DEF MapInv

\* For any caps, any number of voxels and images, whatever is retrieved, added,
\* refreshed and pruned: the submap never dangles, a reference is one of its
\* point's observations, and the caps on observations, points and voxels hold.
THEOREM MapStaysCoherent == Spec => []VisualMapCoherent
<1>1. Init => MapInv
  BY MapStarts
<1>2. MapInv /\ ImageInv /\ [Next]_vars => MapInv'
  BY MapStays DEF ImageInv, ImageType
<1>3. MapInv => VisualMapCoherent
  BY DEF MapInv, VisualMapCoherent, MapSound, Sound, MapBounded, WithinVoxelCap,
         WithinTotalCap, WithinVoxelTotal
<1> QED BY <1>1, <1>2, <1>3, ImageHolds, PTL DEF Spec
=============================================================================
