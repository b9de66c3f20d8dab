---------------------------- MODULE GnssAdapter ----------------------------
(* The GNSS adapter (gnss_adapter.cpp): receiver solutions in, accepted    *)
(* local-ENU samples out.  One callback handles one message under the      *)
(* mutex, so a message is one step.  The adapter's members are one record, *)
(* and each of its functions is an operator on it; thresholds on accuracy, *)
(* dilution and satellites are one flag of the message (good), positions   *)
(* are the samples they come from.                                         *)
EXTENDS Naturals, Integers, Sequences, SequencesExt

CONSTANTS
  Configs,          \* the parameter sets the node may be started with
  FixedConfirm,     \* fixed_confirm_count
  FixedLost,        \* fixed_lost_count
  RecoveryConfirm,  \* recovery_confirm_count
  AverageCount,     \* origin_average_count
  MaxGap,           \* max_time_gap_s, in ticks
  OriginMaxGap      \* origin_average_max_gap_s, in ticks

\* validateConfig refuses to start the node otherwise.
ASSUME GnssCountsAssumption ==
  /\ FixedConfirm \in Nat \ {0} /\ FixedLost \in Nat \ {0}
  /\ RecoveryConfirm \in Nat \ {0} /\ AverageCount \in Nat \ {0}
  /\ MaxGap \in Nat \ {0} /\ OriginMaxGap \in Nat \ {0}

ASSUME GnssConfigsAssumption ==
  \A c \in Configs :
    /\ c.input \in {"legacy", "stamped", "pose"}
    /\ c.originMode \in {"manual", "first_fixed", "average_fixed"}
    /\ c.poseQuality \in {"SINGLE", "DIFFERENTIAL", "RTK_FLOAT", "RTK_FIXED"}
    /\ {c.local, c.monotonic} \subseteq BOOLEAN
    /\ c.input = "pose" => c.local

VARIABLES
  cfg,      \* the configuration the node runs with
  ad,       \* the adapter's members
  seen,     \* history: samples that reached the state machine since its last reset
  fused     \* history: accepted samples, in order

gnssVars == <<cfg, ad, seen, fused>>

NoTime   == -1
NoSource == "none"

FreshAdapter(c) ==
  [tracking |-> "WAITING", wasActive |-> FALSE, fixed |-> 0, lost |-> 0,
   last |-> NoTime, src |-> NoSource,
   origin |-> IF c.originMode = "manual" THEN <<"manual">> ELSE <<>>,
   samples |-> <<>>, cand |-> NoTime]

OriginReady(a) == a.origin # <<>>
AveragePending(a) == ~OriginReady(a) /\ cfg.originMode = "average_fixed"

\* resetOriginAverage and the tracking reset that goes with it
Restart(a) ==
  [a EXCEPT !.samples = <<>>, !.cand = NoTime, !.tracking = "WAITING",
            !.wasActive = FALSE, !.fixed = 0, !.lost = 0, !.last = NoTime]

-----------------------------------------------------------------------------
(* Solution classes. A message carries the receiver's flags.               *)

Classify(m) ==
  LET usable == m.valid /\ m.fixType = 3 /\ m.carr <= 2 IN
  CASE ~usable -> "INVALID"
    [] usable /\ ~m.diff -> "SINGLE"
    [] usable /\ m.diff /\ m.carr = 2 -> "RTK_FIXED"
    [] usable /\ m.diff /\ m.carr = 1 -> "RTK_FLOAT"
    [] OTHER -> "DIFFERENTIAL"

QualityAccepted(q) == q \in cfg.accept

\* updateFixedState, on a solution without a fix
LoseFix(a) ==
  LET b == [a EXCEPT !.fixed = 0, !.lost = @ + 1] IN
  IF /\ a.tracking \in {"ACTIVE_FIXED", "RECOVERING"}
     /\ b.lost >= FixedLost
  THEN [b EXCEPT !.tracking = "LOST"]
  ELSE b

\* Mutant: a fix lost to an outage needs only the first confirmation again.
HoldFixShort(a) ==
  LET b == [a EXCEPT !.lost = 0, !.fixed = @ + 1]
      c == IF b.tracking = "LOST"
           THEN [b EXCEPT !.tracking = "RECOVERING", !.fixed = 1] ELSE b
  IN  IF c.tracking # "ACTIVE_FIXED" /\ c.fixed >= FixedConfirm
      THEN [c EXCEPT !.tracking = "ACTIVE_FIXED", !.wasActive = TRUE]
      ELSE c

\* updateFixedState, on a fixed solution
HoldFix(a) ==
  LET b == [a EXCEPT !.lost = 0, !.fixed = @ + 1]
      c == IF b.tracking = "LOST"
           THEN [b EXCEPT !.tracking = "RECOVERING", !.fixed = 1] ELSE b
      need == IF c.tracking = "RECOVERING" THEN RecoveryConfirm
                                           ELSE FixedConfirm
  IN  IF c.tracking # "ACTIVE_FIXED" /\ c.fixed >= need
      THEN [c EXCEPT !.tracking = "ACTIVE_FIXED", !.wasActive = TRUE]
      ELSE c

UpdateFixedState(a, isFixed) == IF isFixed THEN HoldFix(a) ELSE LoseFix(a)

\* the quality updateFixedState returns with the state it leaves
StateQuality(a) ==
  CASE a.tracking = "ACTIVE_FIXED" -> "RTK_FIXED"
    [] a.tracking = "RECOVERING" -> "RECOVERING"
    [] OTHER -> "INVALID"

-----------------------------------------------------------------------------
(* The ENU origin.                                                         *)

Sample(m) == [stamp |-> m.stamp, src |-> m.src]

\* updateOrigin in average_fixed mode: gaps and regressions start over,
\* a repeated stamp is skipped, the last sample freezes the mean.
AverageOrigin(a, m) ==
  LET gap  == m.stamp - a.cand
      over == a.cand # NoTime /\ (gap < 0 \/ gap > OriginMaxGap)
      acc  == Append(IF over THEN <<>> ELSE a.samples, Sample(m))
  IN  IF a.cand # NoTime /\ gap = 0 THEN a
      ELSE IF Len(acc) < AverageCount
           THEN [a EXCEPT !.samples = acc, !.cand = m.stamp]
           ELSE [a EXCEPT !.origin = acc, !.samples = <<>>, !.cand = NoTime]

UpdateOrigin(a, m) ==
  IF OriginReady(a) \/ StateQuality(a) # "RTK_FIXED" THEN a
  ELSE IF cfg.originMode = "first_fixed"
       THEN [a EXCEPT !.origin = <<Sample(m)>>]
       ELSE AverageOrigin(a, m)

-----------------------------------------------------------------------------
(* processPvt, in the order of its early returns.                          *)

\* Mutant: a new source does not start the average over.
FollowSourceKeep(a, m) ==
  IF cfg.input # "stamped" THEN a ELSE [a EXCEPT !.src = m.src]

\* Mutant: a new source starts over even when the origin is frozen.
FollowSourceAlways(a, m) ==
  IF cfg.input # "stamped" THEN a
  ELSE LET b == IF a.src # NoSource /\ a.src # m.src THEN Restart(a) ELSE a
       IN [b EXCEPT !.src = m.src]

\* a new session or writer epoch, before the origin is frozen
FollowSource(a, m) ==
  IF cfg.input # "stamped" THEN a
  ELSE LET b == IF a.src # NoSource /\ a.src # m.src /\ AveragePending(a)
                THEN Restart(a) ELSE a
       IN [b EXCEPT !.src = m.src]

\* a stamp before the last averaged one
FollowRegression(a, m) ==
  IF AveragePending(a) /\ a.cand # NoTime /\ m.stamp < a.cand
  THEN Restart(a) ELSE a

Duplicate(a, m) == a.last # NoTime /\ m.stamp = a.last
Backwards(a, m) == a.last # NoTime /\ m.stamp < a.last /\ cfg.monotonic
TimeGap(a, m)   == a.last # NoTime /\ m.stamp - a.last > MaxGap

FollowTime(a, m) ==
  LET b == IF TimeGap(a, m)
           THEN [a EXCEPT !.tracking = IF a.wasActive THEN "LOST" ELSE "WAITING",
                          !.fixed = 0, !.lost = 0]
           ELSE a
  IN [b EXCEPT !.last = m.stamp]

\* a message without a usable measurement time
Untimed(m) == m.stamp = 0 \/ ~m.localValid

\* acceptance of a sample, with the state after it
Accepts(a, m, gap) ==
  LET raw == Classify(m)
      enabled == IF raw = "RTK_FIXED"
                 THEN m.good /\ StateQuality(a) = "RTK_FIXED"
                             /\ QualityAccepted("RTK_FIXED")
                 ELSE /\ raw # "INVALID" /\ m.good /\ QualityAccepted(raw)
                      /\ StateQuality(a) # "RECOVERING"
  IN  enabled /\ ~gap /\ (cfg.local => OriginReady(a))

Seen(m, gap, ok) ==
  [stamp |-> m.stamp, src |-> m.src, raw |-> Classify(m), good |-> m.good,
   gap |-> gap, accepted |-> ok]

\* Since a reset the confirmation starts over, so does its history.
Remember(a, rec) ==
  seen' = Append(IF a.last = NoTime THEN <<>> ELSE seen, rec)

\* a rejection before the state machine: only the source and the reset stick
RejectEarly(m) ==
  LET a == FollowSource(ad, m)
      b == FollowRegression(a, m)
  IN  /\ \/ Untimed(m) /\ ad' = a
         \/ /\ ~Untimed(m)
            /\ ~m.fusionValid \/ Duplicate(b, m) \/ Backwards(b, m)
            /\ ad' = b
      /\ UNCHANGED <<cfg, seen, fused>>

Handle(m) ==
  LET a == FollowRegression(FollowSource(ad, m), m)
      gap == TimeGap(a, m)
      raw == Classify(m)
      b == UpdateFixedState(FollowTime(a, m), raw = "RTK_FIXED")
      c == IF cfg.local /\ raw = "RTK_FIXED" /\ m.good
           THEN UpdateOrigin(b, m) ELSE b
      ok == Accepts(c, m, gap)
  IN  /\ ~Untimed(m) /\ m.fusionValid
      /\ ~Duplicate(a, m) /\ ~Backwards(a, m)
      /\ ad' = c
      /\ Remember(a, Seen(m, gap, ok))
      /\ fused' = IF ok THEN Append(fused, Seen(m, gap, ok)) ELSE fused
      /\ UNCHANGED cfg

\* the legacy message's own time cannot be converted: nothing changes
BadGpsTime(m) == cfg.input = "legacy" /\ m.stamp = 0 /\ UNCHANGED gnssVars

ProcessPvt(m) ==
  /\ cfg.input # "pose"
  /\ IF cfg.input = "legacy" /\ m.stamp = 0
     THEN BadGpsTime(m)
     ELSE RejectEarly(m) \/ Handle(m)

\* process(PoseWithCovarianceStamped): one configured quality for every sample
ProcessPose(m) ==
  LET rec == [stamp |-> m.stamp, src |-> m.src, raw |-> cfg.poseQuality,
              good |-> m.good, gap |-> FALSE,
              accepted |-> QualityAccepted(cfg.poseQuality)]
  IN  /\ cfg.input = "pose"
      /\ IF m.stamp = 0 \/ ~m.good \/ Duplicate(ad, m) \/ Backwards(ad, m)
         THEN UNCHANGED gnssVars
         ELSE /\ ad' = [ad EXCEPT !.last = m.stamp]
              /\ fused' = IF rec.accepted THEN Append(fused, rec) ELSE fused
              /\ UNCHANGED <<cfg, seen>>

GnssInit ==
  /\ cfg \in Configs
  /\ ad = FreshAdapter(cfg)
  /\ seen = <<>>
  /\ fused = <<>>

Process(m) == ProcessPvt(m) \/ ProcessPose(m)

-----------------------------------------------------------------------------
GnssTypeOK ==
  /\ ad.tracking \in {"WAITING", "ACTIVE_FIXED", "LOST", "RECOVERING"}
  /\ ad.fixed \in Nat /\ ad.lost \in Nat
  /\ ad.last \in Nat \cup {NoTime} /\ ad.cand \in Nat \cup {NoTime}
  /\ Len(ad.samples) < AverageCount
  /\ (ad.cand = NoTime) = (ad.samples = <<>>)

IsFixed(r) == r.raw = "RTK_FIXED"

\* a gapless run of k fixed samples that ends at i and starts at lo or later
ConfirmedBy(k, lo, i) ==
  /\ i - k + 1 >= lo
  /\ \A j \in (i - k + 1)..i : IsFixed(seen[j])
  /\ \A j \in (i - k + 2)..i : ~seen[j].gap

\* what loses an established fix: a time gap, or FixedLost samples without one
LossAt(j) ==
  \/ seen[j].gap
  \/ /\ j >= FixedLost
     /\ \A i \in (j - FixedLost + 1)..j : ~IsFixed(seen[i])

LastLoss == LET L == {j \in 1..Len(seen) : LossAt(j)}
            IN IF L = {} THEN 1 ELSE CHOOSE j \in L : \A i \in L : i <= j

(* A fixed sample is fused only after enough consecutive fixed solutions:  *)
(* FixedConfirm at first, RecoveryConfirm once a confirmed fix was lost to *)
(* a time gap or to FixedLost solutions without a fix (updateFixedState    *)
(* and the time gap before it).                                            *)
AcceptedFixConfirmed ==
  LET n == Len(seen)
      activated == \E i \in 1..(LastLoss - 1) : ConfirmedBy(FixedConfirm, 1, i)
      need == IF activated THEN RecoveryConfirm ELSE FixedConfirm
  IN  (n > 0 /\ seen[n].accepted /\ IsFixed(seen[n])) =>
        \E i \in 1..n : ConfirmedBy(need, LastLoss, i)

(* The averaged origin comes from one unbroken series: samples of one      *)
(* source, in increasing time, none farther from the one before than the   *)
(* gap allowed, whatever was lost, repeated or restarted while it was       *)
(* collected (updateOrigin, resetOriginAverage, SOURCE_EPOCH_CHANGED).     *)
OriginFromOneSeries ==
  LET series == IF cfg.originMode = "average_fixed"
                THEN <<ad.samples, ad.origin>> ELSE <<>>
  IN  \A k \in DOMAIN series : \A i \in 1..(Len(series[k]) - 1) :
        LET s == series[k][i]
            t == series[k][i + 1]
        IN  s.src = t.src /\ s.stamp < t.stamp /\ t.stamp - s.stamp <= OriginMaxGap

(* Fused samples of a node that converts to local ENU never go back in     *)
(* time or repeat a stamp, across losses, gaps and source changes.         *)
FusedInOrder ==
  (cfg.monotonic /\ cfg.local) =>
    \A i \in 1..(Len(fused) - 1) : fused[i].stamp < fused[i + 1].stamp
=============================================================================
