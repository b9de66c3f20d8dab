---------------------------- MODULE GnssRecovery ----------------------------
(* How the RTK backend takes GNSS up again after an outage                 *)
(* (rtk_fixed_lag_backend.cpp): the first factors are weighed weakly,      *)
(* float factors are rate limited, and a fixed solution far from the       *)
(* estimate is believed only when its neighbours agree.  RtkGnssLedger     *)
(* follows the samples and leaves these decisions open; here they are      *)
(* made.  Samples wait in the queue while the statuses of later ones       *)
(* already arrive.  Inflation is counted in ticks of the ramp that remain. *)
EXTENDS Naturals, Integers, Sequences, SequencesExt

CONSTANTS
  GapThreshold,   \* gnss_recovery_gap_threshold_s
  Ramps,          \* gnss_recovery_ramp_duration_s, and the initial inflation
  ConfirmFactors, \* gnss_recovery_fixed_confirm_factors
  FixedGap,       \* gnss_recovery_fixed_max_gap_s
  FloatInterval,  \* 1 / gnss_recovery_float_factor_rate_hz
  MaxResidual,    \* max_gnss_residual_m
  Consistency,    \* gnss_reacquisition_consistency_m
  Residuals,      \* residuals a sample may have
  SampleSteps,    \* time from one sample to the next
  MaxQueue,       \* bound: samples waiting for raw odometry
  EndTime         \* bound: no status after it

\* validateParameters, with recovery and reacquisition switched on
ASSUME RecoveryAssumption ==
  /\ {GapThreshold, FixedGap, FloatInterval, MaxResidual, Consistency}
       \subseteq Nat \ {0}
  /\ ConfirmFactors \in Nat \ {0, 1}
  /\ (Residuals \cup Ramps) \subseteq Nat /\ SampleSteps \subseteq Nat \ {0}
  /\ MaxQueue \in Nat /\ EndTime \in Nat

VARIABLES
  ramp,     \* the ramp the node runs with; 0: factors are never inflated
  newest,   \* stamp of the last status
  queue,    \* pending_factor_gnss_
  rec,      \* the clocks and counters of the recovery
  tried     \* history: factors, candidates and what interrupts them, in order

recoveryVars == <<ramp, newest, queue, rec, tried>>

NoStamp == -1

RecoveryInit ==
  /\ ramp \in Ramps /\ newest = 0 /\ queue = <<>> /\ tried = <<>>
  /\ rec = [start |-> NoStamp, fade |-> NoStamp, lastFixed |-> NoStamp, fixed |-> 0,
            lastFloat |-> NoStamp, added |-> NoStamp, candidates |-> 0,
            candStamp |-> NoStamp, candResidual |-> 0]

NoRecovery(r) == [r EXCEPT !.start = NoStamp, !.fade = NoStamp, !.lastFixed = NoStamp,
                           !.fixed = 0, !.lastFloat = NoStamp]

Recovering(r) == r.start # NoStamp /\ r.fade = NoStamp
Outage(t) == rec.added # NoStamp /\ t - rec.added > GapThreshold

Forgotten == [rec EXCEPT !.candidates = 0]

\* An interruption is remembered where it interrupts candidates.
Note(kind, m, residual, inflation) ==
  tried' = IF kind = "break" /\ (tried = <<>> \/ Last(tried).kind # "candidate") THEN tried
           ELSE Append(tried, [kind |-> kind, t |-> m.t, q |-> m.q, residual |-> residual,
                               inflation |-> inflation])

-----------------------------------------------------------------------------
(* Statuses: gnssStatusCallback and processAcceptedGnss.  Whatever is not a *)
(* usable fixed solution breaks the row of candidates when it arrives, not  *)
(* when its sample is processed.                                            *)

Breaks(q, queued) == ~queued \/ q # "fixed"

TakeSample(d, q, queued) ==
  LET m == [t |-> newest + d, q |-> q] IN
  /\ Len(queue) < MaxQueue
  /\ newest' = m.t /\ UNCHANGED ramp
  /\ queue' = IF queued THEN Append(queue, m) ELSE queue
  /\ IF Breaks(q, queued) THEN rec' = Forgotten ELSE UNCHANGED rec
  /\ IF ~queued \/ q # "fixed" THEN Note("break", m, 0, 0) ELSE UNCHANGED tried

-----------------------------------------------------------------------------
(* processPendingGnss: the first sample of the queue.                       *)

\* without raw odometry, a node or an estimate to compare it with
LeaveOut ==
  /\ queue # <<>>
  /\ queue' = Tail(queue)
  /\ UNCHANGED <<ramp, newest, rec, tried>>

RateLimited(m) ==
  /\ Recovering(rec) /\ m.q = "float" /\ rec.lastFloat # NoStamp
  /\ m.t - rec.lastFloat < FloatInterval

\* Mutant: a limited float leaves the row of fixed factors.
UnbrokenStreak == rec

BrokenStreak == [rec EXCEPT !.lastFixed = NoStamp, !.fixed = 0]

Limit ==
  /\ queue # <<>> /\ RateLimited(Head(queue))
  /\ rec' = BrokenStreak
  /\ queue' = Tail(queue)
  /\ Note("limited", Head(queue), 0, 0)
  /\ UNCHANGED <<ramp, newest>>

\* updateGnssRecoverySigmaScale: what remains of the ramp, and its end
Inflation(t) ==
  CASE Outage(t) \/ Recovering(rec) -> ramp
    [] ~Outage(t) /\ rec.fade # NoStamp /\ t - rec.fade < ramp -> ramp - (t - rec.fade)
    [] OTHER -> 0

Weighed(t) ==
  IF ~Outage(t) /\ rec.fade # NoStamp /\ t - rec.fade >= ramp THEN NoRecovery(rec)
                                                             ELSE rec

\* confirmGnssReacquisition: a fixed solution far from the estimate
MayReacquire(m, residual, nis) ==
  Outage(m.t) /\ m.q = "fixed" /\ residual > MaxResidual /\ nis = "good"

Differs(a, b) == IF a > b THEN a - b ELSE b - a

Agrees(m, residual) ==
  /\ rec.candidates > 0 /\ m.t - rec.candStamp <= FixedGap
  /\ Differs(residual, rec.candResidual) <= Consistency

Candidates(r, m, residual, nis) ==
  IF ~MayReacquire(m, residual, nis) THEN [r EXCEPT !.candidates = 0]
  ELSE [r EXCEPT !.candidates = IF Agrees(m, residual) THEN @ + 1 ELSE 1,
                 !.candStamp = m.t, !.candResidual = residual]

\* A sample that begins a recovery begins its clocks.
Begun(r, m) ==
  IF Outage(m.t) /\ ramp > 0 THEN [NoRecovery(r) EXCEPT !.start = m.t] ELSE r

\* commitGnssRecoveryAcceptedFactor
Streak(r, t) == IF r.lastFixed # NoStamp /\ t - r.lastFixed <= FixedGap THEN r.fixed + 1 ELSE 1

Fixed(r, t) ==
  [r EXCEPT !.fixed = Streak(r, t), !.lastFixed = t,
            !.fade = IF Streak(r, t) < ConfirmFactors THEN @ ELSE t,
            !.lastFloat = IF Streak(r, t) < ConfirmFactors THEN @ ELSE NoStamp]

AcceptedFactor(r, m) ==
  CASE ~Recovering(r) -> r
    [] Recovering(r) /\ m.q = "fixed" -> Fixed(r, m.t)
    [] OTHER -> [r EXCEPT !.lastFixed = NoStamp, !.fixed = 0, !.lastFloat = m.t]

AddGnssFactor(r, m, residual) ==
  /\ rec' = [AcceptedFactor(Begun([r EXCEPT !.candidates = 0], m), m) EXCEPT !.added = m.t]
  /\ Note("factor", m, residual, Inflation(m.t))

RejectFactor(r, m, residual) ==
  /\ rec' = r
  /\ Note(IF r.candidates > 0 THEN "candidate" ELSE "break", m, residual, 0)

\* addGnssFactor: the absolute gate, unless the candidates agree, then NIS
Gate(r, m, residual, nis) ==
  IF nis = "large" \/ (residual > MaxResidual /\ r.candidates < ConfirmFactors)
  THEN RejectFactor(r, m, residual) ELSE AddGnssFactor(r, m, residual)

Try(residual, nis) ==
  LET m == Head(queue) IN
  /\ queue # <<>> /\ ~RateLimited(m)
  /\ queue' = Tail(queue) /\ UNCHANGED <<ramp, newest>>
  /\ IF nis = "invalid" THEN RejectFactor([Weighed(m.t) EXCEPT !.candidates = 0], m, residual)
     ELSE Gate(Candidates(Weighed(m.t), m, residual, nis), m, residual, nis)

RecoveryNext ==
  \/ /\ newest < EndTime
     /\ \E d \in SampleSteps, q \in {"fixed", "float"}, queued \in BOOLEAN : TakeSample(d, q, queued)
  \/ LeaveOut \/ Limit
  \/ \E residual \in Residuals, nis \in {"good", "large", "invalid"} : Try(residual, nis)

RecoverySpec == RecoveryInit /\ [][RecoveryNext]_recoveryVars

\* An interval of float poses fits in an outage: none is limited after one.
FloatsFit == FloatInterval <= GapThreshold + 1

-----------------------------------------------------------------------------
IsFactor(i) == tried[i].kind = "factor"
FactorsBefore(i) == {j \in 1..(i - 1) : IsFactor(j)}

\* the first factor after the last outage before factor i, or i itself
Resumes(i) ==
  /\ IsFactor(i) /\ FactorsBefore(i) # {}
  /\ \A j \in FactorsBefore(i) : tried[i].t - tried[j].t > GapThreshold

Resumptions(i) == {s \in 1..i : Resumes(s)}

\* Since s a row of fixed factors ended at e, close together, with no float
\* among them, not even one that was only limited.
RowEnds(s, e) ==
  \E row \in [1..ConfirmFactors -> s..e] :
    /\ row[ConfirmFactors] = e
    /\ \A k \in DOMAIN row : IsFactor(row[k]) /\ tried[row[k]].q = "fixed"
    /\ \A k \in 2..ConfirmFactors :
         /\ row[k - 1] < row[k] /\ tried[row[k]].t - tried[row[k - 1]].t <= FixedGap
         /\ \A j \in row[k - 1]..row[k] :
              (IsFactor(j) \/ tried[j].kind = "limited") => tried[j].q = "fixed"

\* A factor weighs more than the first after an outage only by the time since
\* such a row.
WeightEarned(i, s) ==
  tried[i].inflation = ramp \/
  \E e \in s..(i - 1) : RowEnds(s, e) /\ ramp - tried[i].inflation <= tried[i].t - tried[e].t

\* Until then float factors keep their distance.
FloatsSparse(i, s) ==
  (ramp > 0 /\ tried[i].q = "float" /\ \A e \in s..(i - 1) : ~RowEnds(s, e)) =>
    \A j \in s..(i - 1) : IsFactor(j) /\ tried[j].q = "float"
                          => tried[i].t - tried[j].t >= FloatInterval

\* A solution beyond the gate enters after ConfirmFactors fixed ones that
\* agree, with nothing unusable and no float received or tried among them.
JumpConfirmed(i) ==
  tried[i].residual > MaxResidual =>
    /\ \A j \in (i - ConfirmFactors + 1)..i :
         /\ j >= 1 /\ tried[j].q = "fixed" /\ tried[j].kind = (IF j = i THEN "factor" ELSE "candidate")
         /\ \A f \in FactorsBefore(i) : tried[j].t - tried[f].t > GapThreshold
    /\ \A j \in (i - ConfirmFactors + 2)..i :
         /\ tried[j].t - tried[j - 1].t <= FixedGap
         /\ Differs(tried[j].residual, tried[j - 1].residual) <= Consistency

(* After an outage trust is earned: full weight by accepted fixed factors in *)
(* a row, a jump beyond the residual gate by candidates that agree, and      *)
(* float factors meanwhile are few, though samples wait in the queue while   *)
(* statuses that break the rows already arrive, and rejected samples move    *)
(* no clock (updateGnssRecoverySigmaScale, commitGnssRecoveryAcceptedFactor, *)
(* confirmGnssReacquisition, gnssRecoveryFloatFactorRateLimited).            *)
RecoveryEarned ==
  LET i == Len(tried) IN
  (i > 0 /\ IsFactor(i)) =>
    /\ JumpConfirmed(i)
    /\ Resumptions(i) # {} =>
         LET s == Max(Resumptions(i)) IN WeightEarned(i, s) /\ FloatsSparse(i, s)
=============================================================================
