------------------------------ MODULE GnssProofs ------------------------------
(* For every configuration, receiver, fault and number of messages: what the  *)
(* adapter fuses is confirmed (AcceptedFixConfirmed), in order (FusedInOrder) *)
(* and outside the faults of the injector (FaultNotFused), and an averaged    *)
(* origin is of one series of samples (OriginFromOneSeries).                  *)
(*                                                                            *)
(* The heart of it is Tracks: the adapter's counters, though they forget, say *)
(* what the samples it has seen since its last reset say.                     *)
(*                                                                            *)
(* The second half is about the backend's recovery (GnssRecovery).            *)
EXTENDS GnssChain, GnssRecovery, StampSets, SequenceTheorems

Qualities == {"INVALID", "SINGLE", "DIFFERENTIAL", "RTK_FLOAT", "RTK_FIXED"}
Tracking  == {"WAITING", "ACTIVE_FIXED", "LOST", "RECOVERING"}
Source    == Sources \cup {NoSource}
Time      == Nat \cup {NoTime}

SampleSet == [stamp : Nat, src : Source]
OriginSet == {<<"manual">>} \cup Seq(SampleSet)
AdSet ==
  [tracking : Tracking, wasActive : BOOLEAN, fixed : Nat, lost : Nat, last : Time,
   src : Source, origin : OriginSet, samples : Seq(SampleSet), cand : Time]
MsgSet ==
  [stamp : Nat, valid : BOOLEAN, fixType : Nat, diff : BOOLEAN, carr : Nat, good : BOOLEAN,
   src : Source, localValid : BOOLEAN, fusionValid : BOOLEAN]
SeenSet ==
  [stamp : Nat, src : Source, raw : Qualities, good : BOOLEAN, gap : BOOLEAN,
   accepted : BOOLEAN]

\* what the properties say of seen, said of any sequence of samples
RunOf(s, k, lo, i) ==
  /\ i - k + 1 >= lo
  /\ \A j \in (i - k + 1)..i : IsFixed(s[j])
  /\ \A j \in (i - k + 2)..i : ~s[j].gap
LossIn(s, j) ==
  \/ s[j].gap
  \/ /\ j >= FixedLost
     /\ \A i \in (j - FixedLost + 1)..j : ~IsFixed(s[i])
Losses(s) == {j \in 1..Len(s) : LossIn(s, j)}
LastOf(L) == IF L = {} THEN 1 ELSE CHOOSE j \in L : \A i \in L : i <= j
LastLossIn(s) == LastOf(Losses(s))
Activated(s) == \E i \in 1..(LastLossIn(s) - 1) : RunOf(s, FixedConfirm, 1, i)
Needed(s) == IF Activated(s) THEN RecoveryConfirm ELSE FixedConfirm
Earned(s) == \E i \in 1..Len(s) : RunOf(s, Needed(s), LastLossIn(s), i)
Confirmed(s) ==
  LET n == Len(s) IN (n > 0 /\ s[n].accepted /\ IsFixed(s[n])) => Earned(s)

\* The samples seen end with the run that is counted, and nothing before it
\* would confirm a fix.
Counts(a, s) ==
  /\ a.fixed <= Len(s)
  /\ \A j \in (Len(s) - a.fixed + 1)..Len(s) : IsFixed(s[j])
  /\ \A j \in (Len(s) - a.fixed + 2)..Len(s) : ~s[j].gap
Waits(a, s) ==
  a.tracking = "WAITING" =>
    /\ a.fixed < FixedConfirm
    /\ \/ a.fixed = Len(s)
       \/ ~IsFixed(s[Len(s) - a.fixed])
       \/ a.fixed > 0 /\ s[Len(s) - a.fixed + 1].gap
Holds(a, s) ==
  a.tracking \in {"ACTIVE_FIXED", "RECOVERING"} =>
    /\ a.lost < FixedLost /\ a.lost < Len(s)
    /\ IsFixed(s[Len(s) - a.lost])
    /\ \A j \in (Len(s) - a.lost + 1)..Len(s) : ~IsFixed(s[j])
EverActive(a, s) ==
  /\ a.wasActive <=> a.tracking # "WAITING"
  /\ a.wasActive <=> \E i \in 1..Len(s) : RunOf(s, FixedConfirm, 1, i)
Stands(a, s) ==
  /\ a.tracking \in {"LOST", "RECOVERING"} => Activated(s)
  /\ a.tracking = "ACTIVE_FIXED" => Earned(s)

Tracks(a, s) == Counts(a, s) /\ Waits(a, s) /\ Holds(a, s) /\ EverActive(a, s) /\ Stands(a, s)

-----------------------------------------------------------------------------
(* Runs and losses.                                                          *)

LEMMA LastLossIs ==
  \A s \in Seq(SeenSet) :
    /\ LastLossIn(s) \in Nat \ {0}
    /\ \/ Losses(s) = {} /\ LastLossIn(s) = 1
       \/ LastLossIn(s) \in Losses(s) /\ \A j \in Losses(s) : j <= LastLossIn(s)
<1> TAKE s \in Seq(SeenSet)
<1>1. CASE Losses(s) = {}
  BY <1>1 DEF LastLossIn, LastOf
<1>2. CASE Losses(s) # {}
  <2>1. PICK n \in Nat : n = Len(s) OBVIOUS
  <2>2. Losses(s) \subseteq 1..n BY <2>1 DEF Losses
  <2> DEFINE T == {n - j : j \in Losses(s)}
  <2>3. T \in SUBSET Nat /\ T # {} BY <1>2, <2>2
  <2>4. PICK t \in T : \A u \in T : t <= u BY <2>3, LeastElement
  <2>5. PICK j \in Losses(s) : t = n - j BY <2>4
  <2>6. \A i \in Losses(s) : i <= j
    <3> TAKE i \in Losses(s)
    <3>1. n - i \in T OBVIOUS
    <3>2. t <= n - i BY <2>4, <3>1
    <3> QED BY <2>2, <2>5, <3>2
  <2>7. LastLossIn(s) \in Losses(s) /\ \A i \in Losses(s) : i <= LastLossIn(s)
    BY <1>2, <2>6 DEF LastLossIn, LastOf
  <2> QED BY <2>2, <2>7
<1> QED BY <1>1, <1>2

\* Runs and losses are of the past: a new sample leaves those before it.
LEMMA PastStays ==
  \A s \in Seq(SeenSet), r \in SeenSet :
    /\ Append(s, r) \in Seq(SeenSet) /\ Len(Append(s, r)) = Len(s) + 1
    /\ Append(s, r)[Len(s) + 1] = r
    /\ \A i \in 1..Len(s) : Append(s, r)[i] = s[i]
    /\ \A k, lo \in Nat \ {0} : \A i \in 1..Len(s) :
         RunOf(Append(s, r), k, lo, i) <=> RunOf(s, k, lo, i)
    /\ \A j \in 1..Len(s) : LossIn(Append(s, r), j) <=> LossIn(s, j)
<1> TAKE s \in Seq(SeenSet), r \in SeenSet
<1>1. PICK n \in Nat : n = Len(s) OBVIOUS
<1>2. PICK v \in Seq(SeenSet) : v = Append(s, r) BY AppendProperties
<1>3. Len(v) = n + 1 /\ v[n + 1] = r /\ \A i \in 1..n : v[i] = s[i]
  BY <1>1, <1>2, AppendProperties
<1>4. ASSUME NEW k \in Nat \ {0}, NEW lo \in Nat \ {0}, NEW i \in 1..n
      PROVE  RunOf(v, k, lo, i) <=> RunOf(s, k, lo, i)
  <2>1. i - k + 1 >= lo => \A j \in (i - k + 1)..i : v[j] = s[j] BY <1>3
  <2>2. i - k + 1 >= lo => \A j \in (i - k + 2)..i : v[j] = s[j] BY <1>3
  <2> QED BY <2>1, <2>2 DEF RunOf, IsFixed
<1>5. ASSUME NEW j \in 1..n
      PROVE  LossIn(v, j) <=> LossIn(s, j)
  <2>1. v[j] = s[j] BY <1>3
  <2>2. FixedLost \in Nat \ {0} BY GnssCountsAssumption
  <2>3. j >= FixedLost => \A i \in (j - FixedLost + 1)..j : v[i] = s[i] BY <1>3, <2>2
  <2> QED BY <2>1, <2>2, <2>3 DEF LossIn, IsFixed
<1> QED BY <1>1, <1>2, <1>3, <1>4, <1>5

\* The new sample is a loss, or the last loss stays what it was.
LEMMA LastLossMoves ==
  \A s \in Seq(SeenSet), r \in SeenSet :
    /\ LossIn(Append(s, r), Len(s) + 1) => LastLossIn(Append(s, r)) = Len(s) + 1
    /\ ~LossIn(Append(s, r), Len(s) + 1) => LastLossIn(Append(s, r)) = LastLossIn(s)
<1> TAKE s \in Seq(SeenSet), r \in SeenSet
<1>1. PICK n \in Nat : n = Len(s) OBVIOUS
<1>2. PICK v \in Seq(SeenSet) : v = Append(s, r) BY AppendProperties
<1>3. Len(v) = n + 1 /\ \A j \in 1..n : LossIn(v, j) <=> LossIn(s, j)
  BY <1>1, <1>2, PastStays
<1>4. CASE LossIn(v, n + 1)
  <2>1. n + 1 \in Losses(v) BY <1>3, <1>4 DEF Losses
  <2>2. Losses(v) \subseteq 1..n + 1 BY <1>3 DEF Losses
  <2>3. LastLossIn(v) \in Losses(v) /\ n + 1 <= LastLossIn(v) BY <2>1, LastLossIs
  <2> QED BY <1>1, <1>2, <1>4, <2>2, <2>3
<1>5. CASE ~LossIn(v, n + 1)
  <2>1. Losses(v) = Losses(s) BY <1>1, <1>3, <1>5 DEF Losses
  <2> QED BY <1>1, <1>2, <1>5, <2>1 DEF LastLossIn
<1> QED BY <1>4, <1>5
-----------------------------------------------------------------------------
(* updateFixedState keeps Tracks.                                            *)

\* the record after the check for a time gap, and after updateFixedState
AfterGap(a, f, gap) ==
  /\ f.wasActive = a.wasActive
  /\ gap => /\ f.tracking = IF a.wasActive THEN "LOST" ELSE "WAITING"
            /\ f.fixed = 0 /\ f.lost = 0
  /\ ~gap => f.tracking = a.tracking /\ f.fixed = a.fixed /\ f.lost = a.lost

\* What HoldFix and LoseFix do to a record, in short.
LEMMA HoldFixFields ==
  \A f \in AdSet : LET b == HoldFix(f) IN
    /\ b \in AdSet /\ b.lost = 0
    /\ b.fixed = IF f.tracking = "LOST" THEN 1 ELSE f.fixed + 1
    /\ f.tracking = "ACTIVE_FIXED" => b.tracking = "ACTIVE_FIXED"
    /\ f.tracking = "WAITING" =>
         b.tracking = IF f.fixed + 1 >= FixedConfirm THEN "ACTIVE_FIXED" ELSE "WAITING"
    /\ f.tracking \in {"LOST", "RECOVERING"} =>
         b.tracking = IF b.fixed >= RecoveryConfirm THEN "ACTIVE_FIXED" ELSE "RECOVERING"
    /\ b.wasActive <=> f.wasActive \/ (f.tracking # "ACTIVE_FIXED" /\ b.tracking = "ACTIVE_FIXED")
    /\ b.last = f.last /\ b.src = f.src /\ b.origin = f.origin /\ b.samples = f.samples
    /\ b.cand = f.cand
<1> TAKE f \in AdSet
<1>1. PICK e \in AdSet : e = [f EXCEPT !.lost = 0, !.fixed = f.fixed + 1]
  <2>1. f.fixed + 1 \in Nat BY DEF AdSet
  <2>2. [f EXCEPT !.lost = 0, !.fixed = f.fixed + 1] \in AdSet BY <2>1 DEF AdSet
  <2> QED BY <2>2
<1>2. PICK c \in AdSet :
        c = IF e.tracking = "LOST" THEN [e EXCEPT !.tracking = "RECOVERING", !.fixed = 1] ELSE e
  <2>1. [e EXCEPT !.tracking = "RECOVERING", !.fixed = 1] \in AdSet BY DEF AdSet, Tracking
  <2> QED BY <2>1
<1>3. PICK b \in AdSet :
        b = IF /\ c.tracking # "ACTIVE_FIXED"
               /\ c.fixed >= IF c.tracking = "RECOVERING" THEN RecoveryConfirm ELSE FixedConfirm
            THEN [c EXCEPT !.tracking = "ACTIVE_FIXED", !.wasActive = TRUE] ELSE c
  <2>1. [c EXCEPT !.tracking = "ACTIVE_FIXED", !.wasActive = TRUE] \in AdSet BY DEF AdSet, Tracking
  <2> QED BY <2>1
<1>4. HoldFix(f) = b BY <1>1, <1>2, <1>3 DEF HoldFix
<1>5. /\ e.lost = 0 /\ e.fixed = f.fixed + 1 /\ e.tracking = f.tracking
      /\ e.wasActive = f.wasActive /\ e.last = f.last /\ e.src = f.src
      /\ e.origin = f.origin /\ e.samples = f.samples /\ e.cand = f.cand
  BY <1>1 DEF AdSet
<1>6. /\ c.lost = 0 /\ c.wasActive = f.wasActive /\ c.last = f.last /\ c.src = f.src
      /\ c.origin = f.origin /\ c.samples = f.samples /\ c.cand = f.cand
      /\ c.tracking = IF f.tracking = "LOST" THEN "RECOVERING" ELSE f.tracking
      /\ c.fixed = IF f.tracking = "LOST" THEN 1 ELSE f.fixed + 1
  BY <1>2, <1>5 DEF AdSet
<1>7. /\ b.lost = 0 /\ b.fixed = c.fixed /\ b.last = f.last /\ b.src = f.src
      /\ b.origin = f.origin /\ b.samples = f.samples /\ b.cand = f.cand
  BY <1>3, <1>6 DEF AdSet
<1> DEFINE need == IF c.tracking = "RECOVERING" THEN RecoveryConfirm ELSE FixedConfirm
<1>8. b.tracking = IF c.tracking # "ACTIVE_FIXED" /\ c.fixed >= need
                   THEN "ACTIVE_FIXED" ELSE c.tracking
  BY <1>3 DEF AdSet
<1>9. b.wasActive <=> c.wasActive \/ (c.tracking # "ACTIVE_FIXED" /\ c.fixed >= need)
  BY <1>3 DEF AdSet
<1>10. f.tracking \in Tracking BY DEF AdSet
<1>11. b.wasActive <=> f.wasActive \/ (f.tracking # "ACTIVE_FIXED" /\ b.tracking = "ACTIVE_FIXED")
  <2>1. c.tracking = "ACTIVE_FIXED" <=> f.tracking = "ACTIVE_FIXED" BY <1>6
  <2>2. c.tracking # "ACTIVE_FIXED" =>
          (b.tracking = "ACTIVE_FIXED" <=> c.fixed >= need) BY <1>8
  <2>3. c.wasActive = f.wasActive BY <1>6
  <2> HIDE DEF need
  <2> QED BY <1>9, <2>1, <2>2, <2>3, Zenon
<1>12. /\ b.fixed = IF f.tracking = "LOST" THEN 1 ELSE f.fixed + 1
       /\ f.tracking = "ACTIVE_FIXED" => b.tracking = "ACTIVE_FIXED"
       /\ f.tracking = "WAITING" =>
            b.tracking = IF f.fixed + 1 >= FixedConfirm THEN "ACTIVE_FIXED" ELSE "WAITING"
       /\ f.tracking \in {"LOST", "RECOVERING"} =>
            b.tracking = IF b.fixed >= RecoveryConfirm THEN "ACTIVE_FIXED" ELSE "RECOVERING"
  BY <1>6, <1>7, <1>8
<1> QED BY <1>4, <1>7, <1>11, <1>12

LEMMA LoseFixFields ==
  \A f \in AdSet : LET b == LoseFix(f) IN
    /\ b \in AdSet /\ b.fixed = 0 /\ b.lost = f.lost + 1
    /\ b.tracking = IF /\ f.tracking \in {"ACTIVE_FIXED", "RECOVERING"}
                       /\ f.lost + 1 >= FixedLost
                    THEN "LOST" ELSE f.tracking
    /\ b.wasActive = f.wasActive /\ b.last = f.last /\ b.src = f.src
    /\ b.origin = f.origin /\ b.samples = f.samples /\ b.cand = f.cand
<1> TAKE f \in AdSet
<1>1. PICK e \in AdSet : e = [f EXCEPT !.fixed = 0, !.lost = f.lost + 1]
  <2>1. f.lost + 1 \in Nat BY DEF AdSet
  <2>2. [f EXCEPT !.fixed = 0, !.lost = f.lost + 1] \in AdSet BY <2>1 DEF AdSet
  <2> QED BY <2>2
<1>2. /\ e.fixed = 0 /\ e.lost = f.lost + 1 /\ e.tracking = f.tracking
      /\ e.wasActive = f.wasActive /\ e.last = f.last /\ e.src = f.src
      /\ e.origin = f.origin /\ e.samples = f.samples /\ e.cand = f.cand
  BY <1>1 DEF AdSet
<1>3. PICK l \in AdSet : l = [e EXCEPT !.tracking = "LOST"]
  <2>1. [e EXCEPT !.tracking = "LOST"] \in AdSet BY DEF AdSet, Tracking
  <2> QED BY <2>1
<1>4. LoseFix(f) = IF f.tracking \in {"ACTIVE_FIXED", "RECOVERING"} /\ e.lost >= FixedLost
                   THEN l ELSE e
  BY <1>1, <1>3 DEF LoseFix
<1>5. /\ l.tracking = "LOST" /\ l.fixed = 0 /\ l.lost = f.lost + 1
      /\ l.wasActive = f.wasActive /\ l.last = f.last /\ l.src = f.src
      /\ l.origin = f.origin /\ l.samples = f.samples /\ l.cand = f.cand
  BY <1>2, <1>3 DEF AdSet
<1> QED BY <1>2, <1>4, <1>5
\* A run that the adapter counts begins at the last loss or after it.
LEMMA CountedAfterLoss ==
  \A s \in Seq(SeenSet), a \in AdSet : \A k \in 1..a.fixed :
    Counts(a, s) => RunOf(s, k, 1, Len(s)) /\ RunOf(s, k, LastLossIn(s), Len(s))
<1> TAKE s \in Seq(SeenSet), a \in AdSet
<1>0. PICK x \in Nat : x = a.fixed BY DEF AdSet
<1> SUFFICES ASSUME NEW k \in 1..x, Counts(a, s)
             PROVE  RunOf(s, k, 1, Len(s)) /\ RunOf(s, k, LastLossIn(s), Len(s))
  BY <1>0
<1>1. PICK n \in Nat : n = Len(s) OBVIOUS
<1>2. /\ x <= n /\ \A j \in (n - x + 1)..n : IsFixed(s[j])
      /\ \A j \in (n - x + 2)..n : ~s[j].gap
  BY <1>0, <1>1 DEF Counts
<1>3. PICK p \in Nat \ {0} : p = LastLossIn(s) BY LastLossIs
<1>4. FixedLost \in Nat \ {0} BY GnssCountsAssumption
<1>5. n - k + 1 >= p
  <2>1. CASE Losses(s) = {} BY <1>2, <1>3, <2>1, LastLossIs
  <2>2. CASE Losses(s) # {}
    <3>1. p \in 1..n /\ LossIn(s, p) BY <1>1, <1>3, <2>2, LastLossIs DEF Losses
    <3>2. CASE s[p].gap BY <1>2, <3>1, <3>2
    <3>3. CASE ~IsFixed(s[p]) BY <1>2, <3>1, <3>3
    <3> QED BY <1>4, <3>1, <3>2, <3>3 DEF LossIn
  <2> QED BY <2>1, <2>2
<1>6. /\ \A j \in (n - k + 1)..n : IsFixed(s[j])
      /\ \A j \in (n - k + 2)..n : ~s[j].gap
  BY <1>2
<1> QED BY <1>1, <1>2, <1>3, <1>5, <1>6 DEF RunOf

\* What was earned stays earned until the next loss.
LEMMA StandsOrLoses ==
  \A s \in Seq(SeenSet), r \in SeenSet :
    LET v == Append(s, r) IN
    /\ LossIn(v, Len(s) + 1) =>
         (Activated(v) <=> \E i \in 1..Len(s) : RunOf(s, FixedConfirm, 1, i))
    /\ ~LossIn(v, Len(s) + 1) =>
         /\ Activated(v) <=> Activated(s)
         /\ Earned(s) => Earned(v)
<1> TAKE s \in Seq(SeenSet), r \in SeenSet
<1>1. PICK n \in Nat : n = Len(s) OBVIOUS
<1>2. PICK v \in Seq(SeenSet) : v = Append(s, r) BY AppendProperties
<1>3. /\ FixedConfirm \in Nat \ {0} /\ RecoveryConfirm \in Nat \ {0} BY GnssCountsAssumption
<1>4. Len(v) = n + 1 /\ \A k, lo \in Nat \ {0} : \A i \in 1..n : RunOf(v, k, lo, i) <=> RunOf(s, k, lo, i)
  BY <1>1, <1>2, PastStays
<1>5. \A i \in 1..n : RunOf(v, FixedConfirm, 1, i) <=> RunOf(s, FixedConfirm, 1, i)
  BY <1>3, <1>4
<1>6. ASSUME LossIn(v, n + 1)
      PROVE  Activated(v) <=> \E i \in 1..n : RunOf(s, FixedConfirm, 1, i)
  <2>1. LastLossIn(v) = n + 1 BY <1>1, <1>2, <1>6, LastLossMoves
  <2>2. 1..(n + 1 - 1) = 1..n OBVIOUS
  <2> QED BY <1>5, <2>1, <2>2 DEF Activated
<1>7. ASSUME ~LossIn(v, n + 1)
      PROVE  (Activated(v) <=> Activated(s)) /\ (Earned(s) => Earned(v))
  <2>1. LastLossIn(v) = LastLossIn(s) BY <1>1, <1>2, <1>7, LastLossMoves
  <2>2. PICK p \in Nat \ {0} : p = LastLossIn(s) BY LastLossIs
  <2>3. p <= n + 1
    BY <1>1, <2>2, LastLossIs DEF Losses
  <2>4. \A i \in 1..(p - 1) : RunOf(v, FixedConfirm, 1, i) <=> RunOf(s, FixedConfirm, 1, i)
    BY <1>5, <2>2, <2>3
  <2>5. Activated(v) <=> Activated(s) BY <2>1, <2>2, <2>4 DEF Activated
  <2>6. PICK k \in Nat \ {0} : k = Needed(s) BY <1>3 DEF Needed
  <2>7. Needed(v) = k BY <2>5, <2>6 DEF Needed
  <2>8. ASSUME Earned(s) PROVE Earned(v)
    <3>1. PICK i \in 1..n : RunOf(s, k, p, i) BY <1>1, <2>2, <2>6, <2>8 DEF Earned
    <3>2. RunOf(v, k, p, i) BY <1>4, <3>1
    <3>3. i \in 1..Len(v) BY <1>4
    <3> QED BY <2>1, <2>2, <2>7, <3>2, <3>3 DEF Earned
  <2> QED BY <2>5, <2>8
<1> QED BY <1>1, <1>2, <1>6, <1>7
\* A fixed solution, counted.
LEMMA FixedKeepsTracks ==
  \A s \in Seq(SeenSet), a, f \in AdSet, r \in SeenSet :
    Tracks(a, s) /\ AfterGap(a, f, r.gap) /\ IsFixed(r) => Tracks(HoldFix(f), Append(s, r))
<1> SUFFICES ASSUME NEW s \in Seq(SeenSet), NEW a \in AdSet, NEW f \in AdSet, NEW r \in SeenSet,
                    Tracks(a, s), AfterGap(a, f, r.gap), IsFixed(r)
             PROVE  Tracks(HoldFix(f), Append(s, r))
  OBVIOUS
<1>1. PICK n \in Nat : n = Len(s) OBVIOUS
<1>2. PICK v \in Seq(SeenSet) : v = Append(s, r) BY AppendProperties
<1>3. /\ Len(v) = n + 1 /\ v[n + 1] = r /\ \A i \in 1..n : v[i] = s[i]
      /\ \A k, lo \in Nat \ {0} : \A i \in 1..n : RunOf(v, k, lo, i) <=> RunOf(s, k, lo, i)
  BY <1>1, <1>2, PastStays
<1>4. PICK b \in AdSet : b = HoldFix(f) BY HoldFixFields
<1>5. /\ b.lost = 0 /\ b.fixed = IF f.tracking = "LOST" THEN 1 ELSE f.fixed + 1
      /\ f.tracking = "ACTIVE_FIXED" => b.tracking = "ACTIVE_FIXED"
      /\ f.tracking = "WAITING" =>
           b.tracking = IF f.fixed + 1 >= FixedConfirm THEN "ACTIVE_FIXED" ELSE "WAITING"
      /\ f.tracking \in {"LOST", "RECOVERING"} =>
           b.tracking = IF b.fixed >= RecoveryConfirm THEN "ACTIVE_FIXED" ELSE "RECOVERING"
  BY <1>4, HoldFixFields
<1>6. b.wasActive <=> f.wasActive \/ (f.tracking # "ACTIVE_FIXED" /\ b.tracking = "ACTIVE_FIXED")
  BY <1>4, HoldFixFields
<1>7. /\ a.fixed \in Nat /\ f.fixed \in Nat /\ f.tracking \in Tracking /\ a.tracking \in Tracking
      /\ b.tracking \in Tracking /\ b.fixed \in Nat
  BY DEF AdSet
<1>8. FixedConfirm \in Nat \ {0} /\ RecoveryConfirm \in Nat \ {0} /\ FixedLost \in Nat \ {0}
  BY GnssCountsAssumption
<1>9. r.gap \in BOOLEAN /\ a.wasActive \in BOOLEAN BY DEF SeenSet, AdSet
<1>10. f.fixed <= a.fixed /\ (r.gap => f.fixed = 0) /\ (~r.gap => f.fixed = a.fixed)
  BY <1>7, <1>9 DEF AfterGap
<1>11. a.wasActive <=> f.tracking # "WAITING"
  <2>1. CASE r.gap BY <2>1 DEF AfterGap
  <2>2. CASE ~r.gap BY <2>2 DEF AfterGap, Tracks, EverActive
  <2> QED BY <1>9, <2>1, <2>2
<1>12. f.wasActive <=> f.tracking # "WAITING"
  BY <1>11, Zenon DEF AfterGap
<1>13. b.fixed >= 1 /\ b.fixed <= f.fixed + 1 BY <1>5, <1>7
<1> DEFINE x == a.fixed z == b.fixed
<1>14. Counts(b, v)
  <2>1. /\ x <= n /\ \A j \in (n - x + 1)..n : IsFixed(s[j])
        /\ \A j \in (n - x + 2)..n : ~s[j].gap
    BY <1>1 DEF Tracks, Counts
  <2>2. x \in Nat /\ z \in Nat /\ z >= 1 /\ z <= x + 1 /\ z <= n + 1 /\ (r.gap => z = 1)
    BY <1>7, <1>10, <1>13, <2>1
  <2> HIDE DEF x, z
  <2>3. ASSUME NEW j \in (n + 1 - z + 1)..(n + 1)
        PROVE  IsFixed(v[j])
    <3>1. CASE j = n + 1 BY <1>3, <3>1
    <3>2. CASE j # n + 1
      <4>1. j \in 1..n /\ j \in (n - x + 1)..n BY <2>1, <2>2, <3>2
      <4> QED BY <1>3, <2>1, <4>1
    <3> QED BY <3>1, <3>2
  <2>4. ASSUME NEW j \in (n + 1 - z + 2)..(n + 1)
        PROVE  ~v[j].gap
    <3>1. ~r.gap BY <2>2
    <3>2. CASE j = n + 1 BY <1>3, <3>1, <3>2
    <3>3. CASE j # n + 1
      <4>1. j \in 1..n /\ j \in (n - x + 2)..n BY <2>1, <2>2, <3>3
      <4> QED BY <1>3, <2>1, <4>1
    <3> QED BY <3>2, <3>3
  <2>5. b.fixed = z /\ Len(v) = n + 1 /\ z <= n + 1 BY Zenon, <1>3, <2>2 DEF z
  <2>6. /\ (Len(v) - b.fixed + 1)..Len(v) = (n + 1 - z + 1)..(n + 1)
        /\ (Len(v) - b.fixed + 2)..Len(v) = (n + 1 - z + 2)..(n + 1)
    <3>1. PICK l \in Nat, w \in Nat : l = Len(v) /\ w = b.fixed BY <1>7
    <3>2. l = n + 1 /\ w = z BY Zenon, <2>5, <3>1
    <3>3. /\ (l - w + 1)..l = (n + 1 - z + 1)..(n + 1)
          /\ (l - w + 2)..l = (n + 1 - z + 2)..(n + 1)
      BY <2>2, <3>2
    <3> QED BY Zenon, <3>1, <3>3
  <2>7. \A j \in (Len(v) - b.fixed + 1)..Len(v) : IsFixed(v[j]) BY Zenon, <2>3, <2>6
  <2>8. \A j \in (Len(v) - b.fixed + 2)..Len(v) : ~v[j].gap BY Zenon, <2>4, <2>6
  <2> QED BY Zenon, <2>5, <2>7, <2>8 DEF Counts
<1>15. Holds(b, v)
  BY <1>3, <1>5, <1>8 DEF Holds
<1>16. \A k \in 1..b.fixed : RunOf(v, k, 1, n + 1) /\ RunOf(v, k, LastLossIn(v), n + 1)
  BY <1>3, <1>14, CountedAfterLoss
\* whether the adapter is still waiting for its first fix
<1>17. CASE f.tracking = "WAITING"
  <2>1. ~a.wasActive /\ a.tracking = "WAITING" /\ ~ \E i \in 1..n : RunOf(s, FixedConfirm, 1, i)
    BY <1>1, <1>9, <1>11, <1>17 DEF Tracks, EverActive
  <2>2. \A i \in 1..n : ~RunOf(v, FixedConfirm, 1, i) BY <1>3, <1>8, <2>1
  <2>3. b.fixed = f.fixed + 1 BY <1>5, <1>17
  <2>4. b.tracking = "WAITING" =>
          z < FixedConfirm /\ (z = n + 1 \/ ~IsFixed(v[n + 1 - z]) \/ v[n + 1 - z + 1].gap)
    <3> SUFFICES ASSUME b.tracking = "WAITING"
                 PROVE  z = n + 1 \/ ~IsFixed(v[n + 1 - z]) \/ v[n + 1 - z + 1].gap
      BY <1>5, <1>7, <1>8, <1>17, <2>3
    <3>1. CASE r.gap
      <4>1. n + 1 - z + 1 = n + 1 BY <1>10, <2>3, <3>1
      <4> QED BY <1>3, <3>1, <4>1
    <3>2. CASE ~r.gap
      <4>1. z = x + 1 /\ x \in Nat /\ x <= n
        BY <1>1, <1>7, <1>10, <2>3, <3>2 DEF Tracks, Counts
      <4>2. x = n \/ ~IsFixed(s[n - x]) \/ (x > 0 /\ s[n - x + 1].gap)
        BY <1>1, <2>1 DEF Tracks, Waits
      <4>3. n + 1 - z = n - x /\ n + 1 - z + 1 = n - x + 1 BY SMTT(30), <4>1
      <4> HIDE DEF x, z
      <4>4. CASE x = n BY <4>1, <4>4
      <4>5. CASE x # n /\ ~IsFixed(s[n - x])
        <5>1. v[n - x] = s[n - x] BY <1>3, <4>1, <4>5
        <5> QED BY <4>3, <4>5, <5>1
      <4>6. CASE x > 0 /\ s[n - x + 1].gap
        <5>1. v[n - x + 1] = s[n - x + 1] BY <1>3, <4>1, <4>6
        <5> QED BY <4>3, <4>6, <5>1
      <4> QED BY <4>2, <4>4, <4>5, <4>6
    <3> QED BY <1>9, <3>1, <3>2
  <2>5. b.tracking \in {"WAITING", "ACTIVE_FIXED"} BY <1>5, <1>17
  <2>6. RunOf(v, FixedConfirm, 1, n + 1) <=> b.tracking = "ACTIVE_FIXED"
    <3>1. CASE b.fixed >= FixedConfirm
      BY <1>5, <1>8, <1>16, <1>17, <2>3, <3>1
    <3>2. CASE b.fixed < FixedConfirm
      <4>1. b.tracking = "WAITING" BY <1>5, <1>7, <1>8, <1>17, <2>3, <3>2
      <4>2. z = n + 1 \/ ~IsFixed(v[n + 1 - z]) \/ v[n + 1 - z + 1].gap BY <2>4, <4>1
      <4>3. z \in Nat /\ z >= 1 /\ z <= n + 1 BY <1>3, <1>7, <1>13, <1>14 DEF Counts
      <4> HIDE DEF x, z
      <4>4. ASSUME RunOf(v, FixedConfirm, 1, n + 1) PROVE FALSE
        <5>1. PICK k \in Nat : k = FixedConfirm BY <1>8
        <5>2. /\ n + 1 - k + 1 >= 1
              /\ \A j \in (n + 1 - k + 1)..(n + 1) : IsFixed(v[j])
              /\ \A j \in (n + 1 - k + 2)..(n + 1) : ~v[j].gap
          BY <4>4, <5>1 DEF RunOf
        <5>3. z < k BY <3>2, <5>1 DEF z
        <5>4. n + 1 - z \in (n + 1 - k + 1)..(n + 1) /\ n + 1 - z + 1 \in (n + 1 - k + 2)..(n + 1)
          BY <4>3, <5>3
        <5>5. IsFixed(v[n + 1 - z]) BY <5>2, <5>4
        <5>6. ~v[n + 1 - z + 1].gap BY <5>2, <5>4
        <5>7. z # n + 1 BY <5>2, <5>3, <4>3
        <5> QED BY <4>2, <5>5, <5>6, <5>7
      <4> QED BY <4>1, <4>4
    <3> QED BY <1>7, <1>8, <3>1, <3>2
  <2>7. (\E i \in 1..n + 1 : RunOf(v, FixedConfirm, 1, i)) <=> b.tracking = "ACTIVE_FIXED"
    BY <2>2, <2>6
  <2>8. b.wasActive <=> b.tracking = "ACTIVE_FIXED"
    BY <1>6, <1>12, <1>17
  <2>9. EverActive(b, v)
    <3>1. b.tracking = "ACTIVE_FIXED" <=> b.tracking # "WAITING" BY <2>5
    <3>2. b.wasActive <=> \E i \in 1..Len(v) : RunOf(v, FixedConfirm, 1, i)
      BY <1>3, <2>7, <2>8
    <3> QED BY <2>8, <3>1, <3>2 DEF EverActive
  <2>10. Stands(b, v)
    <3>1. SUFFICES ASSUME b.tracking = "ACTIVE_FIXED" PROVE Earned(v)
      BY <2>5 DEF Stands
    <3>2. ~Activated(v)
      <4>1. PICK p \in Nat \ {0} : p = LastLossIn(v) BY LastLossIs
      <4>2. p - 1 <= n BY <1>3, <4>1, LastLossIs DEF Losses
      <4> QED BY <2>2, <4>1, <4>2 DEF Activated
    <3>3. b.fixed >= FixedConfirm BY <1>5, <1>17, <2>3, <3>1
    <3>4. RunOf(v, FixedConfirm, LastLossIn(v), n + 1) BY <1>7, <1>8, <1>16, <3>3
    <3>5. n + 1 \in 1..Len(v) BY <1>3
    <3> QED BY <3>2, <3>4, <3>5 DEF Earned, Needed
  <2>11. Waits(b, v)
    <3>1. z > 0 /\ z \in Nat /\ Len(v) = n + 1 BY <1>3, <1>7, <1>13
    <3> QED BY SMTT(30), <2>4, <3>1 DEF Waits
  <2> QED BY <1>2, <1>4, <1>14, <1>15, <2>9, <2>10, <2>11 DEF Tracks
<1>18. CASE f.tracking # "WAITING"
  <2>1. a.wasActive /\ a.tracking # "WAITING" /\ \E i \in 1..n : RunOf(s, FixedConfirm, 1, i)
    BY <1>1, <1>9, <1>11, <1>18 DEF Tracks, EverActive
  <2>2. \E i \in 1..n + 1 : RunOf(v, FixedConfirm, 1, i) BY <1>3, <1>8, <2>1
  <2>3. b.tracking \in {"ACTIVE_FIXED", "RECOVERING"} BY <1>5, <1>7, <1>18 DEF Tracking
  <2>4. Waits(b, v) BY <2>3 DEF Waits
  <2>5. EverActive(b, v)
    <3>1. b.wasActive BY <1>6, <1>12, <1>18
    <3> QED BY <1>3, <2>2, <2>3, <3>1 DEF EverActive
  <2>6. ASSUME f.tracking \in {"LOST", "RECOVERING"} PROVE Stands(b, v)
    <3>1. Activated(v)
      <4>1. CASE LossIn(v, n + 1) BY <1>1, <1>2, <2>1, <4>1, StandsOrLoses
      <4>2. CASE ~LossIn(v, n + 1)
        <5>1. ~r.gap BY <1>3, <4>2 DEF LossIn
        <5>2. Activated(s) BY <2>6, <5>1 DEF AfterGap, Tracks, Stands
        <5> QED BY <1>1, <1>2, <4>2, <5>2, StandsOrLoses
      <4> QED BY <4>1, <4>2
    <3>2. ASSUME b.tracking = "ACTIVE_FIXED" PROVE Earned(v)
      <4>1. b.fixed >= RecoveryConfirm BY <1>5, <2>6, <3>2
      <4>2. RunOf(v, RecoveryConfirm, LastLossIn(v), n + 1) BY <1>7, <1>8, <1>16, <4>1
      <4>3. n + 1 \in 1..Len(v) BY <1>3
      <4> QED BY <3>1, <4>2, <4>3 DEF Earned, Needed
    <3> QED BY <2>3, <3>1, <3>2 DEF Stands
  <2>7. ASSUME f.tracking = "ACTIVE_FIXED" PROVE Stands(b, v)
    <3>1. ~r.gap /\ a.tracking = "ACTIVE_FIXED" BY <1>9, <2>7 DEF AfterGap
    <3>2. Earned(s) BY <3>1 DEF Tracks, Stands
    <3>3. ~LossIn(v, n + 1) BY <1>3, <1>8, <3>1 DEF LossIn
    <3>4. Earned(v) BY <1>1, <1>2, <3>2, <3>3, StandsOrLoses
    <3>5. b.tracking = "ACTIVE_FIXED" BY <1>5, <2>7
    <3> QED BY <3>4, <3>5 DEF Stands
  <2>8. Stands(b, v)
    <3>1. f.tracking \in {"LOST", "RECOVERING", "ACTIVE_FIXED"} BY <1>7, <1>18 DEF Tracking
    <3> QED BY <2>6, <2>7, <3>1
  <2> QED BY <1>2, <1>4, <1>14, <1>15, <2>4, <2>5, <2>8 DEF Tracks
<1> QED BY <1>17, <1>18
\* A solution without a fix, counted.
LEMMA UnfixedKeepsTracks ==
  \A s \in Seq(SeenSet), a, f \in AdSet, r \in SeenSet :
    Tracks(a, s) /\ AfterGap(a, f, r.gap) /\ ~IsFixed(r) => Tracks(LoseFix(f), Append(s, r))
<1> SUFFICES ASSUME NEW s \in Seq(SeenSet), NEW a \in AdSet, NEW f \in AdSet, NEW r \in SeenSet,
                    Tracks(a, s), AfterGap(a, f, r.gap), ~IsFixed(r)
             PROVE  Tracks(LoseFix(f), Append(s, r))
  OBVIOUS
<1>1. PICK n \in Nat : n = Len(s) OBVIOUS
<1>2. PICK v \in Seq(SeenSet) : v = Append(s, r) BY AppendProperties
<1>3. /\ Len(v) = n + 1 /\ v[n + 1] = r /\ \A i \in 1..n : v[i] = s[i]
      /\ \A k, lo \in Nat \ {0} : \A i \in 1..n : RunOf(v, k, lo, i) <=> RunOf(s, k, lo, i)
  BY <1>1, <1>2, PastStays
<1>4. PICK b \in AdSet : b = LoseFix(f) BY LoseFixFields
<1>5. /\ b.fixed = 0 /\ b.lost = f.lost + 1 /\ b.wasActive = f.wasActive
      /\ b.tracking = IF f.tracking \in {"ACTIVE_FIXED", "RECOVERING"} /\ f.lost + 1 >= FixedLost
                      THEN "LOST" ELSE f.tracking
  BY <1>4, LoseFixFields
<1>6. /\ f.tracking \in Tracking /\ a.tracking \in Tracking /\ b.tracking \in Tracking
      /\ f.lost \in Nat /\ a.lost \in Nat
  BY DEF AdSet
<1>7. FixedConfirm \in Nat \ {0} /\ RecoveryConfirm \in Nat \ {0} /\ FixedLost \in Nat \ {0}
  BY GnssCountsAssumption
<1>8. r.gap \in BOOLEAN /\ a.wasActive \in BOOLEAN BY DEF SeenSet, AdSet
<1>9. a.wasActive <=> f.tracking # "WAITING"
  <2>1. CASE r.gap BY <2>1 DEF AfterGap
  <2>2. CASE ~r.gap BY <2>2 DEF AfterGap, Tracks, EverActive
  <2> QED BY <1>8, <2>1, <2>2
<1>10. b.wasActive <=> a.wasActive BY <1>5, Zenon DEF AfterGap
<1>11. b.tracking # "WAITING" <=> f.tracking # "WAITING" BY <1>5
<1>12. Counts(b, v)
  <2>1. /\ 0 <= Len(v) /\ (Len(v) - 0 + 1)..Len(v) = {} /\ (Len(v) - 0 + 2)..Len(v) = {}
    BY <1>3
  <2> QED BY <1>5, <2>1 DEF Counts
<1>13. Waits(b, v)
  <2>1. ~IsFixed(v[Len(v) - 0]) BY <1>3
  <2>2. 0 < FixedConfirm BY <1>7
  <2> QED BY <1>5, <2>1, <2>2 DEF Waits
<1>14. EverActive(b, v)
  <2>1. ~RunOf(v, FixedConfirm, 1, n + 1)
    <3> SUFFICES ASSUME RunOf(v, FixedConfirm, 1, n + 1) PROVE FALSE OBVIOUS
    <3>1. PICK k \in Nat \ {0} : k = FixedConfirm BY <1>7
    <3>2. \A j \in (n + 1 - k + 1)..(n + 1) : IsFixed(v[j]) BY <3>1 DEF RunOf
    <3>3. n + 1 \in (n + 1 - k + 1)..(n + 1) OBVIOUS
    <3>4. IsFixed(v[n + 1]) BY <3>2, <3>3
    <3> QED BY <1>3, <3>4
  <2>2. \A i \in 1..n : RunOf(v, FixedConfirm, 1, i) <=> RunOf(s, FixedConfirm, 1, i)
    BY <1>3, <1>7
  <2>3. (\E i \in 1..n + 1 : RunOf(v, FixedConfirm, 1, i))
        <=> \E i \in 1..n : RunOf(s, FixedConfirm, 1, i)
    BY <2>1, <2>2
  <2>4. a.wasActive <=> \E i \in 1..n : RunOf(s, FixedConfirm, 1, i)
    BY <1>1 DEF Tracks, EverActive
  <2>5. b.wasActive <=> \E i \in 1..Len(v) : RunOf(v, FixedConfirm, 1, i)
    BY <1>3, <1>10, <2>3, <2>4
  <2>6. b.wasActive <=> b.tracking # "WAITING" BY <1>9, <1>10, <1>11
  <2> QED BY <2>5, <2>6 DEF EverActive
<1>15. ASSUME b.tracking \in {"ACTIVE_FIXED", "RECOVERING"}
       PROVE  /\ ~r.gap /\ a.tracking = b.tracking /\ a.lost = f.lost
              /\ a.lost + 1 < FixedLost /\ a.lost < n
              /\ IsFixed(s[n - a.lost]) /\ \A j \in (n - a.lost + 1)..n : ~IsFixed(s[j])
  <2>1. f.tracking = b.tracking /\ f.lost + 1 < FixedLost BY <1>5, <1>6, <1>7, <1>15
  <2>2. ~r.gap
    <3>1. SUFFICES ASSUME r.gap PROVE FALSE OBVIOUS
    <3>2. f.tracking \in {"LOST", "WAITING"} BY <1>8, <3>1 DEF AfterGap
    <3> QED BY <1>15, <2>1, <3>2
  <2>3. a.tracking = b.tracking /\ a.lost = f.lost BY <2>1, <2>2 DEF AfterGap
  <2>4. Holds(a, s) BY DEF Tracks
  <2>5. /\ a.lost < n /\ IsFixed(s[n - a.lost]) /\ \A j \in (n - a.lost + 1)..n : ~IsFixed(s[j])
    BY <1>1, <1>15, <2>3, <2>4 DEF Holds
  <2> QED BY <2>1, <2>2, <2>3, <2>5
<1>16. Holds(b, v)
  <2> SUFFICES ASSUME b.tracking \in {"ACTIVE_FIXED", "RECOVERING"}
               PROVE  /\ b.lost < FixedLost /\ b.lost < Len(v)
                      /\ IsFixed(v[Len(v) - b.lost])
                      /\ \A j \in (Len(v) - b.lost + 1)..Len(v) : ~IsFixed(v[j])
    BY DEF Holds
  <2>1. PICK l \in Nat : l = a.lost BY <1>6
  <2>2. b.lost = l + 1 /\ l + 1 < FixedLost /\ l < n /\ IsFixed(s[n - l])
        /\ \A j \in (n - l + 1)..n : ~IsFixed(s[j])
    BY <1>5, <1>15, <2>1
  <2>3. l < n BY <2>2
  <2>4. v[n - l] = s[n - l] BY <1>3, <2>3
  <2>5. ASSUME NEW j \in (n - l + 1)..(n + 1) PROVE ~IsFixed(v[j])
    <3>1. CASE j = n + 1 BY <1>3, <3>1
    <3>2. CASE j # n + 1
      <4>1. j \in 1..n /\ j \in (n - l + 1)..n BY <2>3, <3>2
      <4> QED BY <1>3, <2>2, <4>1
    <3> QED BY <3>1, <3>2
  <2>6. /\ Len(v) - b.lost = n - l /\ Len(v) = n + 1 /\ Len(v) - b.lost + 1 = n - l + 1
        /\ b.lost < FixedLost /\ b.lost < n + 1
    BY <1>3, <2>2, <2>3
  <2> QED BY <2>2, <2>4, <2>5, <2>6
<1>17. Stands(b, v)
  <2>1. ASSUME b.tracking \in {"ACTIVE_FIXED", "RECOVERING"}
        PROVE  ~LossIn(v, n + 1)
    <3>1. PICK l \in Nat : l = a.lost BY <1>6
    <3>2. l + 1 < FixedLost /\ l < n /\ IsFixed(s[n - l]) /\ ~r.gap BY <1>15, <2>1, <3>1
    <3>3. PICK k \in Nat : k = FixedLost BY <1>7
    <3>4. v[n - l] = s[n - l] BY <1>3, <3>2
    <3>5. n + 1 >= k => n - l \in (n + 1 - k + 1)..(n + 1) BY <3>2, <3>3
    <3> QED BY <1>3, <3>2, <3>3, <3>4, <3>5 DEF LossIn
  <2>2. ASSUME b.tracking = "ACTIVE_FIXED" PROVE Earned(v)
    <3>1. a.tracking = "ACTIVE_FIXED" BY <1>15, <2>2
    <3>2. Earned(s) BY <3>1 DEF Tracks, Stands
    <3> QED BY <1>1, <1>2, <2>1, <2>2, <3>2, StandsOrLoses
  <2>3. ASSUME b.tracking = "RECOVERING" PROVE Activated(v)
    <3>1. a.tracking = "RECOVERING" BY <1>15, <2>3
    <3>2. Activated(s) BY <3>1 DEF Tracks, Stands
    <3> QED BY <1>1, <1>2, <2>1, <2>3, <3>2, StandsOrLoses
  <2>4. ASSUME b.tracking = "LOST" PROVE Activated(v)
    <3>1. \E i \in 1..n : RunOf(s, FixedConfirm, 1, i)
      BY <1>1, <1>9, <1>11, <2>4 DEF Tracks, EverActive
    <3>2. CASE LossIn(v, n + 1) BY <1>1, <1>2, <3>1, <3>2, StandsOrLoses
    <3>3. CASE ~LossIn(v, n + 1)
      <4>1. ~r.gap BY <1>3, <3>3 DEF LossIn
      <4>2. a.tracking = f.tracking /\ a.lost = f.lost BY <4>1 DEF AfterGap
      <4>3. CASE a.tracking \in {"LOST", "RECOVERING"}
        <5>1. Activated(s) BY <4>3 DEF Tracks, Stands
        <5> QED BY <1>1, <1>2, <3>3, <5>1, StandsOrLoses
      <4>4. CASE a.tracking = "ACTIVE_FIXED"
        <5>1. PICK l \in Nat : l = a.lost BY <1>6
        <5>2. l + 1 = FixedLost /\ l < n /\ \A j \in (n - l + 1)..n : ~IsFixed(s[j])
          <6>1. l < FixedLost /\ l < n /\ \A j \in (n - l + 1)..n : ~IsFixed(s[j])
            BY <1>1, <4>4, <5>1 DEF Tracks, Holds
          <6>2. l + 1 >= FixedLost BY <1>5, <2>4, <4>2, <4>4, <5>1
          <6> QED BY <1>7, <6>1, <6>2
        <5>3. ASSUME NEW j \in (n + 1 - FixedLost + 1)..(n + 1) PROVE ~IsFixed(v[j])
          <6>1. CASE j = n + 1 BY <1>3, <6>1
          <6>2. CASE j # n + 1
            <7>1. j \in 1..n /\ j \in (n - l + 1)..n BY <1>7, <5>2, <6>2
            <7> QED BY <1>3, <5>2, <7>1
          <6> QED BY <6>1, <6>2
        <5>4. LossIn(v, n + 1) BY <5>2, <5>3 DEF LossIn
        <5> QED BY <3>3, <5>4
      <4>5. CASE a.tracking = "WAITING" BY <1>9, <1>11, <2>4, <4>2, <4>5
      <4> QED BY <1>6, <4>3, <4>4, <4>5 DEF Tracking
    <3> QED BY <3>2, <3>3
  <2> QED BY <2>2, <2>3, <2>4 DEF Stands
<1> QED BY <1>2, <1>4, <1>12, <1>13, <1>14, <1>16, <1>17 DEF Tracks
-----------------------------------------------------------------------------
(* The adapter's record between its steps.                                   *)

Series(s) ==
  \A i \in 1..(Len(s) - 1) :
    /\ s[i].src = s[i + 1].src /\ s[i].stamp < s[i + 1].stamp
    /\ s[i + 1].stamp - s[i].stamp <= OriginMaxGap

\* The average being collected is a series, and its last sample is the one the
\* next is compared with.
Average(a) ==
  /\ cfg.originMode = "manual" => a.origin # <<>>
  /\ cfg.originMode = "average_fixed" =>
       /\ a.origin \in Seq(SampleSet) /\ Series(a.origin) /\ Series(a.samples)
       /\ a.cand = NoTime <=> a.samples = <<>>
       /\ a.origin # <<>> => a.samples = <<>>
       /\ a.samples # <<>> =>
            /\ a.samples[Len(a.samples)] = [stamp |-> a.cand, src |-> a.src]
            /\ cfg.input = "stamped" => a.src # NoSource

\* The clock of the adapter is not behind what it has fused, and its reset comes
\* before anything is fused.
NotBehind(a) ==
  /\ cfg.monotonic /\ cfg.local =>
       \A i \in 1..Len(fused) : a.last # NoTime /\ fused[i].stamp <= a.last
  /\ cfg.input # "pose" /\ cfg.local /\ a.origin = <<>> => fused = <<>>

SinceReset(a) == IF a.last = NoTime THEN <<>> ELSE seen

Sound(a) ==
  /\ a \in AdSet
  /\ cfg.input # "stamped" => a.src = NoSource
  /\ cfg.input # "pose" => Tracks(a, SinceReset(a))
  /\ Average(a) /\ NotBehind(a)

Ordered == cfg.monotonic /\ cfg.local => \A i \in 1..(Len(fused) - 1) : fused[i].stamp < fused[i + 1].stamp

Types ==
  /\ cfg \in Configs /\ fault \in Faults /\ clock \in Nat
  /\ seen \in Seq(SeenSet) /\ fused \in Seq(SeenSet)
  /\ cfg.input = "pose" => seen = <<>>
  /\ cfg.input # "legacy" => fault.mode = "passthrough"

GnssInv == Types /\ Sound(ad) /\ Confirmed(seen) /\ Ordered /\ FaultNotFused

Cleared(a) ==
  /\ a.samples = <<>> /\ a.cand = NoTime /\ a.tracking = "WAITING" /\ ~a.wasActive
  /\ a.fixed = 0 /\ a.lost = 0 /\ a.last = NoTime

\* A reset adapter has seen nothing.
LEMMA ClearedTracks == \A a \in AdSet : Cleared(a) => Tracks(a, <<>>)
<1> TAKE a \in AdSet
<1> HAVE Cleared(a)
<1>1. Len(<<>>) = 0 /\ \A i \in 1..0 : FALSE OBVIOUS
<1>2. Counts(a, <<>>) BY <1>1 DEF Counts, Cleared
<1>3. Waits(a, <<>>)
  <2>1. FixedConfirm > 0 BY GnssCountsAssumption
  <2> QED BY <1>1, <2>1 DEF Waits, Cleared
<1>4. Holds(a, <<>>) /\ Stands(a, <<>>) BY DEF Holds, Stands, Cleared
<1>5. EverActive(a, <<>>)
  <2>1. ~ \E i \in 1..Len(<<>>) : RunOf(<<>>, FixedConfirm, 1, i) BY <1>1
  <2> QED BY <2>1 DEF EverActive, Cleared
<1> QED BY <1>2, <1>3, <1>4, <1>5 DEF Tracks

\* Tracks looks at the counters alone.
LEMMA SameTracks ==
  \A a, b \in AdSet, s \in Seq(SeenSet) :
    /\ b.tracking = a.tracking /\ b.wasActive = a.wasActive /\ b.fixed = a.fixed
    /\ b.lost = a.lost /\ Tracks(a, s)
    => Tracks(b, s)
BY DEF Tracks, Counts, Waits, Holds, EverActive, Stands

LEMMA RestartFields ==
  \A a \in AdSet : Restart(a) \in AdSet /\ Cleared(Restart(a))
                   /\ Restart(a).src = a.src /\ Restart(a).origin = a.origin
<1> TAKE a \in AdSet
<1>1. <<>> \in Seq(SampleSet) /\ NoTime \in Time /\ "WAITING" \in Tracking BY DEF Time, Tracking
<1> QED BY <1>1 DEF Restart, AdSet, Cleared

\* While nothing can have been fused, a reset is sound.
LEMMA RestartSound ==
  ASSUME NEW a \in AdSet, Sound(a), AveragePending(a), cfg \in Configs, cfg.input # "pose",
         fused \in Seq(SeenSet)
  PROVE  Sound(Restart(a))
<1>1. PICK b \in AdSet : b = Restart(a) BY RestartFields
<1>2. Cleared(b) /\ b.src = a.src /\ b.origin = a.origin BY <1>1, RestartFields
<1>3. b.origin = <<>> BY <1>2 DEF AveragePending, OriginReady
<1>4. Tracks(b, SinceReset(b)) BY <1>2, ClearedTracks DEF Cleared, SinceReset
<1>5. Average(b)
  <2>1. Series(<<>>) BY DEF Series
  <2> QED BY <1>2, <1>3, <2>1 DEF Average, Cleared, Sound
<1>6. cfg.local => fused = <<>> BY <1>2, <1>3 DEF Sound, NotBehind
<1>7. NotBehind(b) BY <1>6 DEF NotBehind
<1> QED BY <1>1, <1>2, <1>4, <1>5, <1>7 DEF Sound

\* SOURCE_EPOCH_CHANGED
LEMMA FollowSourceSound ==
  ASSUME NEW a \in AdSet, Sound(a), NEW m \in MsgSet, cfg \in Configs, cfg.input # "pose",
         fused \in Seq(SeenSet), cfg.input = "stamped" <=> m.src # NoSource
  PROVE  Sound(FollowSource(a, m)) /\ FollowSource(a, m).src = m.src
<1>1. CASE cfg.input # "stamped" BY <1>1 DEF FollowSource, Sound
<1>2. CASE cfg.input = "stamped"
  <2>1. PICK b \in AdSet :
          /\ b = IF a.src # NoSource /\ a.src # m.src /\ AveragePending(a) THEN Restart(a) ELSE a
          /\ Sound(b)
    BY RestartFields, RestartSound
  <2>2. m.src \in Source /\ m.src # NoSource BY <1>2 DEF MsgSet
  <2>3. PICK c \in AdSet : c = [b EXCEPT !.src = m.src]
    <3>1. [b EXCEPT !.src = m.src] \in AdSet BY <2>2 DEF AdSet
    <3> QED BY <3>1
  <2>4. FollowSource(a, m) = c BY <1>2, <2>1, <2>3 DEF FollowSource
  <2>5. /\ c.src = m.src /\ c.tracking = b.tracking /\ c.wasActive = b.wasActive
        /\ c.fixed = b.fixed /\ c.lost = b.lost /\ c.last = b.last /\ c.origin = b.origin
        /\ c.samples = b.samples /\ c.cand = b.cand
    BY <2>3 DEF AdSet
  <2>6. Tracks(c, SinceReset(c))
    <3>1. PICK s : s = SinceReset(b) OBVIOUS
    <3>2. SinceReset(c) = s BY <2>5, <3>1 DEF SinceReset
    <3>3. Tracks(b, s) BY <1>2, <2>1, <3>1 DEF Sound
    <3> QED BY <2>5, <3>2, <3>3 DEF Tracks, Counts, Waits, Holds, EverActive, Stands
  <2>7. Average(c)
    <3> SUFFICES ASSUME cfg.originMode = "average_fixed", b.samples # <<>> PROVE b.src = m.src
      BY <2>1, <2>2, <2>5 DEF Sound, Average
    <3>1. b.origin = <<>> BY <2>1 DEF Sound, Average
    <3>2. AveragePending(b) BY <3>1 DEF AveragePending, OriginReady
    <3>3. b.src # NoSource BY <1>2, <2>1 DEF Sound, Average
    <3>4. CASE b = a BY <2>1, <3>2, <3>3, <3>4, RestartFields DEF Cleared
    <3>5. CASE b # a BY <2>1, <3>5, RestartFields DEF Cleared
    <3> QED BY <3>4, <3>5
  <2>8. NotBehind(c) BY <2>1, <2>5 DEF Sound, NotBehind
  <2> QED BY <1>2, <2>4, <2>5, <2>6, <2>7, <2>8 DEF Sound
<1> QED BY <1>1, <1>2

\* TIME_REGRESSION
LEMMA FollowRegressionSound ==
  ASSUME NEW a \in AdSet, Sound(a), NEW m \in MsgSet, cfg \in Configs, cfg.input # "pose",
         fused \in Seq(SeenSet)
  PROVE  LET b == FollowRegression(a, m) IN
         /\ b \in AdSet /\ Sound(b) /\ b.src = a.src
         /\ AveragePending(b) /\ b.cand # NoTime => b.cand <= m.stamp
<1>1. Restart(a) \in AdSet /\ Restart(a).src = a.src /\ Restart(a).cand = NoTime
  BY RestartFields DEF Cleared
<1>2. a.cand \in Time /\ m.stamp \in Nat BY DEF AdSet, MsgSet
<1> QED BY <1>1, <1>2, RestartSound DEF FollowRegression, Time
-----------------------------------------------------------------------------
(* One message.                                                              *)

LEMMA FollowTimeFields ==
  ASSUME NEW a \in AdSet, NEW m \in MsgSet
  PROVE  LET f == FollowTime(a, m) IN
         /\ f \in AdSet /\ f.last = m.stamp /\ AfterGap(a, f, TimeGap(a, m))
         /\ f.src = a.src /\ f.origin = a.origin /\ f.samples = a.samples /\ f.cand = a.cand
<1>1. m.stamp \in Nat /\ m.stamp \in Time BY DEF MsgSet, Time
<1>2. PICK g \in AdSet :
        g = [a EXCEPT !.tracking = IF a.wasActive THEN "LOST" ELSE "WAITING",
                      !.fixed = 0, !.lost = 0]
  <2>1. (IF a.wasActive THEN "LOST" ELSE "WAITING") \in Tracking BY DEF Tracking
  <2>2. [a EXCEPT !.tracking = IF a.wasActive THEN "LOST" ELSE "WAITING",
                  !.fixed = 0, !.lost = 0] \in AdSet
    BY <2>1 DEF AdSet
  <2> QED BY <2>2
<1>3. /\ g.tracking = (IF a.wasActive THEN "LOST" ELSE "WAITING") /\ g.fixed = 0 /\ g.lost = 0
      /\ g.wasActive = a.wasActive /\ g.src = a.src /\ g.origin = a.origin
      /\ g.samples = a.samples /\ g.cand = a.cand
  BY <1>2 DEF AdSet
<1>4. PICK h \in AdSet : h = IF TimeGap(a, m) THEN g ELSE a OBVIOUS
<1>5. PICK f \in AdSet : f = [h EXCEPT !.last = m.stamp]
  <2>1. [h EXCEPT !.last = m.stamp] \in AdSet BY <1>1 DEF AdSet
  <2> QED BY <2>1
<1>6. FollowTime(a, m) = f BY <1>2, <1>4, <1>5 DEF FollowTime
<1>7. /\ f.last = m.stamp /\ f.tracking = h.tracking /\ f.fixed = h.fixed /\ f.lost = h.lost
      /\ f.wasActive = h.wasActive /\ f.src = h.src /\ f.origin = h.origin
      /\ f.samples = h.samples /\ f.cand = h.cand
  BY <1>5 DEF AdSet
<1>8. CASE TimeGap(a, m) BY <1>3, <1>4, <1>6, <1>7, <1>8 DEF AfterGap
<1>9. CASE ~TimeGap(a, m) BY <1>4, <1>6, <1>7, <1>9 DEF AfterGap
<1> QED BY <1>8, <1>9

LEMMA SampleType == ASSUME NEW m \in MsgSet
                    PROVE  Sample(m) \in SampleSet /\ Sample(m).stamp = m.stamp /\ Sample(m).src = m.src
  BY DEF Sample, SampleSet, MsgSet

\* A series and a sample that follows its last one.
LEMMA SeriesGrows ==
  ASSUME NEW s \in Seq(SampleSet), NEW x \in SampleSet, Series(s),
         s # <<>> => /\ s[Len(s)].src = x.src /\ s[Len(s)].stamp < x.stamp
                     /\ x.stamp - s[Len(s)].stamp <= OriginMaxGap
  PROVE  Series(Append(s, x))
<1>1. PICK n \in Nat : n = Len(s) OBVIOUS
<1>2. PICK v \in Seq(SampleSet) : v = Append(s, x) BY AppendProperties
<1>3. Len(v) = n + 1 /\ v[n + 1] = x /\ \A i \in 1..n : v[i] = s[i]
  BY <1>1, <1>2, AppendProperties
<1>4. SUFFICES ASSUME NEW i \in 1..n
               PROVE  /\ v[i].src = v[i + 1].src /\ v[i].stamp < v[i + 1].stamp
                      /\ v[i + 1].stamp - v[i].stamp <= OriginMaxGap
  <2>1. Len(v) - 1 = n BY <1>3
  <2> QED BY <1>2, <2>1 DEF Series
<1>5. CASE i = n
  <2>1. s # <<>> BY <1>1, <1>5
  <2>2. v[i] = s[Len(s)] /\ v[i + 1] = x BY <1>1, <1>3, <1>5
  <2> QED BY <2>1, <2>2
<1>6. CASE i # n
  <2>1. v[i] = s[i] /\ v[i + 1] = s[i + 1] /\ i \in 1..(Len(s) - 1) BY <1>1, <1>3, <1>6
  <2> QED BY <2>1 DEF Series
<1> QED BY <1>5, <1>6

\* updateOrigin
LEMMA UpdateOriginFields ==
  ASSUME NEW b \in AdSet, NEW m \in MsgSet, cfg \in Configs, Average(b), b.src = m.src,
         cfg.input = "stamped" <=> m.src # NoSource, m.stamp # 0,
         AveragePending(b) /\ b.cand # NoTime => b.cand <= m.stamp
  PROVE  LET c == UpdateOrigin(b, m) IN
         /\ c \in AdSet /\ Average(c)
         /\ c.tracking = b.tracking /\ c.wasActive = b.wasActive /\ c.fixed = b.fixed
         /\ c.lost = b.lost /\ c.last = b.last /\ c.src = b.src
         /\ b.origin # <<>> => c.origin = b.origin
<1> DEFINE Whole(c) ==
      /\ c \in AdSet /\ Average(c)
      /\ c.tracking = b.tracking /\ c.wasActive = b.wasActive /\ c.fixed = b.fixed
      /\ c.lost = b.lost /\ c.last = b.last /\ c.src = b.src
      /\ b.origin # <<>> => c.origin = b.origin
<1>1. Whole(b) OBVIOUS
<1>2. m.stamp \in Nat /\ m.stamp \in Time /\ NoTime \in Time BY DEF MsgSet, Time
<1>3. PICK x \in SampleSet : x = Sample(m) /\ x.stamp = m.stamp /\ x.src = m.src BY SampleType
<1>4. ASSUME b.origin = <<>>, cfg.originMode = "first_fixed"
      PROVE  Whole([b EXCEPT !.origin = <<x>>])
  <2>1. <<x>> \in OriginSet BY DEF OriginSet
  <2>2. PICK c \in AdSet : c = [b EXCEPT !.origin = <<x>>]
    <3>1. [b EXCEPT !.origin = <<x>>] \in AdSet BY <2>1 DEF AdSet
    <3> QED BY <3>1
  <2>3. /\ c.tracking = b.tracking /\ c.wasActive = b.wasActive /\ c.fixed = b.fixed
        /\ c.lost = b.lost /\ c.last = b.last /\ c.src = b.src
    BY <2>2 DEF AdSet
  <2>4. Average(c) BY <1>4 DEF Average
  <2> QED BY <1>4, <2>2, <2>3, <2>4
<1>5. ASSUME b.origin = <<>>, cfg.originMode = "average_fixed"
      PROVE  Whole(AverageOrigin(b, m))
  <2>1. AveragePending(b) BY <1>5 DEF AveragePending, OriginReady
  <2>2. b.samples \in Seq(SampleSet) /\ b.cand \in Time BY DEF AdSet
  <2>3. CASE b.cand # NoTime /\ m.stamp - b.cand = 0 BY <1>1, <2>3 DEF AverageOrigin
  <2>4. CASE b.cand = NoTime \/ m.stamp - b.cand # 0
    <3> DEFINE gap == m.stamp - b.cand
               over == b.cand # NoTime /\ (gap < 0 \/ gap > OriginMaxGap)
    <3>1. PICK old \in Seq(SampleSet) : old = IF over THEN <<>> ELSE b.samples
      <4>1. <<>> \in Seq(SampleSet) OBVIOUS
      <4> QED BY <2>2, <4>1
    <3>2. Series(old) BY <1>5, <3>1 DEF Average, Series
    <3>3. old # <<>> => /\ old[Len(old)].src = x.src /\ old[Len(old)].stamp < x.stamp
                        /\ x.stamp - old[Len(old)].stamp <= OriginMaxGap
      <4> SUFFICES ASSUME old # <<>>
                   PROVE  /\ old[Len(old)].src = x.src /\ old[Len(old)].stamp < x.stamp
                          /\ x.stamp - old[Len(old)].stamp <= OriginMaxGap
        OBVIOUS
      <4>1. old = b.samples /\ ~over BY <3>1
      <4>2. old[Len(old)] = [stamp |-> b.cand, src |-> b.src] /\ b.cand # NoTime
        BY <1>5, <4>1 DEF Average
      <4>3. b.cand \in Nat /\ b.cand <= m.stamp /\ b.cand # m.stamp
        BY <1>2, <2>1, <2>2, <2>4, <4>2 DEF Time
      <4>4. m.stamp - b.cand <= OriginMaxGap
        <5>1. OriginMaxGap \in Nat BY GnssCountsAssumption
        <5> QED BY <1>2, <4>1, <4>2, <4>3, <5>1
      <4> QED BY <1>2, <1>3, <4>2, <4>3, <4>4
    <3>4. PICK acc \in Seq(SampleSet) :
            acc = Append(old, x) /\ Series(acc) /\ acc # <<>> /\ acc[Len(acc)] = x
      <4> HIDE DEF over, gap
      <4>1. Series(Append(old, x)) BY <3>2, <3>3, SeriesGrows
      <4>2. PICK acc \in Seq(SampleSet) : acc = Append(old, x) BY AppendProperties
      <4>3. Len(acc) = Len(old) + 1 /\ acc # <<>> /\ acc[Len(old) + 1] = x
        BY <4>2, AppendProperties
      <4> QED BY <4>1, <4>2, <4>3
    <3>5. AverageOrigin(b, m) = IF Len(acc) < AverageCount
                                THEN [b EXCEPT !.samples = acc, !.cand = m.stamp]
                                ELSE [b EXCEPT !.origin = acc, !.samples = <<>>, !.cand = NoTime]
      BY <1>3, <2>4, <3>1, <3>4 DEF AverageOrigin
    <3>6. Whole([b EXCEPT !.samples = acc, !.cand = m.stamp])
      <4>1. PICK c \in AdSet : c = [b EXCEPT !.samples = acc, !.cand = m.stamp]
        <5>1. [b EXCEPT !.samples = acc, !.cand = m.stamp] \in AdSet BY <1>2 DEF AdSet
        <5> QED BY <5>1
      <4>2. /\ c.tracking = b.tracking /\ c.wasActive = b.wasActive /\ c.fixed = b.fixed
            /\ c.lost = b.lost /\ c.last = b.last /\ c.src = b.src /\ c.origin = b.origin
            /\ c.samples = acc /\ c.cand = m.stamp
        BY <4>1 DEF AdSet
      <4>3. c.cand # NoTime BY <1>2, <4>2 DEF NoTime
      <4>4. x = [stamp |-> c.cand, src |-> c.src] BY <1>3, <4>2 DEF SampleSet
      <4>5. Average(c) BY <1>5, <3>4, <4>2, <4>3, <4>4 DEF Average
      <4> QED BY <4>1, <4>2, <4>5
    <3>7. Whole([b EXCEPT !.origin = acc, !.samples = <<>>, !.cand = NoTime])
      <4>1. acc \in OriginSet /\ <<>> \in Seq(SampleSet) BY DEF OriginSet
      <4>2. PICK c \in AdSet : c = [b EXCEPT !.origin = acc, !.samples = <<>>, !.cand = NoTime]
        <5>1. [b EXCEPT !.origin = acc, !.samples = <<>>, !.cand = NoTime] \in AdSet
          BY <1>2, <4>1 DEF AdSet
        <5> QED BY <5>1
      <4>3. /\ c.tracking = b.tracking /\ c.wasActive = b.wasActive /\ c.fixed = b.fixed
            /\ c.lost = b.lost /\ c.last = b.last /\ c.src = b.src /\ c.origin = acc
            /\ c.samples = <<>> /\ c.cand = NoTime
        BY <4>2 DEF AdSet
      <4>4. Series(<<>>) BY DEF Series
      <4>5. Average(c) BY <3>4, <4>3, <4>4 DEF Average
      <4> QED BY <1>5, <4>2, <4>3, <4>5
    <3> HIDE DEF Whole
    <3> QED BY <3>5, <3>6, <3>7
  <2> QED BY <2>3, <2>4
<1>6. cfg.originMode \in {"manual", "first_fixed", "average_fixed"} BY GnssConfigsAssumption
<1>7. Whole(UpdateOrigin(b, m))
  <2> HIDE DEF Whole
  <2>1. CASE OriginReady(b) \/ StateQuality(b) # "RTK_FIXED" BY <1>1, <2>1 DEF UpdateOrigin
  <2>2. CASE ~OriginReady(b) /\ StateQuality(b) = "RTK_FIXED"
    <3>1. b.origin = <<>> BY <2>2 DEF OriginReady
    <3>2. CASE cfg.originMode = "first_fixed" BY <1>3, <1>4, <2>2, <3>1, <3>2 DEF UpdateOrigin
    <3>3. CASE cfg.originMode = "average_fixed" BY <1>5, <2>2, <3>1, <3>3 DEF UpdateOrigin
    <3>4. cfg.originMode # "manual" BY <3>1 DEF Average
    <3> QED BY <1>6, <3>2, <3>3, <3>4
  <2> QED BY <2>1, <2>2
<1> QED BY <1>7
LEMMA ClassifyType ==
  ASSUME NEW m \in MsgSet
  PROVE  /\ Classify(m) \in Qualities
         /\ ~m.valid => Classify(m) = "INVALID"
         /\ m.carr = 1 => Classify(m) # "RTK_FIXED"
<1>1. m.valid \in BOOLEAN /\ m.diff \in BOOLEAN /\ m.carr \in Nat BY DEF MsgSet
<1> DEFINE usable == m.valid /\ m.fixType = 3 /\ m.carr <= 2
<1>2. CASE ~usable BY <1>1, <1>2 DEF Classify, Qualities
<1>3. CASE usable /\ ~m.diff BY <1>1, <1>3 DEF Classify, Qualities
<1>4. CASE usable /\ m.diff /\ m.carr = 2 BY <1>1, <1>4 DEF Classify, Qualities
<1>5. CASE usable /\ m.diff /\ m.carr = 1 BY <1>1, <1>5 DEF Classify, Qualities
<1>6. CASE usable /\ m.diff /\ m.carr # 1 /\ m.carr # 2 BY <1>1, <1>6 DEF Classify, Qualities
<1> QED BY <1>1, <1>2, <1>3, <1>4, <1>5, <1>6

\* What acceptance asks for, at least.
LEMMA AcceptsOnly ==
  ASSUME NEW c \in AdSet, NEW m \in MsgSet, NEW gap \in BOOLEAN, Accepts(c, m, gap)
  PROVE  /\ Classify(m) # "INVALID"
         /\ Classify(m) = "RTK_FIXED" => c.tracking = "ACTIVE_FIXED"
         /\ cfg.local => c.origin # <<>>
<1>1. cfg.local => c.origin # <<>> BY DEF Accepts, OriginReady
<1>2. CASE Classify(m) = "RTK_FIXED"
  <2>1. StateQuality(c) = "RTK_FIXED" BY <1>2 DEF Accepts
  <2>2. c.tracking = "ACTIVE_FIXED" BY <2>1 DEF StateQuality
  <2> QED BY <1>1, <1>2, <2>2
<1>3. CASE Classify(m) # "RTK_FIXED" BY <1>1, <1>3 DEF Accepts
<1> QED BY <1>2, <1>3

\* What the injector lets through, or leaves of it.
Quiet(m) ==
  LET in == fault.start <= m.stamp /\ m.stamp < fault.end IN
  /\ fault.mode = "drop" => ~in
  /\ fault.mode = "invalid" /\ in => ~m.valid
  /\ fault.mode = "float" /\ in => m.carr = 1

\* A sample that may be fused next.
Follows(x) ==
  LET in == fault.start <= x.stamp /\ x.stamp < fault.end IN
  /\ cfg.monotonic /\ cfg.local => \A i \in 1..Len(fused) : fused[i].stamp < x.stamp
  /\ fault.mode \in {"drop", "invalid"} => ~in
  /\ fault.mode = "float" /\ in => ~IsFixed(x)

LEMMA StampsOf == \A s \in Seq(SeenSet) : \A i \in 1..Len(s) : s[i].stamp \in Nat
<1> TAKE s \in Seq(SeenSet)
<1> TAKE i \in 1..Len(s)
<1>1. s[i] \in SeenSet OBVIOUS
<1> QED BY <1>1 DEF SeenSet

LEMMA FusedGrows ==
  ASSUME GnssInv, NEW x \in SeenSet, Follows(x), fused' = Append(fused, x),
         cfg' = cfg, fault' = fault
  PROVE  fused' \in Seq(SeenSet) /\ Ordered' /\ FaultNotFused'
         /\ Len(fused') = Len(fused) + 1 /\ fused'[Len(fused) + 1] = x
         /\ \A i \in 1..Len(fused) : fused'[i] = fused[i]
<1>1. PICK n \in Nat : n = Len(fused) BY DEF GnssInv, Types
<1>2. PICK v \in Seq(SeenSet) : v = fused' /\ Len(v) = n + 1 /\ v[n + 1] = x
                                /\ \A i \in 1..n : v[i] = fused[i]
  <2>1. fused \in Seq(SeenSet) BY DEF GnssInv, Types
  <2>2. /\ Append(fused, x) \in Seq(SeenSet)
        /\ Len(Append(fused, x)) = Len(fused) + 1
        /\ \A i \in 1..Len(fused) : Append(fused, x)[i] = fused[i]
        /\ Append(fused, x)[Len(fused) + 1] = x
    BY <2>1, AppendProperties
  <2> QED BY Zenon, <1>1, <2>2
<1>3. Ordered'
  <2> SUFFICES ASSUME cfg.monotonic, cfg.local, NEW i \in 1..n
               PROVE  v[i].stamp < v[i + 1].stamp
    <3>1. Len(v) - 1 = n BY <1>2
    <3> QED BY <1>2, <3>1 DEF Ordered
  <2>1. CASE i = n BY <1>1, <1>2, <2>1 DEF Follows
  <2>2. CASE i # n
    <3>1. i \in 1..(n - 1) /\ v[i] = fused[i] /\ v[i + 1] = fused[i + 1] BY <1>2, <2>2
    <3> QED BY <1>1, <3>1 DEF GnssInv, Ordered
  <2> QED BY <2>1, <2>2
<1>4. FaultNotFused'
  <2> SUFFICES ASSUME NEW i \in 1..n + 1
               PROVE  LET in == fault.start <= v[i].stamp /\ v[i].stamp < fault.end
                      IN  /\ fault.mode \in {"drop", "invalid"} => ~in
                          /\ fault.mode = "float" /\ in => ~IsFixed(v[i])
    BY <1>2 DEF FaultNotFused, IsFixed
  <2>1. CASE i = n + 1 BY <1>2, <2>1 DEF Follows, IsFixed
  <2>2. CASE i # n + 1
    <3>1. i \in DOMAIN fused /\ v[i] = fused[i] BY <1>1, <1>2, <2>2 DEF GnssInv, Types
    <3>2. FaultNotFused BY DEF GnssInv
    <3> QED BY <3>1, <3>2 DEF FaultNotFused, IsFixed
  <2> QED BY <2>1, <2>2
<1> QED BY <1>1, <1>2, <1>3, <1>4

LEMMA RejectEarlyStep ==
  ASSUME GnssInv, NEW m \in MsgSet, cfg.input # "pose", cfg.input = "stamped" <=> m.src # NoSource,
         RejectEarly(m), clock' \in Nat, fault' = fault
  PROVE  GnssInv'
<1>1. cfg \in Configs /\ fused \in Seq(SeenSet) /\ Sound(ad) /\ ad \in AdSet
  BY DEF GnssInv, Types, Sound
<1>2. PICK a \in AdSet : a = FollowSource(ad, m) /\ Sound(a)
  BY <1>1, FollowSourceSound DEF Sound
<1>3. PICK b \in AdSet : b = FollowRegression(a, m) /\ Sound(b)
  BY <1>1, <1>2, FollowRegressionSound
<1>4. PICK d \in AdSet : d = ad' /\ Sound(d) BY <1>2, <1>3 DEF RejectEarly
<1>5. cfg' = cfg /\ seen' = seen /\ fused' = fused BY DEF RejectEarly
<1>6. Sound(ad)' BY <1>4, <1>5 DEF Sound, Average, NotBehind, SinceReset
<1>7. Types' BY <1>5 DEF GnssInv, Types
<1>8. Confirmed(seen)' BY <1>5 DEF GnssInv
<1>9. Ordered' BY <1>5 DEF GnssInv, Ordered
<1>10. FaultNotFused' BY <1>5 DEF GnssInv, FaultNotFused, IsFixed
<1> QED BY <1>6, <1>7, <1>8, <1>9, <1>10 DEF GnssInv
LEMMA HandleStep ==
  ASSUME GnssInv, NEW m \in MsgSet, cfg.input # "pose", cfg.input = "stamped" <=> m.src # NoSource,
         Quiet(m), Handle(m), clock' \in Nat, fault' = fault
  PROVE  GnssInv'
<1>1. /\ cfg \in Configs /\ fused \in Seq(SeenSet) /\ seen \in Seq(SeenSet)
      /\ Sound(ad) /\ ad \in AdSet
  BY DEF GnssInv, Types, Sound
<1>2. PICK q \in AdSet : q = FollowSource(ad, m) /\ Sound(q) /\ q.src = m.src
  BY <1>1, FollowSourceSound DEF Sound
<1>3. PICK a \in AdSet : /\ a = FollowRegression(q, m) /\ Sound(a) /\ a.src = m.src
                         /\ AveragePending(a) /\ a.cand # NoTime => a.cand <= m.stamp
  BY <1>1, <1>2, FollowRegressionSound
<1>4. TimeGap(a, m) \in BOOLEAN BY DEF TimeGap
<1>5. PICK gap \in BOOLEAN : gap = TimeGap(a, m) BY <1>4
<1>6. PICK raw \in Qualities : raw = Classify(m) BY ClassifyType
<1>7. PICK f \in AdSet :
        /\ f = FollowTime(a, m) /\ f.last = m.stamp /\ AfterGap(a, f, gap)
        /\ f.src = a.src /\ f.origin = a.origin /\ f.samples = a.samples /\ f.cand = a.cand
  BY <1>5, FollowTimeFields
<1>8. PICK b \in AdSet :
        /\ b = UpdateFixedState(f, raw = "RTK_FIXED")
        /\ b = (IF raw = "RTK_FIXED" THEN HoldFix(f) ELSE LoseFix(f))
        /\ b.last = f.last /\ b.src = f.src /\ b.origin = f.origin /\ b.samples = f.samples
        /\ b.cand = f.cand
  BY HoldFixFields, LoseFixFields DEF UpdateFixedState
<1>9. Average(b) BY <1>3, <1>7, <1>8 DEF Sound, Average
<1>10. m.stamp # 0 BY DEF Handle, Untimed
<1>11. PICK c \in AdSet :
        /\ c = (IF cfg.local /\ raw = "RTK_FIXED" /\ m.good THEN UpdateOrigin(b, m) ELSE b)
        /\ Average(c)
        /\ c.tracking = b.tracking /\ c.wasActive = b.wasActive /\ c.fixed = b.fixed
        /\ c.lost = b.lost /\ c.last = m.stamp /\ c.src = m.src
        /\ a.origin # <<>> => c.origin = a.origin
  <2>1. AveragePending(b) /\ b.cand # NoTime => b.cand <= m.stamp
    BY <1>3, <1>7, <1>8 DEF AveragePending, OriginReady
  <2>2. b.src = m.src /\ b.last = m.stamp /\ b.origin = a.origin BY <1>3, <1>7, <1>8
  <2> QED BY <1>1, <1>9, <1>10, <2>1, <2>2, UpdateOriginFields
<1>12. Accepts(c, m, gap) \in BOOLEAN BY DEF Accepts
<1>13. PICK ok \in BOOLEAN : ok = Accepts(c, m, gap) BY <1>12
<1>14. PICK x \in SeenSet :
         /\ x = Seen(m, gap, ok) /\ x.stamp = m.stamp /\ x.raw = raw
         /\ x.gap = gap /\ x.accepted = ok
  <2>1. m.stamp \in Nat /\ m.src \in Source /\ m.good \in BOOLEAN BY DEF MsgSet
  <2>2. Seen(m, gap, ok) = [stamp |-> m.stamp, src |-> m.src, raw |-> raw, good |-> m.good,
                            gap |-> gap, accepted |-> ok]
    BY <1>6 DEF Seen
  <2>3. [stamp |-> m.stamp, src |-> m.src, raw |-> raw, good |-> m.good,
         gap |-> gap, accepted |-> ok] \in SeenSet
    BY <2>1, Zenon DEF SeenSet
  <2> QED BY <2>2, <2>3
<1>15. /\ ~Duplicate(a, m) /\ ~Backwards(a, m) /\ cfg' = cfg /\ ad' = c
       /\ seen' = Append(SinceReset(a), x)
       /\ fused' = IF ok THEN Append(fused, x) ELSE fused
  BY <1>2, <1>3, <1>5, <1>6, <1>7, <1>8, <1>11, <1>13, <1>14 DEF Handle, Remember, SinceReset
<1>16. PICK s \in Seq(SeenSet) : s = SinceReset(a)
  <2>1. <<>> \in Seq(SeenSet) OBVIOUS
  <2> QED BY <1>1, <2>1 DEF SinceReset
<1>17. PICK v \in Seq(SeenSet) : v = seen' /\ v = Append(s, x) /\ Len(v) = Len(s) + 1
                                 /\ v[Len(s) + 1] = x
  <2>1. PICK v \in Seq(SeenSet) : v = Append(s, x) BY AppendProperties
  <2>2. Len(v) = Len(s) + 1 /\ v[Len(s) + 1] = x BY <2>1, AppendProperties
  <2> QED BY <1>15, <1>16, <2>1, <2>2
<1>18. Tracks(c, v)
  <2>1. Tracks(a, s) BY <1>3, <1>16 DEF Sound
  <2>2. IsFixed(x) <=> raw = "RTK_FIXED" BY <1>14 DEF IsFixed
  <2>3. AfterGap(a, f, x.gap) BY <1>7, <1>14
  <2>4. Tracks(b, v)
    <3>1. CASE raw = "RTK_FIXED" BY <1>8, <1>17, <2>1, <2>2, <2>3, <3>1, FixedKeepsTracks
    <3>2. CASE raw # "RTK_FIXED" BY <1>8, <1>17, <2>1, <2>2, <2>3, <3>2, UnfixedKeepsTracks
    <3> QED BY <3>1, <3>2
  <2> QED BY <1>11, <2>4, SameTracks
<1>19. Confirmed(v)
  <2> SUFFICES ASSUME x.accepted, IsFixed(x) PROVE Earned(v)
    <3>1. PICK k \in Nat : k = Len(s) OBVIOUS
    <3>2. Len(v) = k + 1 /\ v[k + 1] = x BY <1>17, <3>1
    <3> QED BY <3>2 DEF Confirmed
  <2>1. Accepts(c, m, gap) /\ Classify(m) = "RTK_FIXED" BY <1>6, <1>13, <1>14 DEF IsFixed
  <2>2. c.tracking = "ACTIVE_FIXED" BY <2>1, AcceptsOnly
  <2> QED BY <1>18, <2>2 DEF Tracks, Stands
<1>20. m.stamp \in Nat /\ a.last \in Time BY DEF MsgSet, AdSet
<1>21. cfg.monotonic /\ cfg.local => \A i \in 1..Len(fused) : fused[i].stamp < m.stamp
  <2> SUFFICES ASSUME cfg.monotonic, cfg.local, NEW i \in 1..Len(fused)
               PROVE  fused[i].stamp < m.stamp
    OBVIOUS
  <2>1. a.last # NoTime /\ fused[i].stamp <= a.last BY <1>3 DEF Sound, NotBehind
  <2>2. m.stamp # a.last /\ ~(m.stamp < a.last) BY <1>15, <2>1 DEF Duplicate, Backwards
  <2>3. fused[i].stamp \in Nat BY <1>1, StampsOf
  <2> QED BY <1>20, <2>1, <2>2, <2>3 DEF Time
<1>22. ok => Follows(x)
  <2> SUFFICES ASSUME ok
               PROVE  LET in == fault.start <= m.stamp /\ m.stamp < fault.end IN
                      /\ fault.mode \in {"drop", "invalid"} => ~in
                      /\ fault.mode = "float" /\ in => raw # "RTK_FIXED"
    BY <1>14, <1>21 DEF Follows, IsFixed
  <2>1. raw # "INVALID" BY <1>6, <1>13, AcceptsOnly
  <2>2. (~m.valid => raw = "INVALID") /\ (m.carr = 1 => raw # "RTK_FIXED") BY <1>6, ClassifyType
  <2> QED BY <2>1, <2>2 DEF Quiet
<1>23. /\ fused' \in Seq(SeenSet) /\ Ordered' /\ FaultNotFused'
       /\ cfg.monotonic /\ cfg.local => \A i \in 1..Len(fused') : fused'[i].stamp <= m.stamp
       /\ ok \/ fused' = fused
  <2>1. CASE ok
    <3>1. fused' = Append(fused, x) BY <1>15, <2>1
    <3>2. PICK n \in Nat : n = Len(fused) BY <1>1
    <3>3. /\ fused' \in Seq(SeenSet) /\ Ordered' /\ FaultNotFused' /\ Len(fused') = n + 1
          /\ fused'[n + 1] = x /\ \A i \in 1..n : fused'[i] = fused[i]
      BY <1>15, <1>22, <2>1, <3>1, <3>2, FusedGrows
    <3>4. ASSUME cfg.monotonic, cfg.local, NEW i \in 1..Len(fused')
          PROVE  fused'[i].stamp <= m.stamp
      <4>1. CASE i = n + 1 BY <1>14, <1>20, <3>3, <4>1
      <4>2. CASE i # n + 1
        <5>1. i \in 1..n /\ fused'[i] = fused[i] BY <3>3, <4>2
        <5>2. fused[i].stamp \in Nat BY <1>1, <3>2, <5>1, StampsOf
        <5> QED BY <1>20, <1>21, <3>2, <3>4, <5>1, <5>2
      <4> QED BY <4>1, <4>2
    <3> QED BY <2>1, <3>3, <3>4
  <2>2. CASE ~ok
    <3>1. fused' = fused BY <1>15, <2>2
    <3>2. Ordered' BY <1>15, <3>1 DEF GnssInv, Ordered
    <3>3. FaultNotFused' BY <3>1 DEF GnssInv, FaultNotFused, IsFixed
    <3>4. ASSUME cfg.monotonic, cfg.local, NEW i \in 1..Len(fused')
          PROVE  fused'[i].stamp <= m.stamp
      <4>1. fused[i].stamp \in Nat BY <1>1, <3>1, <3>4, StampsOf
      <4> QED BY <1>20, <1>21, <3>1, <3>4, <4>1
    <3> QED BY <1>1, <3>1, <3>2, <3>3, <3>4
  <2> QED BY <2>1, <2>2
<1>24. c.last # NoTime BY <1>11, <1>20 DEF NoTime
<1>25. Sound(ad)'
  <2>1. ad' = c /\ cfg' = cfg BY <1>15
  <2>2. cfg.input # "stamped" => c.src = NoSource BY <1>11
  <2>3. SinceReset(ad)' = v BY <1>17, <1>24, <2>1 DEF SinceReset
  <2>4. Average(ad)' BY <1>11, <2>1 DEF Average
  <2>5. NotBehind(ad)'
    <3>1. cfg.monotonic /\ cfg.local =>
            \A i \in 1..Len(fused') : c.last # NoTime /\ fused'[i].stamp <= c.last
      BY <1>11, <1>23, <1>24
    <3>2. cfg.local /\ c.origin = <<>> => fused' = <<>>
      <4> SUFFICES ASSUME cfg.local, c.origin = <<>> PROVE fused' = <<>> OBVIOUS
      <4>1. ~ok BY <1>13, AcceptsOnly
      <4>2. a.origin = <<>> BY <1>11
      <4>3. fused = <<>> BY <1>3, <4>2 DEF Sound, NotBehind
      <4> QED BY <1>23, <4>1, <4>3
    <3> QED BY <2>1, <3>1, <3>2 DEF NotBehind
  <2> QED BY <1>18, <2>1, <2>2, <2>3, <2>4, <2>5 DEF Sound
<1>26. Types' BY <1>15, <1>17, <1>23 DEF GnssInv, Types
<1>27. Confirmed(seen)' BY <1>17, <1>19
<1> QED BY <1>23, <1>25, <1>26, <1>27 DEF GnssInv

LEMMA ProcessPoseStep ==
  ASSUME GnssInv, NEW m \in MsgSet, cfg.input = "stamped" <=> m.src # NoSource,
         ProcessPose(m), clock' \in Nat, fault' = fault
  PROVE  GnssInv'
<1>1. /\ cfg \in Configs /\ fused \in Seq(SeenSet) /\ seen = <<>> /\ cfg.input = "pose"
      /\ Sound(ad) /\ ad \in AdSet /\ cfg' = cfg /\ seen' = seen /\ fault.mode = "passthrough"
  BY DEF GnssInv, Types, Sound, ProcessPose, gnssVars
<1>2. CASE UNCHANGED gnssVars
  <2>1. Sound(ad)' BY <1>1, <1>2 DEF Sound, Average, NotBehind, SinceReset, gnssVars
  <2>2. Types' BY <1>1, <1>2 DEF GnssInv, Types, gnssVars
  <2>3. Confirmed(seen)' BY <1>1 DEF GnssInv
  <2>4. Ordered' BY <1>2 DEF GnssInv, Ordered, gnssVars
  <2>5. FaultNotFused' BY <1>2 DEF GnssInv, FaultNotFused, IsFixed, gnssVars
  <2> QED BY <2>1, <2>2, <2>3, <2>4, <2>5 DEF GnssInv
<1>3. CASE /\ ~Duplicate(ad, m) /\ ~Backwards(ad, m) /\ ad' = [ad EXCEPT !.last = m.stamp]
           /\ fused' = fused \/ \E x \in SeenSet : x.stamp = m.stamp /\ fused' = Append(fused, x)
  <2>1. m.stamp \in Nat /\ m.stamp \in Time /\ m.stamp # NoTime /\ ad.last \in Time
    <3>1. m.stamp \in Nat BY DEF MsgSet
    <3>2. ad.last \in Time BY <1>1 DEF AdSet
    <3> QED BY <3>1, <3>2 DEF Time, NoTime
  <2>2. PICK d \in AdSet : d = ad'
    <3>1. [ad EXCEPT !.last = m.stamp] \in AdSet BY <1>1, <2>1 DEF AdSet
    <3> QED BY <1>3, <3>1
  <2>3. /\ d.last = m.stamp /\ d.src = ad.src /\ d.origin = ad.origin
        /\ d.samples = ad.samples /\ d.cand = ad.cand
    BY <1>1, <1>3, <2>2 DEF AdSet
  <2>4. cfg.monotonic /\ cfg.local => \A i \in 1..Len(fused) : fused[i].stamp < m.stamp
    <3> SUFFICES ASSUME cfg.monotonic, cfg.local, NEW i \in 1..Len(fused)
                 PROVE  fused[i].stamp < m.stamp
      OBVIOUS
    <3>1. ad.last # NoTime /\ fused[i].stamp <= ad.last BY <1>1 DEF Sound, NotBehind
    <3>2. m.stamp # ad.last /\ ~(m.stamp < ad.last) BY <1>3, <3>1 DEF Duplicate, Backwards
    <3>3. fused[i].stamp \in Nat BY <1>1, StampsOf
    <3> QED BY <2>1, <3>1, <3>2, <3>3 DEF Time
  <2>5. /\ fused' \in Seq(SeenSet) /\ Ordered' /\ FaultNotFused'
        /\ cfg.monotonic /\ cfg.local => \A i \in 1..Len(fused') : fused'[i].stamp <= m.stamp
    <3>1. CASE fused' = fused
      <4>1. Ordered' BY <1>1, <3>1 DEF GnssInv, Ordered
      <4>2. FaultNotFused' BY <3>1 DEF GnssInv, FaultNotFused, IsFixed
      <4>3. ASSUME cfg.monotonic, cfg.local, NEW i \in 1..Len(fused')
            PROVE  fused'[i].stamp <= m.stamp
        <5>1. fused[i].stamp \in Nat BY <1>1, <3>1, <4>3, StampsOf
        <5> QED BY <2>1, <2>4, <3>1, <4>3, <5>1
      <4> QED BY <1>1, <3>1, <4>1, <4>2, <4>3
    <3>2. CASE fused' # fused
      <4>1. PICK x \in SeenSet : x.stamp = m.stamp /\ fused' = Append(fused, x) BY <1>3, <3>2
      <4>2. Follows(x) BY <1>1, <2>4, <4>1 DEF Follows
      <4>3. PICK n \in Nat : n = Len(fused) BY <1>1
      <4>4. /\ fused' \in Seq(SeenSet) /\ Ordered' /\ FaultNotFused' /\ Len(fused') = n + 1
            /\ fused'[n + 1] = x /\ \A i \in 1..n : fused'[i] = fused[i]
        BY <1>1, <4>1, <4>2, <4>3, FusedGrows
      <4>5. ASSUME cfg.monotonic, cfg.local, NEW i \in 1..Len(fused')
            PROVE  fused'[i].stamp <= m.stamp
        <5>1. CASE i = n + 1 BY <2>1, <4>1, <4>4, <5>1
        <5>2. CASE i # n + 1
          <6>1. i \in 1..n /\ fused'[i] = fused[i] BY <4>4, <5>2
          <6>2. fused[i].stamp \in Nat BY <1>1, <4>3, <6>1, StampsOf
          <6> QED BY <2>1, <2>4, <4>3, <4>5, <6>1, <6>2
        <5> QED BY <5>1, <5>2
      <4> QED BY <4>4, <4>5
    <3> QED BY <3>1, <3>2
  <2>6. Average(ad)' BY <1>1, <2>2, <2>3 DEF Sound, Average
  <2>7. NotBehind(ad)'
    <3>1. cfg.monotonic /\ cfg.local =>
            \A i \in 1..Len(fused') : d.last # NoTime /\ fused'[i].stamp <= d.last
      BY <2>1, <2>3, <2>5
    <3> QED BY <1>1, <2>2, <3>1 DEF NotBehind
  <2>8. Sound(ad)' BY <1>1, <2>2, <2>3, <2>6, <2>7 DEF Sound
  <2>9. Types' BY <1>1, <2>5 DEF GnssInv, Types
  <2>10. Confirmed(seen)' BY <1>1 DEF GnssInv
  <2> QED BY <2>5, <2>8, <2>9, <2>10 DEF GnssInv
<1>4. \/ UNCHANGED gnssVars
      \/ /\ ~Duplicate(ad, m) /\ ~Backwards(ad, m) /\ ad' = [ad EXCEPT !.last = m.stamp]
         /\ fused' = fused \/ \E x \in SeenSet : x.stamp = m.stamp /\ fused' = Append(fused, x)
  <2> DEFINE taken == [stamp |-> m.stamp, src |-> m.src, raw |-> cfg.poseQuality, good |-> m.good,
                       gap |-> FALSE, accepted |-> QualityAccepted(cfg.poseQuality)]
  <2>1. QualityAccepted(cfg.poseQuality) \in BOOLEAN BY DEF QualityAccepted
  <2>2. taken \in SeenSet /\ taken.stamp = m.stamp
    <3>1. cfg.poseQuality \in Qualities BY <1>1, GnssConfigsAssumption DEF Qualities
    <3> QED BY <2>1, <3>1 DEF SeenSet, MsgSet
  <2>3. CASE m.stamp = 0 \/ ~m.good \/ Duplicate(ad, m) \/ Backwards(ad, m)
    BY <2>3 DEF ProcessPose
  <2>4. CASE ~(m.stamp = 0 \/ ~m.good \/ Duplicate(ad, m) \/ Backwards(ad, m))
    <3>1. fused' = (IF taken.accepted THEN Append(fused, taken) ELSE fused)
          /\ ad' = [ad EXCEPT !.last = m.stamp]
      BY <2>4 DEF ProcessPose
    <3> HIDE DEF taken
    <3> QED BY <2>2, <2>4, <3>1
  <2> QED BY <2>3, <2>4
<1> QED BY <1>2, <1>3, <1>4
-----------------------------------------------------------------------------
(* The invariant, and what follows from it.                                  *)

\* What arrives at the adapter is a message of its input, and the injector has
\* done its work on it.
LEMMA ArrivingQuiet ==
  ASSUME GnssInv, NEW sol \in Solutions, NEW stamp \in Nat, NEW src \in Origins,
         NEW fl \in Flags
  PROVE  LET m == Message(sol, stamp, src, fl[1], fl[2]) IN
         /\ m \in MsgSet /\ m.stamp = stamp
         /\ cfg.input = "stamped" <=> m.src # NoSource
         /\ Reaches(m) =>
              /\ Arriving(m) \in MsgSet /\ Arriving(m).src = m.src
              /\ Arriving(m).stamp = stamp
              /\ stamp # 0 => Quiet(Arriving(m))
<1>1. /\ sol.valid \in BOOLEAN /\ sol.fixType \in Nat /\ sol.diff \in BOOLEAN
      /\ sol.carr \in Nat /\ sol.good \in BOOLEAN
      /\ fl[1] \in BOOLEAN /\ fl[2] \in BOOLEAN
  <2>1. sol \in [valid : BOOLEAN, fixType : Nat, diff : BOOLEAN, carr : Nat, good : BOOLEAN]
    BY GnssInputAssumption
  <2>2. fl \in {<<TRUE, TRUE>>, <<TRUE, FALSE>>, <<FALSE, FALSE>>} BY DEF Flags
  <2>3. fl \in BOOLEAN \X BOOLEAN
    <3>1. /\ <<TRUE, TRUE>> \in BOOLEAN \X BOOLEAN /\ <<TRUE, FALSE>> \in BOOLEAN \X BOOLEAN
          /\ <<FALSE, FALSE>> \in BOOLEAN \X BOOLEAN
      OBVIOUS
    <3> QED BY <2>2, <3>1
  <2>4. fl[1] \in BOOLEAN /\ fl[2] \in BOOLEAN BY <2>3, Zenon
  <2> QED BY <2>1, <2>4
<1>2. src \in Source /\ (cfg.input = "stamped" <=> src # NoSource)
  BY GnssInputAssumption DEF Origins, Source
<1>3. PICK m \in MsgSet :
        m = Message(sol, stamp, src, fl[1], fl[2]) /\ m.stamp = stamp /\ m.src = src
  <2>1. Message(sol, stamp, src, fl[1], fl[2]) \in MsgSet
    <3>1. [stamp |-> stamp, valid |-> sol.valid, fixType |-> sol.fixType, diff |-> sol.diff,
           carr |-> sol.carr, good |-> sol.good, src |-> src, localValid |-> fl[1],
           fusionValid |-> fl[2]] \in MsgSet
      BY <1>1, <1>2, Zenon DEF MsgSet
    <3> QED BY <3>1 DEF Message
  <2>2. /\ Message(sol, stamp, src, fl[1], fl[2]).stamp = stamp
        /\ Message(sol, stamp, src, fl[1], fl[2]).src = src
    BY DEF Message
  <2> QED BY <2>1, <2>2
<1>4. fault \in Faults /\ (cfg.input # "legacy" => fault.mode = "passthrough")
  BY DEF GnssInv, Types
<1>5. /\ fault.mode \in {"passthrough", "drop", "float", "invalid"}
      /\ fault.start \in Int /\ fault.end \in Int
  BY <1>4, FaultWindowsAssumption
<1>6. InWindow(m) <=> fault.mode # "passthrough" /\ fault.start <= stamp /\ stamp < fault.end
  BY <1>3, <1>5 DEF InWindow
<1>7. CASE cfg.input # "legacy" \/ stamp = 0
  <2>1. Arriving(m) = m BY <1>3, <1>7 DEF Arriving, Published, HasStamp
  <2>2. stamp # 0 => Quiet(m) BY <1>3, <1>4, <1>7 DEF Quiet
  <2> QED BY <1>2, <1>3, <2>1, <2>2
<1>8. CASE cfg.input = "legacy" /\ stamp # 0
  <2>1. Arriving(m) = Altered(m) BY <1>3, <1>8 DEF Arriving, Published, HasStamp
  <2>2. CASE ~InWindow(m)
    <3>1. Altered(m) = m BY <2>2 DEF Altered
    <3>2. Quiet(m) BY <1>3, <1>6, <2>2 DEF Quiet
    <3> QED BY <1>2, <1>3, <2>1, <3>1, <3>2
  <2>3. CASE InWindow(m) /\ fault.mode = "float"
    <3>1. PICK q \in MsgSet : q = [m EXCEPT !.valid = TRUE, !.fixType = 3, !.diff = TRUE, !.carr = 1]
      <4>1. [m EXCEPT !.valid = TRUE, !.fixType = 3, !.diff = TRUE, !.carr = 1] \in MsgSet
        BY DEF MsgSet
      <4> QED BY <4>1
    <3>2. Altered(m) = q BY <2>3, <3>1 DEF Altered
    <3>3. q.stamp = stamp /\ q.src = src /\ q.carr = 1 BY <1>3, <3>1 DEF MsgSet
    <3>4. Quiet(q) BY <2>3, <3>3 DEF Quiet
    <3> QED BY <1>2, <1>3, <2>1, <3>2, <3>3, <3>4
  <2>4. CASE InWindow(m) /\ fault.mode = "invalid"
    <3>1. PICK q \in MsgSet : q = [m EXCEPT !.valid = FALSE, !.fixType = 0, !.diff = FALSE, !.carr = 0]
      <4>1. [m EXCEPT !.valid = FALSE, !.fixType = 0, !.diff = FALSE, !.carr = 0] \in MsgSet
        BY DEF MsgSet
      <4> QED BY <4>1
    <3>2. Altered(m) = q BY <2>4, <3>1 DEF Altered
    <3>3. q.stamp = stamp /\ q.src = src /\ ~q.valid BY <1>3, <3>1 DEF MsgSet
    <3>4. Quiet(q) BY <2>4, <3>3 DEF Quiet
    <3> QED BY <1>2, <1>3, <2>1, <3>2, <3>3, <3>4
  <2>5. CASE InWindow(m) /\ fault.mode = "drop"
    <3>1. ~Reaches(m) BY <1>3, <1>8, <2>5 DEF Reaches, Dropped, HasStamp
    <3> QED BY <1>2, <1>3, <3>1
  <2>6. ~InWindow(m) \/ fault.mode \in {"float", "invalid", "drop"} BY <1>5, <1>6
  <2> QED BY <2>2, <2>3, <2>4, <2>5, <2>6
<1> QED BY <1>7, <1>8

LEMMA StutterStep ==
  ASSUME GnssInv, UNCHANGED gnssVars, fault' = fault, clock' \in Nat
  PROVE  GnssInv'
<1>1. cfg' = cfg /\ ad' = ad /\ seen' = seen /\ fused' = fused BY DEF gnssVars
<1>2. Sound(ad)' BY <1>1 DEF GnssInv, Sound, Average, NotBehind, SinceReset
<1>3. Types' BY <1>1 DEF GnssInv, Types
<1>4. Confirmed(seen)' BY <1>1 DEF GnssInv
<1>5. Ordered' BY <1>1 DEF GnssInv, Ordered
<1>6. FaultNotFused' BY <1>1 DEF GnssInv, FaultNotFused, IsFixed
<1> QED BY <1>2, <1>3, <1>4, <1>5, <1>6 DEF GnssInv

LEMMA GnssInvInit == ChainInit => GnssInv
<1> SUFFICES ASSUME ChainInit PROVE GnssInv
  OBVIOUS
<1>1. /\ cfg \in Configs /\ ad = FreshAdapter(cfg) /\ seen = <<>> /\ fused = <<>> /\ fault \in Faults
      /\ clock = 0 /\ (cfg.input # "legacy" => fault.mode = "passthrough")
  BY DEF ChainInit, GnssInit
<1>2. <<>> \in Seq(SeenSet) /\ <<>> \in Seq(SampleSet) /\ Len(<<>>) = 0 OBVIOUS
<1>3. PICK o \in OriginSet : o = IF cfg.originMode = "manual" THEN <<"manual">> ELSE <<>>
  BY <1>2 DEF OriginSet
<1>4. PICK a \in AdSet :
        a = [tracking |-> "WAITING", wasActive |-> FALSE, fixed |-> 0, lost |-> 0,
             last |-> NoTime, src |-> NoSource, origin |-> o, samples |-> <<>>, cand |-> NoTime]
  <2>1. [tracking |-> "WAITING", wasActive |-> FALSE, fixed |-> 0, lost |-> 0,
         last |-> NoTime, src |-> NoSource, origin |-> o, samples |-> <<>>, cand |-> NoTime] \in AdSet
    BY <1>2 DEF AdSet, Tracking, Time, Source
  <2> QED BY <2>1
<1>5. ad = a BY <1>1, <1>3, <1>4 DEF FreshAdapter
<1>6. /\ Cleared(a) /\ a.src = NoSource /\ a.origin = o BY <1>4 DEF Cleared
<1>7. Types BY <1>1, <1>2 DEF Types
<1>8. Average(a)
  <2>1. Series(<<>>) BY <1>2 DEF Series
  <2> QED BY <1>2, <1>3, <1>6, <2>1 DEF Average, Cleared
<1>9. NotBehind(a) BY <1>1, <1>2 DEF NotBehind
<1>10. Tracks(a, SinceReset(a)) BY <1>6, ClearedTracks DEF Cleared, SinceReset
<1>11. Confirmed(seen) BY <1>1, <1>2 DEF Confirmed
<1>12. Ordered BY <1>1, <1>2 DEF Ordered
<1>13. FaultNotFused BY <1>1, <1>2 DEF FaultNotFused
<1> QED BY <1>5, <1>6, <1>7, <1>8, <1>9, <1>10, <1>11, <1>12, <1>13 DEF GnssInv, Sound

LEMMA GnssInvNext == GnssInv /\ [ChainNext]_chainVars => GnssInv'
<1> SUFFICES ASSUME GnssInv, [ChainNext]_chainVars PROVE GnssInv'
  OBVIOUS
<1>0. clock \in Nat BY DEF GnssInv, Types
<1>1. CASE ChainNext
  <2>1. PICK sol \in Solutions, stamp \in Stamps, src \in Origins, fl \in Flags :
          LET m == Message(sol, stamp, src, fl[1], fl[2]) IN Deliver(m) \/ Overflow(m)
    BY <1>1 DEF ChainNext
  <2>2. stamp \in Nat BY <1>0, GnssInputAssumption DEF Stamps
  <2>3. PICK m \in MsgSet :
          /\ m = Message(sol, stamp, src, fl[1], fl[2]) /\ m.stamp = stamp
          /\ cfg.input = "stamped" <=> m.src # NoSource
          /\ Reaches(m) =>
               /\ Arriving(m) \in MsgSet /\ Arriving(m).src = m.src /\ Arriving(m).stamp = stamp
               /\ stamp # 0 => Quiet(Arriving(m))
    BY <2>2, ArrivingQuiet
  <2>4. Deliver(m) \/ Overflow(m) BY <2>1, <2>3
  <2>5. clock' \in Nat /\ fault' = fault BY <1>0, <2>2, <2>3, <2>4 DEF Deliver, Overflow
  <2>6. CASE Overflow(m) \/ ~Reaches(m)
    <3>1. UNCHANGED gnssVars BY <2>4, <2>6 DEF Deliver, Overflow
    <3> QED BY <2>5, <3>1, StutterStep
  <2>7. CASE Deliver(m) /\ Reaches(m)
    <3>1. PICK q \in MsgSet :
            /\ q = Arriving(m) /\ Process(q)
            /\ cfg.input = "stamped" <=> q.src # NoSource
            /\ q.stamp # 0 => Quiet(q)
      BY <2>3, <2>7 DEF Deliver
    <3>2. CASE ProcessPose(q) BY <2>5, <3>1, <3>2, ProcessPoseStep
    <3>3. CASE ProcessPvt(q)
      <4>1. CASE BadGpsTime(q) BY <2>5, <4>1, StutterStep DEF BadGpsTime
      <4>2. CASE RejectEarly(q) BY <2>5, <3>1, <3>3, <4>2, RejectEarlyStep DEF ProcessPvt
      <4>3. CASE Handle(q)
        <5>1. q.stamp # 0 BY <4>3 DEF Handle, Untimed
        <5> QED BY <2>5, <3>1, <3>3, <4>3, <5>1, HandleStep DEF ProcessPvt
      <4> QED BY <3>3, <4>1, <4>2, <4>3 DEF ProcessPvt
    <3> QED BY <3>1, <3>2, <3>3 DEF Process
  <2> QED BY <2>4, <2>6, <2>7
<1>2. CASE UNCHANGED chainVars
  <2>1. UNCHANGED gnssVars /\ fault' = fault /\ clock' \in Nat BY <1>0, <1>2 DEF chainVars
  <2> QED BY <2>1, StutterStep
<1> QED BY <1>1, <1>2

LEMMA GnssInvariant == ChainSpec => []GnssInv
  BY GnssInvInit, GnssInvNext, PTL DEF ChainSpec

(* A fixed sample is fused only after as many consecutive fixed solutions as  *)
(* its history asks for, whatever is lost, repeated, reordered or reset       *)
(* (updateFixedState and the time gap before it).                             *)
THEOREM FixesAreConfirmed == ChainSpec => []AcceptedFixConfirmed
<1>1. GnssInv => AcceptedFixConfirmed
  <2> SUFFICES ASSUME GnssInv PROVE AcceptedFixConfirmed
    OBVIOUS
  <2>1. \A j : LossAt(j) <=> LossIn(seen, j) BY DEF LossAt, LossIn
  <2>2. LastLoss = LastLossIn(seen)
    <3>1. {j \in 1..Len(seen) : LossAt(j)} = Losses(seen) BY <2>1 DEF Losses
    <3>2. LastLoss = LastOf({j \in 1..Len(seen) : LossAt(j)}) BY DEF LastLoss, LastOf
    <3> QED BY <3>1, <3>2 DEF LastLossIn
  <2>3. \A k, lo, i : ConfirmedBy(k, lo, i) <=> RunOf(seen, k, lo, i) BY DEF ConfirmedBy, RunOf
  <2>4. Confirmed(seen) BY DEF GnssInv
  <2> QED BY <2>2, <2>3, <2>4 DEF AcceptedFixConfirmed, Confirmed, Earned, Needed, Activated
<1> QED BY <1>1, GnssInvariant, PTL

(* The averaged origin comes from one unbroken series of one source           *)
(* (updateOrigin, resetOriginAverage, SOURCE_EPOCH_CHANGED).                  *)
THEOREM OriginsAreOfOneSeries == ChainSpec => []OriginFromOneSeries
<1>1. GnssInv => OriginFromOneSeries
  <2> SUFFICES ASSUME GnssInv, cfg.originMode = "average_fixed"
               PROVE  \A k \in 1..2 : \A i \in 1..(Len(<<ad.samples, ad.origin>>[k]) - 1) :
                        LET s == <<ad.samples, ad.origin>>[k][i]
                            t == <<ad.samples, ad.origin>>[k][i + 1]
                        IN  s.src = t.src /\ s.stamp < t.stamp /\ t.stamp - s.stamp <= OriginMaxGap
    BY DEF OriginFromOneSeries
  <2>1. Series(ad.samples) /\ Series(ad.origin) BY DEF GnssInv, Sound, Average
  <2> QED BY <2>1 DEF Series
<1> QED BY <1>1, GnssInvariant, PTL

(* Where a node converts to local ENU and asks for monotonic time, what it    *)
(* fuses increases strictly (processPvt, process of a pose).                  *)
THEOREM FusedSamplesIncrease == ChainSpec => []FusedInOrder
<1>1. GnssInv => FusedInOrder BY DEF GnssInv, Ordered, FusedInOrder
<1> QED BY <1>1, GnssInvariant, PTL

(* Nothing of a fault's window is fused, or not as a fix                      *)
(* (GnssFaultInjectorCore::process).                                          *)
THEOREM FaultsStayOut == ChainSpec => []FaultNotFused
<1>1. GnssInv => FaultNotFused BY DEF GnssInv
<1> QED BY <1>1, GnssInvariant, PTL

-----------------------------------------------------------------------------
(* Recovery after an outage.  The properties of tried, said of any sequence. *)

Clock  == Nat \cup {NoStamp}
Queued == [t : Nat, q : {"fixed", "float"}]
Entry  ==
  [kind : {"factor", "candidate", "limited", "break"}, t : Nat, q : {"fixed", "float"},
   residual : Nat, inflation : Int]
RecSet ==
  [start : Clock, fade : Clock, lastFixed : Clock, fixed : Nat, lastFloat : Clock,
   added : Clock, candidates : Nat, candStamp : Clock, candResidual : Nat]

FactorAt(s, i) == s[i].kind = "factor"
FloatAt(s, i)  == FactorAt(s, i) /\ s[i].q = "float"
Streaky(s, i)  == FactorAt(s, i) \/ s[i].kind = "limited" => s[i].q = "fixed"
OutageAt(s, i, k) == \A f \in 1..k : FactorAt(s, f) => s[i].t - s[f].t > GapThreshold

ResumesIn(s, i) ==
  /\ FactorAt(s, i) /\ \E j \in 1..(i - 1) : FactorAt(s, j)
  /\ OutageAt(s, i, i - 1)
LastResumption(s, b) ==
  /\ b \in 1..Len(s) /\ ResumesIn(s, b)
  /\ \A j \in (b + 1)..Len(s) : ~ResumesIn(s, j)

RowIn(s, c, b, e) ==
  \E row \in [1..c -> b..e] :
    /\ row[c] = e
    /\ \A k \in 1..c : FactorAt(s, row[k]) /\ s[row[k]].q = "fixed"
    /\ \A k \in 2..c : /\ row[k - 1] < row[k]
                       /\ s[row[k]].t - s[row[k - 1]].t <= FixedGap
                       /\ \A j \in row[k - 1]..row[k] : Streaky(s, j)
FullRow(s, b, e) == RowIn(s, ConfirmFactors, b, e)

WeightIn(s, i, b, p) ==
  \/ s[i].inflation = p
  \/ \E e \in b..(i - 1) : FullRow(s, b, e) /\ p - s[i].inflation <= s[i].t - s[e].t
FloatsIn(s, i, b, p) ==
  (p > 0 /\ s[i].q = "float" /\ \A e \in b..(i - 1) : ~FullRow(s, b, e)) =>
    \A j \in b..(i - 1) : FloatAt(s, j) => s[i].t - s[j].t >= FloatInterval

\* The last c entries are candidates in a row, each after an outage.
CandidateRow(s, c) ==
  /\ c <= Len(s)
  /\ \A j \in (Len(s) - c + 1)..Len(s) :
       s[j].kind = "candidate" /\ s[j].q = "fixed" /\ OutageAt(s, j, Len(s))
  /\ \A j \in (Len(s) - c + 2)..Len(s) :
       /\ s[j].t - s[j - 1].t <= FixedGap
       /\ Differs(s[j].residual, s[j - 1].residual) <= Consistency

JumpIn(s, i) ==
  s[i].residual > MaxResidual =>
    /\ \A j \in (i - ConfirmFactors + 1)..i :
         /\ j >= 1 /\ s[j].q = "fixed" /\ s[j].kind = (IF j = i THEN "factor" ELSE "candidate")
         /\ OutageAt(s, j, i - 1)
    /\ \A j \in (i - ConfirmFactors + 2)..i :
         /\ s[j].t - s[j - 1].t <= FixedGap
         /\ Differs(s[j].residual, s[j - 1].residual) <= Consistency

EarnedIn(s, p) ==
  (Len(s) > 0 /\ FactorAt(s, Len(s))) =>
    /\ JumpIn(s, Len(s))
    /\ \A b \in 1..Len(s) : LastResumption(s, b) =>
         WeightIn(s, Len(s), b, p) /\ FloatsIn(s, Len(s), b, p)

-----------------------------------------------------------------------------
(* The inductive invariant.                                                  *)

\* Nothing that waits in q, or is to come after n, is as old as t.
After(q, n, t) == t <= n /\ \A k \in 1..Len(q) : t < q[k].t
\* At least d has passed since t, for whatever waits or is to come.
Passed(q, n, t, d) == n - t >= d /\ \A k \in 1..Len(q) : q[k].t - t >= d

Ascending(q, n) ==
  /\ \A k \in 1..Len(q) : q[k].t <= n
  /\ \A k, l \in 1..Len(q) : k < l => q[k].t < q[l].t
Behind(r, q, n) ==
  After(q, n, r.added) /\ After(q, n, r.candStamp) /\ r.lastFloat <= r.added

\* a is the stamp of the newest factor
NewestFactor(s, a) ==
  /\ a = NoStamp => \A j \in 1..Len(s) : ~FactorAt(s, j)
  /\ a # NoStamp => \E j \in 1..Len(s) : FactorAt(s, j) /\ s[j].t = a
  /\ \A j \in 1..Len(s) : FactorAt(s, j) => s[j].t <= a

\* Of several resumptions one is the last.
Resumed(s) ==
  (\E i \in 1..Len(s) : ResumesIn(s, i)) => \E b \in 1..Len(s) : LastResumption(s, b)

CandidatesCounted(s, r) ==
  r.candidates > 0 =>
    /\ CandidateRow(s, r.candidates)
    /\ s[Len(s)].t = r.candStamp /\ s[Len(s)].residual = r.candResidual

\* While a recovery lasts, its counters say what was tried since it began at b;
\* after it, a row of fixed factors ended when the inflation began to fade, and
\* where the clocks are off, as long ago as fading takes.
StreakCounted(s, r, b) ==
  r.lastFixed # NoStamp =>
    /\ r.fixed \in 1..(ConfirmFactors - 1)
    /\ \E e \in b..Len(s) : /\ RowIn(s, r.fixed, b, e) /\ s[e].t = r.lastFixed
                            /\ \A j \in e..Len(s) : Streaky(s, j)
FloatsCounted(s, r, b) ==
  \A j \in b..Len(s) : FloatAt(s, j) => s[j].t <= r.lastFloat
Fades(s, r, b) ==
  r.fade # NoStamp => \E e \in b..Len(s) : FullRow(s, b, e) /\ s[e].t = r.fade
Faded(s, b, q, n, p) ==
  \E e \in b..Len(s) : FullRow(s, b, e) /\ Passed(q, n, s[e].t, p)

Stage(s, r, b, q, n, p) ==
  /\ Recovering(r) => StreakCounted(s, r, b) /\ FloatsCounted(s, r, b)
  /\ Fades(s, r, b)
  /\ r.start = NoStamp => Faded(s, b, q, n, p)
Stages(s, r, q, n, p) ==
  p > 0 => \A b \in 1..Len(s) : LastResumption(s, b) => Stage(s, r, b, q, n, p)

Switched(r, p) ==
  /\ p = 0 => r.start = NoStamp
  /\ r.start = NoStamp => r.fade = NoStamp

Typed(s, r, q, n, p) ==
  p \in Nat /\ n \in Nat /\ q \in Seq(Queued) /\ r \in RecSet /\ s \in Seq(Entry)

Trusted(s, r, q, n, p) ==
  /\ Typed(s, r, q, n, p)
  /\ Ascending(q, n) /\ Behind(r, q, n)
  /\ NewestFactor(s, r.added) /\ Resumed(s) /\ EarnedIn(s, p)
  /\ CandidatesCounted(s, r)
  /\ Switched(r, p) /\ Stages(s, r, q, n, p)

RecoveryInv == Trusted(tried, rec, queue, newest, ramp)

-----------------------------------------------------------------------------
(* A sequence that grows by one entry.                                       *)

Grows(s, t, x) ==
  /\ t \in Seq(Entry) /\ x \in Entry
  /\ Len(t) = Len(s) + 1 /\ t[Len(s) + 1] = x
  /\ \A i \in 1..Len(s) : t[i] = s[i]

LEMMA GrowsBy == ASSUME NEW s \in Seq(Entry), NEW x \in Entry PROVE Grows(s, Append(s, x), x)
BY DEF Grows

LEMMA EntryAt ==
  ASSUME NEW s \in Seq(Entry), NEW i \in 1..Len(s)
  PROVE  /\ s[i] \in Entry /\ s[i].t \in Nat /\ s[i].residual \in Nat
         /\ s[i].inflation \in Int
<1>1. s[i] \in Entry
  OBVIOUS
<1>2. QED
  BY <1>1 DEF Entry

\* What was said of the entries before is still true.
LEMMA RowStays ==
  ASSUME NEW s \in Seq(Entry), NEW t, NEW x, Grows(s, t, x),
         NEW b \in 1..Len(s), NEW e \in b..Len(s), NEW c \in Nat \ {0}, RowIn(s, c, b, e)
  PROVE  RowIn(t, c, b, e)
<1>1. PICK row \in [1..c -> b..e] :
        /\ row[c] = e
        /\ \A k \in 1..c : FactorAt(s, row[k]) /\ s[row[k]].q = "fixed"
        /\ \A k \in 2..c : /\ row[k - 1] < row[k]
                           /\ s[row[k]].t - s[row[k - 1]].t <= FixedGap
                           /\ \A j \in row[k - 1]..row[k] : Streaky(s, j)
  BY Zenon DEF RowIn
<1>2. \A i \in 1..Len(s) : t[i] = s[i]
  BY Zenon DEF Grows
<1>3. \A k \in 1..c : row[k] \in b..e /\ row[k] \in 1..Len(s) /\ t[row[k]] = s[row[k]]
  BY <1>2
<1>4. \A k \in 1..c : FactorAt(t, row[k]) /\ t[row[k]].q = "fixed"
  BY <1>1, <1>3 DEF FactorAt
<1>5. ASSUME NEW k \in 2..c
      PROVE  /\ row[k - 1] < row[k]
             /\ t[row[k]].t - t[row[k - 1]].t <= FixedGap
             /\ \A j \in row[k - 1]..row[k] : Streaky(t, j)
  <2>1. k \in 1..c /\ k - 1 \in 1..c
    OBVIOUS
  <2>2. \A j \in row[k - 1]..row[k] : t[j] = s[j]
    BY <1>2, <1>3, <2>1
  <2>3. \A j \in row[k - 1]..row[k] : Streaky(t, j)
    BY <1>1, <2>2 DEF Streaky, FactorAt
  <2>4. QED
    BY <1>1, <1>3, <2>1, <2>3
<1>6. QED
  BY Zenon, <1>1, <1>4, <1>5 DEF RowIn

LEMMA ResumesStays ==
  ASSUME NEW s \in Seq(Entry), NEW t, NEW x, Grows(s, t, x), NEW i \in 1..Len(s)
  PROVE  ResumesIn(t, i) <=> ResumesIn(s, i)
<1>1. \A j \in 1..i : t[j] = s[j]
  BY DEF Grows
<1>2. QED
  BY <1>1 DEF ResumesIn, OutageAt, FactorAt

LEMMA SameEarlier ==
  ASSUME NEW s \in Seq(Entry), NEW t, NEW x, Grows(s, t, x)
  PROVE  /\ Len(s) \in Nat /\ Len(t) \in Nat /\ Len(t) = Len(s) + 1 /\ t[Len(t)] = x
         /\ x \in Entry /\ x.t \in Nat
         /\ \A i \in 1..Len(s) : t[i] = s[i] /\ i \in 1..Len(t)
<1>1. x.t \in Nat
  BY DEF Grows, Entry
<1>2. QED
  BY <1>1 DEF Grows

\* A factor resumes if it comes after an outage.
LEMMA Resumption ==
  ASSUME NEW s \in Seq(Entry), NEW t, NEW x, Grows(s, t, x), FactorAt(t, Len(t)),
         NEW a \in Clock, NewestFactor(s, a)
  PROVE  /\ OutageAt(t, Len(t), Len(s)) <=> (a # NoStamp => x.t - a > GapThreshold)
         /\ ResumesIn(t, Len(t)) <=> (a # NoStamp /\ x.t - a > GapThreshold)
<1> USE RecoveryAssumption
<1>1. /\ Len(s) \in Nat /\ Len(t) = Len(s) + 1 /\ t[Len(t)] = x /\ x.t \in Nat
      /\ \A i \in 1..Len(s) : t[i] = s[i]
  BY SameEarlier
<1>2. \A i \in 1..Len(s) : s[i].t \in Nat
  BY EntryAt
<1>3. CASE a = NoStamp
  <2>1. \A j \in 1..Len(s) : ~FactorAt(t, j)
    BY <1>1, <1>3 DEF NewestFactor, FactorAt
  <2>2. QED
    BY <1>1, <1>3, <2>1 DEF OutageAt, ResumesIn
<1>4. CASE a # NoStamp
  <2>1. PICK f \in 1..Len(s) : FactorAt(s, f) /\ s[f].t = a
    BY <1>4 DEF NewestFactor
  <2>2. FactorAt(t, f) /\ t[f].t = a /\ f \in 1..(Len(t) - 1)
    BY <1>1, <2>1 DEF FactorAt
  <2>3. \A j \in 1..Len(s) : FactorAt(t, j) => t[j].t <= a /\ t[j].t \in Nat
    BY <1>1, <1>2 DEF NewestFactor, FactorAt
  <2>4. OutageAt(t, Len(t), Len(s)) <=> x.t - a > GapThreshold
    <3>1. a \in Nat
      BY <1>4 DEF Clock
    <3>2. QED
      BY SMTT(30), <1>1, <2>2, <2>3, <3>1 DEF OutageAt
  <2>5. Len(t) - 1 = Len(s)
    BY <1>1
  <2>6. ResumesIn(t, Len(t)) <=> OutageAt(t, Len(t), Len(s))
    BY <2>2, <2>5 DEF ResumesIn
  <2>7. QED
    BY <1>4, <2>4, <2>6
<1>5. QED
  BY <1>3, <1>4

\* The last resumption moves only when the new entry resumes.
LEMMA LastStays ==
  ASSUME NEW s \in Seq(Entry), NEW t, NEW x, Grows(s, t, x), Resumed(s),
         ~ResumesIn(t, Len(t))
  PROVE  /\ Resumed(t)
         /\ \A b \in 1..Len(t) : LastResumption(t, b) <=> (b \in 1..Len(s) /\ LastResumption(s, b))
<1>1. /\ Len(s) \in Nat /\ Len(t) = Len(s) + 1
  BY SameEarlier
<1>2. \A i \in 1..Len(s) : ResumesIn(t, i) <=> ResumesIn(s, i)
  BY ResumesStays
<1>3. \A b \in 1..Len(t) : LastResumption(t, b) <=> (b \in 1..Len(s) /\ LastResumption(s, b))
  BY <1>1, <1>2 DEF LastResumption
<1>4. ASSUME \E i \in 1..Len(t) : ResumesIn(t, i)
      PROVE  \E b \in 1..Len(t) : LastResumption(t, b)
  <2>1. \E i \in 1..Len(s) : ResumesIn(s, i)
    BY <1>1, <1>2, <1>4
  <2>2. PICK b \in 1..Len(s) : LastResumption(s, b)
    BY Zenon, <2>1 DEF Resumed
  <2>3. b \in 1..Len(t)
    BY <1>1
  <2>4. QED
    BY Zenon, <1>3, <2>2, <2>3
<1>5. QED
  BY Zenon, <1>3, <1>4 DEF Resumed

LEMMA LastMoves ==
  ASSUME NEW s \in Seq(Entry), NEW t, NEW x, Grows(s, t, x), ResumesIn(t, Len(t))
  PROVE  /\ Resumed(t)
         /\ \A b \in 1..Len(t) : LastResumption(t, b) <=> b = Len(t)
<1>1. /\ Len(s) \in Nat /\ Len(t) = Len(s) + 1 /\ Len(t) \in 1..Len(t)
  BY SameEarlier
<1>2. \A b \in 1..Len(t) : LastResumption(t, b) <=> b = Len(t)
  BY <1>1 DEF LastResumption
<1>3. QED
  BY Zenon, <1>1, <1>2 DEF Resumed

-----------------------------------------------------------------------------
(* Entries that are no factor.                                               *)

\* t is s with or without an entry that is no factor.
Noted(s, t) == t = s \/ \E x \in Entry : Grows(s, t, x) /\ x.kind # "factor"

LEMMA NotedKeeps ==
  ASSUME NEW s \in Seq(Entry), NEW t, Noted(s, t), NEW a, NEW p,
         NewestFactor(s, a), Resumed(s), EarnedIn(s, p)
  PROVE  /\ t \in Seq(Entry) /\ NewestFactor(t, a) /\ Resumed(t) /\ EarnedIn(t, p)
         /\ \A b \in 1..Len(t) : LastResumption(t, b) => b \in 1..Len(s) /\ LastResumption(s, b)
<1>1. CASE t = s
  BY Zenon, <1>1
<1>2. ASSUME NEW x \in Entry, Grows(s, t, x), x.kind # "factor"
      PROVE  /\ t \in Seq(Entry) /\ NewestFactor(t, a) /\ Resumed(t) /\ EarnedIn(t, p)
             /\ \A b \in 1..Len(t) :
                  LastResumption(t, b) => b \in 1..Len(s) /\ LastResumption(s, b)
  <2>1. /\ Len(s) \in Nat /\ Len(t) = Len(s) + 1 /\ t[Len(t)] = x
        /\ \A i \in 1..Len(s) : t[i] = s[i] /\ i \in 1..Len(t)
    BY <1>2, SameEarlier
  <2>2. ~FactorAt(t, Len(t))
    BY <1>2, <2>1 DEF FactorAt
  <2>3. ~ResumesIn(t, Len(t)) /\ EarnedIn(t, p)
    BY Zenon, <2>2 DEF ResumesIn, EarnedIn
  <2>4. \A j \in 1..Len(t) : FactorAt(t, j) => j \in 1..Len(s) /\ FactorAt(s, j) /\ t[j] = s[j]
    BY <2>1, <2>2 DEF FactorAt
  <2>5. NewestFactor(t, a)
    <3>1. a # NoStamp => \E j \in 1..Len(t) : FactorAt(t, j) /\ t[j].t = a
      BY <2>1 DEF NewestFactor, FactorAt
    <3>2. QED
      BY <2>4, <3>1 DEF NewestFactor
  <2>6. /\ Resumed(t)
        /\ \A b \in 1..Len(t) : LastResumption(t, b) <=> (b \in 1..Len(s) /\ LastResumption(s, b))
    BY Zenon, <1>2, <2>3, LastStays
  <2>7. t \in Seq(Entry)
    BY Zenon, <1>2 DEF Grows
  <2>8. QED
    BY Zenon, <2>3, <2>5, <2>6, <2>7
<1>3. QED
  BY Zenon, <1>1, <1>2 DEF Noted

\* The stage of a recovery outlives an entry that is no factor, unless a row is
\* being counted and a float was limited.
LEMMA StageNoted ==
  ASSUME NEW s \in Seq(Entry), NEW t, Noted(s, t), NEW r \in RecSet,
         NEW b \in 1..Len(s), NEW q, NEW n, NEW p, Stage(s, r, b, q, n, p),
         r.lastFixed # NoStamp => t = s \/ t[Len(t)].kind # "limited"
  PROVE  Stage(t, r, b, q, n, p)
<1> USE RecoveryAssumption
<1>1. CASE t = s
  BY Zenon, <1>1
<1>2. ASSUME NEW x \in Entry, Grows(s, t, x), x.kind # "factor"
      PROVE  Stage(t, r, b, q, n, p)
  <2>1. /\ Len(s) \in Nat /\ Len(t) = Len(s) + 1 /\ t[Len(t)] = x
        /\ \A i \in 1..Len(s) : t[i] = s[i] /\ i \in 1..Len(t)
    BY <1>2, SameEarlier
  <2>2. ConfirmFactors \in Nat \ {0}
    OBVIOUS
  <2>3. \A e \in b..Len(s) : FullRow(s, b, e) => FullRow(t, b, e)
    BY Zenon, <1>2, <2>2, RowStays DEF FullRow
  <2>4. \A e \in b..Len(s) : e \in b..Len(t) /\ t[e] = s[e]
    BY <2>1
  <2>5. Fades(t, r, b)
    BY Zenon, <2>3, <2>4 DEF Stage, Fades
  <2>6. r.start = NoStamp => Faded(t, b, q, n, p)
    BY Zenon, <2>3, <2>4 DEF Stage, Faded
  <2>7. FloatsCounted(s, r, b) => FloatsCounted(t, r, b)
    <3>1. ~FloatAt(t, Len(t))
      BY Zenon, <1>2, <2>1 DEF FloatAt, FactorAt
    <3>2. \A j \in b..Len(t) : FloatAt(t, j) => j \in b..Len(s) /\ t[j] = s[j] /\ FloatAt(s, j)
      BY <2>1, <3>1 DEF FloatAt, FactorAt
    <3>3. QED
      BY Zenon, <3>2 DEF FloatsCounted
  <2>8. ASSUME StreakCounted(s, r, b) PROVE StreakCounted(t, r, b)
    <3>1. SUFFICES ASSUME r.lastFixed # NoStamp
                   PROVE  /\ r.fixed \in 1..(ConfirmFactors - 1)
                          /\ \E e \in b..Len(t) : /\ RowIn(t, r.fixed, b, e) /\ t[e].t = r.lastFixed
                                                  /\ \A j \in e..Len(t) : Streaky(t, j)
      BY Zenon DEF StreakCounted
    <3>2. PICK e \in b..Len(s) : /\ RowIn(s, r.fixed, b, e) /\ s[e].t = r.lastFixed
                                 /\ \A j \in e..Len(s) : Streaky(s, j)
      BY Zenon, <2>8, <3>1 DEF StreakCounted
    <3>3. r.fixed \in 1..(ConfirmFactors - 1) /\ r.fixed \in Nat \ {0}
      BY <2>8, <3>1 DEF StreakCounted
    <3>4. RowIn(t, r.fixed, b, e) /\ t[e].t = r.lastFixed
      BY Zenon, <1>2, <2>4, <3>2, <3>3, RowStays
    <3>5. Streaky(t, Len(t))
      <4>1. x.kind # "limited"
        <5>1. Len(t) # Len(s)
          BY <2>1
        <5>2. QED
          BY Zenon, <2>1, <3>1, <5>1
      <4>2. QED
        BY Zenon, <1>2, <2>1, <4>1 DEF Streaky, FactorAt
    <3>6. \A j \in e..Len(t) : Streaky(t, j)
      <4>1. \A j \in e..Len(s) : Streaky(t, j)
        BY <2>1, <3>2 DEF Streaky, FactorAt
      <4>2. QED
        BY <2>1, <3>5, <4>1
    <3>7. QED
      BY Zenon, <2>4, <3>3, <3>4, <3>6
  <2>9. QED
    BY Zenon, <2>5, <2>6, <2>7, <2>8 DEF Stage
<1>3. QED
  BY Zenon, <1>1, <1>2 DEF Noted

-----------------------------------------------------------------------------
(* The queue.                                                                *)

\* What waited longer than t, or d longer than it, still does.
Ages(q, n, u, k) ==
  /\ \A t \in Int : After(q, n, t) => After(u, k, t)
  /\ \A t, d \in Int : Passed(q, n, t, d) => Passed(u, k, t, d)

LEMMA SampleAt == \A q \in Seq(Queued) : \A k \in 1..Len(q) : q[k].t \in Nat
<1>1. ASSUME NEW q \in Seq(Queued), NEW k \in 1..Len(q) PROVE q[k].t \in Nat
  <2>1. q[k] \in Queued
    OBVIOUS
  <2>2. QED
    BY <2>1 DEF Queued
<1>2. QED
  BY <1>1

LEMMA TakeOne ==
  ASSUME NEW q \in Seq(Queued), NEW n \in Nat, q # <<>>, Ascending(q, n)
  PROVE  /\ Tail(q) \in Seq(Queued) /\ Ascending(Tail(q), n)
         /\ Head(q) \in Queued /\ Head(q).t \in Nat
         /\ After(Tail(q), n, Head(q).t) /\ Ages(q, n, Tail(q), n)
         /\ \A t \in Int : After(q, n, t) => t < Head(q).t
         /\ \A t, d \in Int : Passed(q, n, t, d) => Head(q).t - t >= d
         /\ \A t, d \in Int : Head(q).t - t >= d => Passed(Tail(q), n, t, d)
<1> DEFINE u == Tail(q)
<1>1. /\ u \in Seq(Queued) /\ Len(u) = Len(q) - 1 /\ Len(q) \in Nat \ {0}
      /\ \A k \in 1..Len(u) : u[k] = q[k + 1] /\ k + 1 \in 1..Len(q)
      /\ Head(q) = q[1] /\ 1 \in 1..Len(q)
  OBVIOUS
<1>2. \A k \in 1..Len(q) : q[k].t \in Nat
  BY Zenon, SampleAt
<1>3. Ascending(u, n)
  BY SMTT(30), <1>1, <1>2 DEF Ascending
<1>4. After(u, n, q[1].t)
  BY <1>1, <1>2 DEF Ascending, After
<1>5. Ages(q, n, u, n)
  BY <1>1, <1>2 DEF Ages, After, Passed
<1>6. \A t \in Int : After(q, n, t) => t < q[1].t
  BY <1>1, <1>2 DEF After
<1>7. \A t, d \in Int : Passed(q, n, t, d) => q[1].t - t >= d
  BY <1>1, <1>2 DEF Passed
<1>8. \A t, d \in Int : q[1].t - t >= d => Passed(u, n, t, d)
  BY <1>1, <1>2, <1>4 DEF After, Passed
<1>9. q[1] \in Queued /\ q[1].t \in Nat
  BY <1>1, <1>2
<1>10. QED
  BY Zenon, <1>1, <1>3, <1>4, <1>5, <1>6, <1>7, <1>8, <1>9

LEMMA AddOne ==
  ASSUME NEW q \in Seq(Queued), NEW n \in Nat, NEW m \in Queued, n < m.t, Ascending(q, n),
         NEW u, u = q \/ u = Append(q, m)
  PROVE  u \in Seq(Queued) /\ Ascending(u, m.t) /\ Ages(q, n, u, m.t)
<1>1. m.t \in Nat
  BY DEF Queued
<1>2. \A k \in 1..Len(q) : q[k].t \in Nat
  BY Zenon, SampleAt
<1>3. CASE u = q
  BY <1>1, <1>2, <1>3 DEF Ascending, Ages, After, Passed
<1>4. ASSUME u = Append(q, m)
      PROVE  /\ u \in Seq(Queued) /\ Len(u) = Len(q) + 1 /\ Len(q) \in Nat
             /\ u[Len(q) + 1] = m /\ \A k \in 1..Len(q) : u[k] = q[k]
  BY <1>4
<1>5. ASSUME /\ u \in Seq(Queued) /\ Len(u) = Len(q) + 1 /\ Len(q) \in Nat
             /\ u[Len(q) + 1] = m /\ \A k \in 1..Len(q) : u[k] = q[k]
      PROVE  u \in Seq(Queued) /\ Ascending(u, m.t) /\ Ages(q, n, u, m.t)
  <2> DEFINE T == m.t
             Q(k) == q[k].t
             U(k) == u[k].t
  <2>1. \A k \in 1..Len(u) : \/ k \in 1..Len(q) /\ U(k) = Q(k) /\ Q(k) \in Nat
                             \/ k = Len(q) + 1 /\ U(k) = T
    BY <1>2, <1>5
  <2>2. /\ \A k \in 1..Len(q) : Q(k) <= n
        /\ \A k, l \in 1..Len(q) : k < l => Q(k) < Q(l)
    BY Zenon DEF Ascending
  <2>3. T \in Nat /\ n < T /\ Len(u) = Len(q) + 1 /\ Len(q) \in Nat
    BY <1>1, <1>5
  <2>4. Ascending(u, m.t)
    <3>1. /\ \A k \in 1..Len(u) : U(k) <= T
          /\ \A k, l \in 1..Len(u) : k < l => U(k) < U(l)
      <4> HIDE DEF T, Q, U
      <4>1. QED
        BY SMTT(30), <2>1, <2>2, <2>3
    <3>2. QED
      BY Zenon, <3>1 DEF Ascending
  <2>5. Ages(q, n, u, m.t)
    <3>1. /\ \A t \in Int : (t <= n /\ \A k \in 1..Len(q) : t < Q(k))
                            => (t <= T /\ \A k \in 1..Len(u) : t < U(k))
          /\ \A t, d \in Int : (n - t >= d /\ \A k \in 1..Len(q) : Q(k) - t >= d)
                            => (T - t >= d /\ \A k \in 1..Len(u) : U(k) - t >= d)
      <4> HIDE DEF T, Q, U
      <4>1. QED
        BY SMTT(30), <2>1, <2>3
    <3>2. QED
      BY Zenon, <3>1 DEF Ages, After, Passed
  <2>6. QED
    BY Zenon, <1>5, <2>4, <2>5
<1>6. QED
  BY Zenon, <1>3, <1>4, <1>5

-----------------------------------------------------------------------------
(* The clocks.                                                               *)

LEMMA RecTypes ==
  ASSUME NEW r \in RecSet
  PROVE  /\ {r.start, r.fade, r.lastFixed, r.lastFloat, r.added, r.candStamp} \subseteq Clock
         /\ r.fixed \in Nat /\ r.candidates \in Nat /\ r.candResidual \in Nat
         /\ r.added \in Int /\ r.candStamp \in Int /\ r.lastFloat \in Int
BY DEF RecSet, Clock, NoStamp

\* the same recovery, whatever its candidates and last factor
SameClocks(r, w) ==
  /\ w.start = r.start /\ w.fade = r.fade /\ w.lastFixed = r.lastFixed
  /\ w.fixed = r.fixed /\ w.lastFloat = r.lastFloat

LEMMA StageSame ==
  ASSUME NEW s, NEW r, NEW w, SameClocks(r, w), NEW b, NEW q, NEW n, NEW p,
         Stage(s, r, b, q, n, p)
  PROVE  Stage(s, w, b, q, n, p)
BY Zenon DEF Stage, SameClocks, Recovering, StreakCounted, FloatsCounted, Fades

LEMMA StageAges ==
  ASSUME NEW s \in Seq(Entry), NEW r, NEW b \in 1..Len(s), NEW q, NEW n, NEW p \in Nat,
         NEW u, NEW k, Ages(q, n, u, k), Stage(s, r, b, q, n, p)
  PROVE  Stage(s, r, b, u, k, p)
<1>1. \A e \in b..Len(s) : e \in 1..Len(s)
  OBVIOUS
<1>2. \A e \in b..Len(s) : s[e].t \in Int
  BY <1>1, EntryAt
<1>3. Faded(s, b, q, n, p) => Faded(s, b, u, k, p)
  BY <1>2 DEF Faded, Ages
<1>4. QED
  BY Zenon, <1>3 DEF Stage

LEMMA NoRecoveryFields ==
  ASSUME NEW r \in RecSet
  PROVE  /\ NoRecovery(r) \in RecSet
         /\ NoRecovery(r).start = NoStamp /\ NoRecovery(r).fade = NoStamp
         /\ NoRecovery(r).lastFixed = NoStamp /\ NoRecovery(r).fixed = 0
         /\ NoRecovery(r).lastFloat = NoStamp /\ NoRecovery(r).added = r.added
         /\ NoRecovery(r).candidates = r.candidates /\ NoRecovery(r).candStamp = r.candStamp
         /\ NoRecovery(r).candResidual = r.candResidual
BY DEF NoRecovery, RecSet, Clock, NoStamp

LEMMA CandidateFields ==
  ASSUME NEW r \in RecSet, NEW c \in Nat, NEW t \in Clock, NEW d \in Nat, NEW w,
         w = [r EXCEPT !.candidates = c, !.candStamp = t, !.candResidual = d]
  PROVE  /\ w \in RecSet /\ SameClocks(r, w) /\ w.added = r.added
         /\ w.candidates = c /\ w.candStamp = t /\ w.candResidual = d
BY DEF RecSet, SameClocks

LEMMA ForgetFields ==
  ASSUME NEW r \in RecSet
  PROVE  LET w == [r EXCEPT !.candidates = 0]
         IN  /\ w \in RecSet /\ SameClocks(r, w) /\ w.added = r.added
             /\ w.candidates = 0 /\ w.candStamp = r.candStamp
BY DEF RecSet, SameClocks

LEMMA BreakFields ==
  ASSUME NEW r \in RecSet
  PROVE  LET w == [r EXCEPT !.lastFixed = NoStamp, !.fixed = 0]
         IN  /\ w \in RecSet /\ w.start = r.start /\ w.fade = r.fade
             /\ w.lastFixed = NoStamp /\ w.lastFloat = r.lastFloat /\ w.added = r.added
             /\ w.candidates = r.candidates /\ w.candStamp = r.candStamp
             /\ w.candResidual = r.candResidual
BY DEF RecSet, Clock, NoStamp

LEMMA AddedFields ==
  ASSUME NEW r \in RecSet, NEW t \in Nat
  PROVE  LET w == [r EXCEPT !.added = t]
         IN  /\ w \in RecSet /\ SameClocks(r, w) /\ w.added = t
             /\ w.candidates = r.candidates /\ w.candStamp = r.candStamp
BY DEF RecSet, SameClocks, Clock

\* What the samples before say of the clocks when one is taken: Stage holds of
\* the clocks it is weighed with, for the samples after it.
LEMMA StageWeighed ==
  ASSUME NEW s \in Seq(Entry), NEW r \in RecSet, NEW b \in 1..Len(s), NEW q, NEW n, NEW p \in Nat,
         Stage(s, r, b, q, n, p), NEW u, NEW k, Ages(q, n, u, k), NEW t \in Int,
         \A x, d \in Int : t - x >= d => Passed(u, k, x, d), NEW w,
         w = r \/ (w = NoRecovery(r) /\ r.fade # NoStamp /\ t - r.fade >= p)
  PROVE  Stage(s, w, b, u, k, p)
<1>1. CASE w = r
  BY Zenon, <1>1, StageAges
<1>2. ASSUME w = NoRecovery(r), r.fade # NoStamp, t - r.fade >= p
      PROVE  Stage(s, w, b, u, k, p)
  <2>1. PICK e \in b..Len(s) : FullRow(s, b, e) /\ s[e].t = r.fade
    BY Zenon, <1>2 DEF Stage, Fades
  <2>2. e \in 1..Len(s)
    OBVIOUS
  <2>3. s[e].t \in Int
    BY <2>2, EntryAt
  <2>4. Passed(u, k, s[e].t, p)
    BY <1>2, <2>1, <2>3
  <2>5. Faded(s, b, u, k, p)
    BY Zenon, <2>1, <2>4 DEF Faded
  <2>6. w.start = NoStamp /\ w.fade = NoStamp
    BY Zenon, <1>2, NoRecoveryFields
  <2>7. QED
    BY Zenon, <2>5, <2>6 DEF Stage, Fades, Recovering
<1>3. QED
  BY Zenon, <1>1, <1>2

-----------------------------------------------------------------------------
(* Steps that add no factor.                                                 *)

LEMMA NoteIs ==
  ASSUME tried \in Seq(Entry), NEW kind \in {"factor", "candidate", "limited", "break"},
         NEW m \in Queued, NEW residual \in Nat, NEW inflation \in Int,
         Note(kind, m, residual, inflation)
  PROVE  \/ kind = "break" /\ tried' = tried
         \/ \E x \in Entry : /\ Grows(tried, tried', x)
                             /\ x = [kind |-> kind, t |-> m.t, q |-> m.q,
                                     residual |-> residual, inflation |-> inflation]
<1> DEFINE x == [kind |-> kind, t |-> m.t, q |-> m.q, residual |-> residual,
                 inflation |-> inflation]
<1>1. x \in Entry
  BY DEF Entry, Queued
<1>2. Grows(tried, Append(tried, x), x)
  BY Zenon, <1>1, GrowsBy
<1>3. (kind = "break" /\ tried' = tried) \/ tried' = Append(tried, x)
  BY Zenon DEF Note
<1>4. QED
  BY Zenon, <1>1, <1>2, <1>3

LEMMA SoundKept ==
  ASSUME NEW s, NEW r, NEW q, NEW n, NEW p, Trusted(s, r, q, n, p),
         NEW t, Noted(s, t), NEW w \in RecSet, w.added = r.added,
         NEW u \in Seq(Queued), NEW k \in Nat, Ascending(u, k), Ages(q, n, u, k),
         After(u, k, w.candStamp), w.lastFloat <= w.added,
         CandidatesCounted(t, w), Switched(w, p),
         p > 0 => \A b \in 1..Len(s) : Stage(s, r, b, q, n, p) => Stage(t, w, b, u, k, p)
  PROVE  Trusted(t, w, u, k, p)
<1>1. /\ s \in Seq(Entry) /\ r \in RecSet /\ p \in Nat
      /\ NewestFactor(s, r.added) /\ Resumed(s) /\ EarnedIn(s, p)
      /\ Behind(r, q, n) /\ Stages(s, r, q, n, p)
  BY Zenon DEF Trusted, Typed
<1>2. /\ t \in Seq(Entry) /\ NewestFactor(t, r.added) /\ Resumed(t) /\ EarnedIn(t, p)
      /\ \A b \in 1..Len(t) : LastResumption(t, b) => b \in 1..Len(s) /\ LastResumption(s, b)
  BY Zenon, <1>1, NotedKeeps
<1>3. Stages(t, w, u, k, p)
  BY Zenon, <1>1, <1>2 DEF Stages
<1>4. After(u, k, w.added)
  BY <1>1, RecTypes DEF Behind, Ages
<1>5. Behind(w, u, k)
  BY Zenon, <1>4 DEF Behind
<1>6. NewestFactor(t, w.added)
  BY Zenon, <1>2
<1>7. QED
  BY Zenon, <1>1, <1>2, <1>3, <1>5, <1>6 DEF Trusted, Typed

LEMMA ReceiveStep ==
  ASSUME RecoveryInv, NEW d \in SampleSteps, NEW q \in {"fixed", "float"},
         NEW queued \in BOOLEAN, TakeSample(d, q, queued)
  PROVE  RecoveryInv'
<1> USE RecoveryAssumption
<1> DEFINE m == [t |-> newest + d, q |-> q]
<1>1. Trusted(tried, rec, queue, newest, ramp)
  BY Zenon DEF RecoveryInv
<1>2. /\ tried \in Seq(Entry) /\ rec \in RecSet /\ queue \in Seq(Queued)
      /\ newest \in Nat /\ ramp \in Nat /\ Ascending(queue, newest) /\ Behind(rec, queue, newest)
      /\ CandidatesCounted(tried, rec) /\ Switched(rec, ramp)
  BY Zenon, <1>1 DEF Trusted, Typed
<1>3. m \in Queued /\ newest < m.t /\ m.t \in Nat
  BY <1>2 DEF Queued
<1>4. /\ newest' = m.t /\ ramp' = ramp
      /\ queue' = queue \/ queue' = Append(queue, m)
      /\ \/ rec' = Forgotten /\ Note("break", m, 0, 0)
         \/ rec' = rec /\ tried' = tried
  BY Zenon DEF TakeSample, Breaks
<1> HIDE DEF m
<1>5. queue' \in Seq(Queued) /\ Ascending(queue', m.t) /\ Ages(queue, newest, queue', m.t)
  BY Zenon, <1>2, <1>3, <1>4, AddOne
<1>6. /\ rec' \in RecSet /\ SameClocks(rec, rec') /\ rec'.added = rec.added
      /\ rec'.candStamp = rec.candStamp /\ (rec' = rec \/ rec'.candidates = 0)
  BY Zenon, <1>2, <1>4, ForgetFields DEF Forgotten, SameClocks
<1>7. \/ tried' = tried
      \/ /\ rec'.candidates = 0
         /\ \E x \in Entry : Grows(tried, tried', x) /\ x.kind = "break"
  <2>1. CASE rec' = rec /\ tried' = tried
    BY Zenon, <2>1
  <2>2. CASE rec' = Forgotten /\ Note("break", m, 0, 0)
    <3>1. \/ tried' = tried
          \/ \E x \in Entry : /\ Grows(tried, tried', x)
                              /\ x = [kind |-> "break", t |-> m.t, q |-> m.q,
                                      residual |-> 0, inflation |-> 0]
      <4>1. "break" \in {"factor", "candidate", "limited", "break"} /\ 0 \in Nat /\ 0 \in Int
        OBVIOUS
      <4>2. QED
        BY Zenon, <1>2, <1>3, <2>2, <4>1, NoteIs
    <3>2. rec'.candidates = 0
      BY Zenon, <1>2, <2>2, ForgetFields DEF Forgotten
    <3>3. QED
      BY <3>1, <3>2
  <2>3. QED
    BY Zenon, <1>4, <2>1, <2>2
<1>8. Noted(tried, tried') /\ (tried' = tried \/ tried'[Len(tried')].kind # "limited")
  <2>1. CASE tried' = tried
    BY Zenon, <2>1 DEF Noted
  <2>2. ASSUME NEW x \in Entry, Grows(tried, tried', x), x.kind = "break"
        PROVE  Noted(tried, tried') /\ tried'[Len(tried')].kind # "limited"
    <3>1. tried'[Len(tried')] = x
      BY <1>2, <2>2, SameEarlier
    <3>2. x.kind # "factor" /\ tried'[Len(tried')].kind # "limited"
      BY <2>2, <3>1
    <3>3. QED
      BY Zenon, <2>2, <3>2 DEF Noted
  <2>3. QED
    BY Zenon, <1>7, <2>1, <2>2
<1>9. CandidatesCounted(tried', rec')
  <2>1. CASE rec'.candidates = 0
    BY <2>1 DEF CandidatesCounted
  <2>2. CASE rec'.candidates # 0
    BY Zenon, <1>2, <1>6, <1>7, <2>2
  <2>3. QED
    BY <2>1, <2>2
<1>10. Switched(rec', ramp)
  BY Zenon, <1>2, <1>6 DEF Switched, SameClocks
<1>11. After(queue', m.t, rec'.candStamp) /\ rec'.lastFloat <= rec'.added
  BY <1>2, <1>5, <1>6, RecTypes DEF Behind, Ages, SameClocks
<1>12. ASSUME ramp > 0, NEW b \in 1..Len(tried), Stage(tried, rec, b, queue, newest, ramp)
       PROVE  Stage(tried', rec', b, queue', m.t, ramp)
  <2>1. Stage(tried, rec, b, queue', m.t, ramp)
    BY Zenon, <1>2, <1>5, <1>12, StageAges
  <2>2. Stage(tried', rec, b, queue', m.t, ramp)
    BY Zenon, <1>2, <1>8, <2>1, StageNoted
  <2>3. QED
    BY Zenon, <1>6, <2>2, StageSame
<1>13. Trusted(tried', rec', queue', m.t, ramp)
  BY Zenon, <1>1, <1>3, <1>5, <1>6, <1>8, <1>9, <1>10, <1>11, <1>12, SoundKept
<1>14. QED
  BY Zenon, <1>4, <1>13 DEF RecoveryInv

LEMMA LeaveOutStep == ASSUME RecoveryInv, LeaveOut PROVE RecoveryInv'
<1>1. Trusted(tried, rec, queue, newest, ramp)
  BY Zenon DEF RecoveryInv
<1>2. /\ tried \in Seq(Entry) /\ rec \in RecSet /\ queue \in Seq(Queued)
      /\ newest \in Nat /\ ramp \in Nat /\ Ascending(queue, newest) /\ Behind(rec, queue, newest)
      /\ CandidatesCounted(tried, rec) /\ Switched(rec, ramp)
  BY Zenon, <1>1 DEF Trusted, Typed
<1>3. /\ queue # <<>> /\ queue' = Tail(queue)
      /\ ramp' = ramp /\ newest' = newest /\ rec' = rec /\ tried' = tried
  BY Zenon DEF LeaveOut
<1>4. queue' \in Seq(Queued) /\ Ascending(queue', newest) /\ Ages(queue, newest, queue', newest)
  BY Zenon, <1>2, <1>3, TakeOne
<1>5. After(queue', newest, rec.candStamp) /\ rec.lastFloat <= rec.added
  BY <1>2, <1>4, RecTypes DEF Behind, Ages
<1>6. ramp > 0 => \A b \in 1..Len(tried) :
        Stage(tried, rec, b, queue, newest, ramp) => Stage(tried, rec, b, queue', newest, ramp)
  BY Zenon, <1>2, <1>4, StageAges
<1>7. Noted(tried, tried)
  BY Zenon DEF Noted
<1>8. Trusted(tried, rec, queue', newest, ramp)
  BY Zenon, <1>1, <1>2, <1>4, <1>5, <1>6, <1>7, SoundKept
<1>9. QED
  BY Zenon, <1>3, <1>8 DEF RecoveryInv

\* What is counted as a candidate came after an outage: a float within its
\* interval of the last one is too early to follow it.
LEMMA NoCandidates ==
  ASSUME FloatsFit, RecoveryInv, queue # <<>>, RateLimited(Head(queue))
  PROVE  rec.candidates = 0
<1> USE RecoveryAssumption
<1>1. /\ tried \in Seq(Entry) /\ rec \in RecSet /\ queue \in Seq(Queued)
      /\ newest \in Nat /\ Ascending(queue, newest) /\ Behind(rec, queue, newest)
      /\ NewestFactor(tried, rec.added) /\ CandidatesCounted(tried, rec)
  BY Zenon DEF RecoveryInv, Trusted, Typed
<1>2. /\ rec.candidates \in Nat /\ rec.lastFloat \in Clock /\ rec.added \in Clock
      /\ rec.candStamp \in Clock /\ rec.candStamp \in Int
  BY <1>1, RecTypes
<1>3. Head(queue).t \in Nat /\ \A t \in Int : After(queue, newest, t) => t < Head(queue).t
  BY Zenon, <1>1, TakeOne
<1>4. rec.candStamp < Head(queue).t
  BY Zenon, <1>1, <1>2, <1>3 DEF Behind
<1>5. rec.lastFloat # NoStamp /\ Head(queue).t - rec.lastFloat < FloatInterval
  BY Zenon DEF RateLimited
<1>6. rec.lastFloat \in Nat /\ rec.added \in Nat /\ rec.lastFloat <= rec.added
  BY <1>1, <1>2, <1>5 DEF Clock, NoStamp, Behind
<1>7. ASSUME rec.candidates > 0 PROVE FALSE
  <2>1. /\ CandidateRow(tried, rec.candidates) /\ tried[Len(tried)].t = rec.candStamp
    BY Zenon, <1>1, <1>7 DEF CandidatesCounted
  <2>2. Len(tried) \in (Len(tried) - rec.candidates + 1)..Len(tried)
    BY <1>1, <1>2, <1>7
  <2>3. OutageAt(tried, Len(tried), Len(tried))
    BY Zenon, <2>1, <2>2 DEF CandidateRow
  <2>4. rec.added # NoStamp
    BY <1>6 DEF NoStamp
  <2>5. PICK f \in 1..Len(tried) : FactorAt(tried, f) /\ tried[f].t = rec.added
    BY Zenon, <1>1, <2>4 DEF NewestFactor
  <2>6. rec.candStamp - rec.added > GapThreshold
    BY Zenon, <2>1, <2>3, <2>5 DEF OutageAt
  <2>7. QED
    BY SMTT(30), <1>2, <1>3, <1>4, <1>5, <1>6, <2>6 DEF FloatsFit
<1>8. QED
  BY <1>2, <1>7

LEMMA LimitStep == ASSUME FloatsFit, RecoveryInv, Limit PROVE RecoveryInv'
<1> DEFINE m == Head(queue)
<1>1. Trusted(tried, rec, queue, newest, ramp)
  BY Zenon DEF RecoveryInv
<1>2. /\ tried \in Seq(Entry) /\ rec \in RecSet /\ queue \in Seq(Queued)
      /\ newest \in Nat /\ ramp \in Nat /\ Ascending(queue, newest) /\ Behind(rec, queue, newest)
      /\ CandidatesCounted(tried, rec) /\ Switched(rec, ramp)
  BY Zenon, <1>1 DEF Trusted, Typed
<1>3. /\ queue # <<>> /\ queue' = Tail(queue) /\ RateLimited(m) /\ rec' = BrokenStreak
      /\ ramp' = ramp /\ newest' = newest /\ Note("limited", m, 0, 0)
  BY Zenon DEF Limit
<1>4. rec.candidates = 0
  BY Zenon, <1>3, NoCandidates
<1>5. /\ rec' \in RecSet /\ rec'.start = rec.start /\ rec'.fade = rec.fade
      /\ rec'.lastFixed = NoStamp /\ rec'.lastFloat = rec.lastFloat /\ rec'.added = rec.added
      /\ rec'.candidates = 0 /\ rec'.candStamp = rec.candStamp
  BY Zenon, <1>2, <1>3, <1>4, BreakFields DEF BrokenStreak
<1>6. m \in Queued /\ queue' \in Seq(Queued) /\ Ascending(queue', newest)
      /\ Ages(queue, newest, queue', newest)
  BY Zenon, <1>2, <1>3, TakeOne
<1> HIDE DEF m
<1>7. Noted(tried, tried')
  <2>1. PICK x \in Entry : /\ Grows(tried, tried', x)
                           /\ x = [kind |-> "limited", t |-> m.t, q |-> m.q,
                                   residual |-> 0, inflation |-> 0]
    BY <1>2, <1>3, <1>6, NoteIs
  <2>2. x.kind # "factor"
    BY <2>1
  <2>3. QED
    BY Zenon, <2>1, <2>2 DEF Noted
<1>8. CandidatesCounted(tried', rec') /\ Switched(rec', ramp)
  BY <1>2, <1>5 DEF CandidatesCounted, Switched
<1>9. After(queue', newest, rec'.candStamp) /\ rec'.lastFloat <= rec'.added
  BY <1>2, <1>5, <1>6, RecTypes DEF Behind, Ages
<1>10. ASSUME ramp > 0, NEW b \in 1..Len(tried), Stage(tried, rec, b, queue, newest, ramp)
       PROVE  Stage(tried', rec', b, queue', newest, ramp)
  <2>1. Stage(tried, rec, b, queue', newest, ramp)
    BY Zenon, <1>2, <1>6, <1>10, StageAges
  <2>2. Stage(tried, rec', b, queue', newest, ramp)
    BY Zenon, <1>5, <2>1 DEF Stage, Recovering, StreakCounted, FloatsCounted, Fades
  <2>3. QED
    BY Zenon, <1>2, <1>5, <1>7, <2>2, StageNoted
<1>11. Trusted(tried', rec', queue', newest, ramp)
  BY Zenon, <1>1, <1>2, <1>5, <1>6, <1>7, <1>8, <1>9, <1>10, SoundKept
<1>12. QED
  BY Zenon, <1>3, <1>11 DEF RecoveryInv

-----------------------------------------------------------------------------
(* A sample is tried.                                                        *)

\* The row of candidates grows by one that agrees with the last.
LEMMA RowOfCandidates ==
  ASSUME NEW s \in Seq(Entry), NEW t, NEW x, Grows(s, t, x), x.kind = "candidate",
         x.q = "fixed", NEW a \in Clock, NewestFactor(s, a), a # NoStamp,
         x.t - a > GapThreshold, NEW c \in Nat,
         \/ c = 1
         \/ /\ c > 1 /\ CandidateRow(s, c - 1)
            /\ x.t - s[Len(s)].t <= FixedGap
            /\ Differs(x.residual, s[Len(s)].residual) <= Consistency
  PROVE  CandidateRow(t, c)
<1> USE RecoveryAssumption
<1>1. /\ Len(s) \in Nat /\ Len(t) \in Nat /\ Len(t) = Len(s) + 1 /\ t[Len(t)] = x /\ x.t \in Nat
      /\ \A i \in 1..Len(s) : t[i] = s[i]
  BY SameEarlier
<1>2. \A i \in 1..Len(s) : s[i].t \in Nat
  BY EntryAt
<1>3. a \in Nat
  BY DEF Clock
<1>4. ~FactorAt(t, Len(t))
  BY <1>1 DEF FactorAt
<1>5. \A f \in 1..Len(t) : FactorAt(t, f) => f \in 1..Len(s) /\ FactorAt(s, f) /\ t[f] = s[f]
  BY <1>1, <1>4 DEF FactorAt
<1>6. OutageAt(t, Len(t), Len(t))
  <2>1. ASSUME NEW f \in 1..Len(t), FactorAt(t, f) PROVE t[Len(t)].t - t[f].t > GapThreshold
    <3>1. f \in 1..Len(s) /\ FactorAt(s, f) /\ t[f] = s[f]
      BY <1>5, <2>1
    <3>2. t[f].t <= a /\ t[f].t \in Nat
      BY <1>2, <3>1 DEF NewestFactor
    <3>3. QED
      BY <1>1, <1>3, <3>2
  <2>2. QED
    BY Zenon, <2>1 DEF OutageAt
<1>7. ASSUME NEW j \in 1..Len(s), OutageAt(s, j, Len(s)) PROVE OutageAt(t, j, Len(t))
  BY <1>1, <1>5, <1>7 DEF OutageAt
<1>8. CASE c = 1
  BY <1>1, <1>6, <1>8 DEF CandidateRow
<1>9. ASSUME c > 1, CandidateRow(s, c - 1), x.t - s[Len(s)].t <= FixedGap,
             Differs(x.residual, s[Len(s)].residual) <= Consistency
      PROVE  CandidateRow(t, c)
  <2>1. c <= Len(t) /\ Len(s) \in 1..Len(s)
    BY <1>1, <1>9 DEF CandidateRow
  <2>2. ASSUME NEW j \in (Len(t) - c + 1)..Len(t)
        PROVE  t[j].kind = "candidate" /\ t[j].q = "fixed" /\ OutageAt(t, j, Len(t))
    <3>1. CASE j = Len(t)
      BY <1>1, <1>6, <3>1
    <3>2. CASE j # Len(t)
      <4>1. j \in 1..Len(s) /\ j \in (Len(s) - (c - 1) + 1)..Len(s)
        BY <1>1, <2>1, <3>2
      <4>2. t[j] = s[j] /\ s[j].kind = "candidate" /\ s[j].q = "fixed" /\ OutageAt(s, j, Len(s))
        BY Zenon, <1>1, <1>9, <4>1 DEF CandidateRow
      <4>3. QED
        BY Zenon, <1>7, <4>1, <4>2
    <3>3. QED
      BY <3>1, <3>2
  <2>3. ASSUME NEW j \in (Len(t) - c + 2)..Len(t)
        PROVE  /\ t[j].t - t[j - 1].t <= FixedGap
               /\ Differs(t[j].residual, t[j - 1].residual) <= Consistency
    <3>1. CASE j = Len(t)
      <4>1. j - 1 = Len(s) /\ t[j] = x
        BY <1>1, <3>1
      <4>2. t[j - 1] = s[Len(s)]
        BY Zenon, <1>1, <2>1, <4>1
      <4>3. QED
        BY Zenon, <1>9, <4>1, <4>2
    <3>2. CASE j # Len(t)
      <4>1. j \in 1..Len(s) /\ j - 1 \in 1..Len(s) /\ j \in (Len(s) - (c - 1) + 2)..Len(s)
        BY SMTT(30), <1>1, <2>1, <3>2
      <4>2. t[j] = s[j] /\ t[j - 1] = s[j - 1]
        BY Zenon, <1>1, <4>1
      <4>3. QED
        BY Zenon, <1>9, <4>1, <4>2 DEF CandidateRow
    <3>3. QED
      BY <3>1, <3>2
  <2>4. QED
    BY Zenon, <2>1, <2>2, <2>3 DEF CandidateRow
<1>10. QED
  BY Zenon, <1>8, <1>9

\* What a sample is tried with: the clocks it is weighed with, its verdict as a
\* candidate.
LEMMA WeighedIs ==
  ASSUME rec \in RecSet, NEW t
  PROVE  LET w == Weighed(t)
         IN  /\ w \in RecSet /\ w.added = rec.added /\ w.candidates = rec.candidates
             /\ w.candStamp = rec.candStamp
             /\ \/ w = rec
                \/ w = NoRecovery(rec) /\ ~Outage(t) /\ rec.fade # NoStamp /\ t - rec.fade >= ramp
<1>1. CASE ~Outage(t) /\ rec.fade # NoStamp /\ t - rec.fade >= ramp
  <2>1. Weighed(t) = NoRecovery(rec)
    BY Zenon, <1>1 DEF Weighed
  <2>2. QED
    BY Zenon, <1>1, <2>1, NoRecoveryFields
<1>2. CASE ~(~Outage(t) /\ rec.fade # NoStamp /\ t - rec.fade >= ramp)
  <2>1. Weighed(t) = rec
    BY Zenon, <1>2 DEF Weighed
  <2>2. QED
    BY Zenon, <2>1
<1>3. QED
  BY Zenon, <1>1, <1>2

\* w is r with the verdict on a sample as a candidate
Judged(r, m, residual, w) ==
  /\ w \in RecSet /\ SameClocks(r, w) /\ w.added = r.added
  /\ \/ w.candidates = 0 /\ w.candStamp = r.candStamp
     \/ /\ Outage(m.t) /\ m.q = "fixed"
        /\ w.candStamp = m.t /\ w.candResidual = residual
        /\ \/ w.candidates = 1
           \/ Agrees(m, residual) /\ w.candidates = r.candidates + 1

LEMMA CandidatesIs ==
  ASSUME NEW r \in RecSet, rec \in RecSet, NEW m \in Queued, NEW residual \in Nat, NEW nis
  PROVE  Judged(r, m, residual, Candidates(r, m, residual, nis))
<1>1. r.candidates \in Nat /\ m.t \in Clock
  BY RecTypes DEF Queued, Clock
<1>2. CASE ~MayReacquire(m, residual, nis)
  <2>1. Candidates(r, m, residual, nis) = [r EXCEPT !.candidates = 0]
    BY Zenon, <1>2 DEF Candidates
  <2>2. QED
    BY Zenon, <2>1, ForgetFields DEF Judged
<1>3. CASE MayReacquire(m, residual, nis)
  <2>1. PICK c \in Nat : /\ c = 1 \/ (Agrees(m, residual) /\ c = r.candidates + 1)
                         /\ Candidates(r, m, residual, nis) =
                              [r EXCEPT !.candidates = c, !.candStamp = m.t, !.candResidual = residual]
    <3>1. CASE Agrees(m, residual)
      <4>1. Candidates(r, m, residual, nis) =
              [r EXCEPT !.candidates = r.candidates + 1, !.candStamp = m.t, !.candResidual = residual]
        BY <1>3, <3>1 DEF Candidates, RecSet
      <4>2. r.candidates + 1 \in Nat
        BY <1>1
      <4>3. QED
        BY Zenon, <3>1, <4>1, <4>2
    <3>2. CASE ~Agrees(m, residual)
      <4>1. Candidates(r, m, residual, nis) =
              [r EXCEPT !.candidates = 1, !.candStamp = m.t, !.candResidual = residual]
        BY <1>3, <3>2 DEF Candidates
      <4>2. 1 \in Nat
        OBVIOUS
      <4>3. QED
        BY Zenon, <4>1, <4>2
    <3>3. QED
      BY Zenon, <3>1, <3>2
  <2>2. c \in Nat
    BY Zenon, <2>1
  <2>3. PICK w : w = [r EXCEPT !.candidates = c, !.candStamp = m.t, !.candResidual = residual]
    OBVIOUS
  <2>4. /\ w \in RecSet /\ SameClocks(r, w) /\ w.added = r.added
        /\ w.candidates = c /\ w.candStamp = m.t /\ w.candResidual = residual
    BY <1>1, <2>2, <2>3 DEF RecSet, SameClocks
  <2>5. Candidates(r, m, residual, nis) = w
    BY Zenon, <2>1, <2>3
  <2>6. QED
    BY Zenon, <1>3, <2>1, <2>4, <2>5 DEF Judged, MayReacquire
<1>4. QED
  BY Zenon, <1>2, <1>3

\* What holds of the last sample of the queue when it is tried.
LEMMA RejectStep ==
  ASSUME RecoveryInv, queue # <<>>, NEW residual \in Nat, NEW r \in RecSet, NEW w \in RecSet,
         r = Weighed(Head(queue).t), SameClocks(r, w), w.added = r.added,
         \/ w.candidates = 0 /\ w.candStamp = r.candStamp
         \/ /\ Outage(Head(queue).t) /\ Head(queue).q = "fixed"
            /\ w.candStamp = Head(queue).t /\ w.candResidual = residual
            /\ \/ w.candidates = 1
               \/ Agrees(Head(queue), residual) /\ w.candidates = r.candidates + 1,
         RejectFactor(w, Head(queue), residual),
         queue' = Tail(queue), ramp' = ramp, newest' = newest
  PROVE  RecoveryInv'
<1> DEFINE m == Head(queue)
<1>1. Trusted(tried, rec, queue, newest, ramp)
  BY Zenon DEF RecoveryInv
<1>2. /\ tried \in Seq(Entry) /\ rec \in RecSet /\ queue \in Seq(Queued)
      /\ newest \in Nat /\ ramp \in Nat /\ Ascending(queue, newest) /\ Behind(rec, queue, newest)
      /\ NewestFactor(tried, rec.added)
      /\ CandidatesCounted(tried, rec) /\ Switched(rec, ramp)
  BY Zenon, <1>1 DEF Trusted, Typed
<1>3. /\ queue' \in Seq(Queued) /\ Ascending(queue', newest)
      /\ m \in Queued /\ m.t \in Nat
      /\ After(queue', newest, m.t) /\ Ages(queue, newest, queue', newest)
      /\ \A t, d \in Int : m.t - t >= d => Passed(queue', newest, t, d)
  BY Zenon, <1>2, TakeOne
<1>4. /\ r.added = rec.added /\ r.candidates = rec.candidates /\ r.candStamp = rec.candStamp
      /\ r = rec \/ (r = NoRecovery(rec) /\ rec.fade # NoStamp /\ m.t - rec.fade >= ramp)
  BY Zenon, <1>2, WeighedIs
<1>5. rec' = w /\ Note(IF w.candidates > 0 THEN "candidate" ELSE "break", m, residual, 0)
  BY Zenon DEF RejectFactor
<1>6. \/ Outage(m.t) /\ m.q = "fixed" /\ w.candStamp = m.t /\ w.candResidual = residual
         /\ (w.candidates = 1 \/ (Agrees(m, residual) /\ w.candidates = rec.candidates + 1))
      \/ w.candidates = 0 /\ w.candStamp = rec.candStamp
  BY Zenon, <1>4
<1> HIDE DEF m
<1>7. rec.candidates \in Nat /\ w.candidates \in Nat /\ rec.added \in Clock /\ rec.added \in Int
      /\ rec.candStamp \in Int /\ rec.lastFloat \in Int
      /\ (w.lastFloat = NoStamp \/ w.lastFloat = rec.lastFloat)
  <2>1. rec.candidates \in Nat /\ w.candidates \in Nat /\ rec.added \in Clock /\ rec.added \in Int
        /\ rec.candStamp \in Int /\ rec.lastFloat \in Int
    BY <1>2, RecTypes
  <2>2. w.lastFloat = NoStamp \/ w.lastFloat = rec.lastFloat
    <3>1. CASE r = rec
      BY Zenon, <3>1 DEF SameClocks
    <3>2. CASE r = NoRecovery(rec)
      <4>1. r.lastFloat = NoStamp
        <5>1. NoRecovery(rec).lastFloat = NoStamp
          BY Zenon, <1>2, NoRecoveryFields
        <5>2. QED
          BY <3>2, <5>1
      <4>2. QED
        BY Zenon, <4>1 DEF SameClocks
    <3>3. QED
      BY Zenon, <1>4, <3>1, <3>2
  <2>3. QED
    BY Zenon, <2>1, <2>2
<1>8. ASSUME w.candidates = 0
      PROVE  /\ Noted(tried, tried') /\ (tried' = tried \/ tried'[Len(tried')].kind # "limited")
             /\ CandidatesCounted(tried', w) /\ After(queue', newest, w.candStamp)
  <2>1. Note("break", m, residual, 0)
    BY <1>5, <1>8
  <2>2. "break" \in {"factor", "candidate", "limited", "break"} /\ 0 \in Int
    OBVIOUS
  <2>3. tried' = tried \/ \E x \in Entry : /\ Grows(tried, tried', x)
                                           /\ x = [kind |-> "break", t |-> m.t, q |-> m.q,
                                                   residual |-> residual, inflation |-> 0]
    BY Zenon, <1>2, <1>3, <2>1, <2>2, NoteIs
  <2>4. ASSUME NEW x \in Entry, Grows(tried, tried', x), x.kind = "break"
        PROVE  Noted(tried, tried') /\ tried'[Len(tried')].kind # "limited"
    <3>1. tried'[Len(tried')] = x
      BY <1>2, <2>4, SameEarlier
    <3>2. x.kind # "factor" /\ tried'[Len(tried')].kind # "limited"
      BY <2>4, <3>1
    <3>3. QED
      BY Zenon, <2>4, <3>2 DEF Noted
  <2>5. \A x : x = [kind |-> "break", t |-> m.t, q |-> m.q, residual |-> residual, inflation |-> 0]
               => x.kind = "break"
    OBVIOUS
  <2>6. Noted(tried, tried') /\ (tried' = tried \/ tried'[Len(tried')].kind # "limited")
    BY Zenon, <2>3, <2>4, <2>5 DEF Noted
  <2>7. CandidatesCounted(tried', w)
    BY <1>8 DEF CandidatesCounted
  <2>8. After(queue', newest, w.candStamp)
    <3>1. w.candStamp = rec.candStamp \/ w.candStamp = m.t
      BY Zenon, <1>6
    <3>2. After(queue', newest, rec.candStamp)
      BY Zenon, <1>2, <1>3, <1>7 DEF Behind, Ages
    <3>3. QED
      BY Zenon, <1>3, <3>1, <3>2
  <2>9. QED
    BY Zenon, <2>6, <2>7, <2>8
<1>9. ASSUME w.candidates # 0
      PROVE  /\ Noted(tried, tried') /\ (tried' = tried \/ tried'[Len(tried')].kind # "limited")
             /\ CandidatesCounted(tried', w) /\ After(queue', newest, w.candStamp)
  <2>1. Note("candidate", m, residual, 0)
    BY <1>5, <1>7, <1>9
  <2>2. "candidate" \in {"factor", "candidate", "limited", "break"} /\ 0 \in Int
    OBVIOUS
  <2>3. PICK x \in Entry : /\ Grows(tried, tried', x)
                           /\ x = [kind |-> "candidate", t |-> m.t, q |-> m.q,
                                   residual |-> residual, inflation |-> 0]
    <3>1. "candidate" # "break"
      OBVIOUS
    <3>2. QED
      BY Zenon, <1>2, <1>3, <2>1, <2>2, <3>1, NoteIs
  <2>4. x.kind = "candidate" /\ x.t = m.t /\ x.q = m.q /\ x.residual = residual
    BY <2>3
  <2>5. tried'[Len(tried')] = x
    BY ZenonT(40), <1>2, <2>3, SameEarlier
  <2>6. Noted(tried, tried') /\ tried'[Len(tried')].kind # "limited"
    <3>1. x.kind # "factor" /\ x.kind # "limited"
      BY <2>4
    <3>2. QED
      BY Zenon, <2>3, <2>5, <3>1 DEF Noted
  <2>7. /\ Outage(m.t) /\ m.q = "fixed" /\ w.candStamp = m.t /\ w.candResidual = residual
        /\ (w.candidates = 1 \/ (Agrees(m, residual) /\ w.candidates = rec.candidates + 1))
    BY Zenon, <1>6, <1>9
  <2>8. rec.added # NoStamp /\ x.t - rec.added > GapThreshold
    BY Zenon, <2>4, <2>7 DEF Outage
  <2>9. \/ w.candidates = 1
        \/ /\ w.candidates > 1 /\ CandidateRow(tried, w.candidates - 1)
           /\ x.t - tried[Len(tried)].t <= FixedGap
           /\ Differs(x.residual, tried[Len(tried)].residual) <= Consistency
    <3>1. ASSUME Agrees(m, residual), w.candidates = rec.candidates + 1
          PROVE  /\ w.candidates > 1 /\ CandidateRow(tried, w.candidates - 1)
                 /\ x.t - tried[Len(tried)].t <= FixedGap
                 /\ Differs(x.residual, tried[Len(tried)].residual) <= Consistency
      <4>1. /\ rec.candidates > 0 /\ m.t - rec.candStamp <= FixedGap
            /\ Differs(residual, rec.candResidual) <= Consistency
        BY Zenon, <3>1 DEF Agrees
      <4>2. /\ CandidateRow(tried, rec.candidates)
            /\ tried[Len(tried)].t = rec.candStamp /\ tried[Len(tried)].residual = rec.candResidual
        BY Zenon, <1>2, <4>1 DEF CandidatesCounted
      <4>3. w.candidates > 1 /\ w.candidates - 1 = rec.candidates
        <5>1. \A a, b \in Nat : a = b + 1 /\ b > 0 => a > 1 /\ a - 1 = b
          OBVIOUS
        <5>2. QED
          BY Zenon, <1>7, <3>1, <4>1, <5>1
      <4>4. QED
        BY Zenon, <2>4, <4>1, <4>2, <4>3
    <3>2. QED
      BY Zenon, <2>7, <3>1
  <2>10. CandidateRow(tried', w.candidates)
    BY Zenon, <1>2, <1>7, <2>3, <2>4, <2>7, <2>8, <2>9, RowOfCandidates
  <2>11. CandidatesCounted(tried', w)
    BY Zenon, <2>4, <2>5, <2>7, <2>10 DEF CandidatesCounted
  <2>12. QED
    BY Zenon, <1>3, <2>6, <2>7, <2>11
<1>10. /\ Noted(tried, tried') /\ (tried' = tried \/ tried'[Len(tried')].kind # "limited")
       /\ CandidatesCounted(tried', w) /\ After(queue', newest, w.candStamp)
  BY Zenon, <1>8, <1>9
<1>11. Switched(w, ramp)
  <2>1. CASE r = rec
    BY Zenon, <1>2, <2>1 DEF Switched, SameClocks
  <2>2. CASE r = NoRecovery(rec)
    <3>1. r.start = NoStamp /\ r.fade = NoStamp
      <4>1. NoRecovery(rec).start = NoStamp /\ NoRecovery(rec).fade = NoStamp
        BY Zenon, <1>2, NoRecoveryFields
      <4>2. QED
        BY <2>2, <4>1
    <3>2. QED
      BY Zenon, <3>1 DEF Switched, SameClocks
  <2>3. QED
    BY Zenon, <1>4, <2>1, <2>2
<1>12. w.lastFloat <= w.added /\ w.added = rec.added
  <2>1. rec.lastFloat <= rec.added /\ NoStamp <= rec.added
    BY <1>2, <1>7 DEF Behind, Clock, NoStamp
  <2>2. QED
    BY Zenon, <1>4, <1>7, <2>1
<1>13. ASSUME ramp > 0, NEW b \in 1..Len(tried), Stage(tried, rec, b, queue, newest, ramp)
       PROVE  Stage(tried', w, b, queue', newest, ramp)
  <2>0. m.t \in Int
    BY <1>3
  <2>1. Stage(tried, r, b, queue', newest, ramp)
    BY Zenon, <1>2, <1>3, <1>4, <1>13, <2>0, StageWeighed
  <2>2. Stage(tried', r, b, queue', newest, ramp)
    BY Zenon, <1>2, <1>10, <2>1, StageNoted
  <2>3. QED
    BY Zenon, <2>2, StageSame
<1>14. Trusted(tried', w, queue', newest, ramp)
  BY Zenon, <1>1, <1>2, <1>3, <1>10, <1>11, <1>12, <1>13, SoundKept
<1>15. QED
  BY Zenon, <1>5, <1>14 DEF RecoveryInv

-----------------------------------------------------------------------------
(* A factor is added.                                                        *)

LEMMA TwoKinds == \A z \in {"fixed", "float"} : z = "fixed" \/ z = "float"
OBVIOUS

LEMMA FactorStamps ==
  ASSUME NEW s \in Seq(Entry), NEW t, NEW x, Grows(s, t, x), x.kind = "factor",
         NEW a \in Clock, NewestFactor(s, a), a < x.t
  PROVE  NewestFactor(t, x.t)
<1>1. /\ Len(s) \in Nat /\ Len(t) \in Nat /\ Len(t) = Len(s) + 1 /\ t[Len(t)] = x /\ x.t \in Nat
      /\ \A i \in 1..Len(s) : t[i] = s[i]
  BY SameEarlier
<1>2. FactorAt(t, Len(t)) /\ t[Len(t)].t = x.t /\ Len(t) \in 1..Len(t)
  BY <1>1 DEF FactorAt
<1>3. ASSUME NEW j \in 1..Len(t), FactorAt(t, j) PROVE t[j].t <= x.t
  <2>1. CASE j = Len(t)
    BY <1>1, <2>1
  <2>2. CASE j # Len(t)
    <3>1. j \in 1..Len(s) /\ t[j] = s[j] /\ s[j].t \in Nat
      BY <1>1, <2>2, EntryAt
    <3>2. s[j].t <= a
      BY <1>3, <3>1 DEF NewestFactor, FactorAt
    <3>3. a \in Int
      BY DEF Clock, NoStamp
    <3>4. QED
      BY <1>1, <3>1, <3>2, <3>3
  <2>3. QED
    BY <2>1, <2>2
<1>4. x.t # NoStamp
  BY <1>1 DEF NoStamp
<1>5. QED
  BY Zenon, <1>2, <1>3, <1>4 DEF NewestFactor

LEMMA RowStarts ==
  ASSUME NEW s \in Seq(Entry), NEW t, NEW x, Grows(s, t, x), x.kind = "factor", x.q = "fixed"
  PROVE  RowIn(t, 1, Len(t), Len(t))
<1>1. Len(t) \in Nat /\ t[Len(t)] = x
  BY SameEarlier
<1> DEFINE row == [k \in 1..1 |-> Len(t)]
<1>2. row \in [1..1 -> Len(t)..Len(t)] /\ \A k \in 1..1 : row[k] = Len(t)
  BY <1>1
<1> HIDE DEF row
<1>3. /\ row[1] = Len(t)
      /\ \A k \in 1..1 : FactorAt(t, row[k]) /\ t[row[k]].q = "fixed"
  BY <1>1, <1>2 DEF FactorAt
<1>4. \A k \in 2..1 : FALSE
  OBVIOUS
<1>5. QED
  BY Zenon, <1>2, <1>3, <1>4 DEF RowIn

LEMMA OneMore == \A a, l \in Nat : \A j \in a..(l + 1) : j \in a..l \/ j = l + 1
OBVIOUS

LEMMA RowExtends ==
  ASSUME NEW s \in Seq(Entry), NEW t, NEW x, Grows(s, t, x), x.kind = "factor", x.q = "fixed",
         NEW b \in 1..Len(s), NEW e \in b..Len(s), NEW c \in Nat \ {0}, RowIn(s, c, b, e),
         \A j \in e..Len(s) : Streaky(s, j), x.t - s[e].t <= FixedGap
  PROVE  RowIn(t, c + 1, b, Len(t))
<1>1. /\ Len(s) \in Nat /\ Len(t) \in Nat /\ Len(t) = Len(s) + 1 /\ t[Len(t)] = x
      /\ \A i \in 1..Len(s) : t[i] = s[i]
  BY SameEarlier
<1>2. RowIn(t, c, b, e)
  BY RowStays
<1>3. PICK old \in [1..c -> b..e] :
        /\ old[c] = e
        /\ \A k \in 1..c : FactorAt(t, old[k]) /\ t[old[k]].q = "fixed"
        /\ \A k \in 2..c : /\ old[k - 1] < old[k]
                           /\ t[old[k]].t - t[old[k - 1]].t <= FixedGap
                           /\ \A j \in old[k - 1]..old[k] : Streaky(t, j)
  BY Zenon, <1>2 DEF RowIn
<1> DEFINE row == [k \in 1..(c + 1) |-> IF k <= c THEN old[k] ELSE Len(t)]
<1>4. /\ row \in [1..(c + 1) -> b..Len(t)]
      /\ \A k \in 1..c : row[k] = old[k]
      /\ row[c + 1] = Len(t)
  BY <1>1, <1>3
<1> HIDE DEF row
<1>5. FactorAt(t, Len(t)) /\ t[Len(t)].q = "fixed"
  BY <1>1 DEF FactorAt
<1>6. ASSUME NEW k \in 1..(c + 1) PROVE FactorAt(t, row[k]) /\ t[row[k]].q = "fixed"
  <2>1. CASE k = c + 1
    BY Zenon, <1>4, <1>5, <2>1
  <2>2. CASE k # c + 1
    <3>1. k \in 1..c
      BY <2>2
    <3>2. QED
      BY Zenon, <1>3, <1>4, <3>1
  <2>3. QED
    BY <2>1, <2>2
<1>7. \A j \in e..Len(t) : Streaky(t, j)
  <2>1. \A j \in e..Len(s) : Streaky(t, j)
    <3>1. \A j \in e..Len(s) : Streaky(s, j) /\ t[j] = s[j]
      BY <1>1
    <3>2. QED
      BY Zenon, <3>1 DEF Streaky, FactorAt
  <2>2. Streaky(t, Len(t))
    BY <1>5 DEF Streaky
  <2>3. \A j \in e..Len(t) : j \in e..Len(s) \/ j = Len(t)
    <3>1. e \in Nat /\ Len(s) \in Nat /\ Len(t) = Len(s) + 1
      BY <1>1
    <3>2. QED
      BY Zenon, <3>1, OneMore
  <2>4. QED
    BY Zenon, <2>1, <2>2, <2>3
<1>8. ASSUME NEW k \in 2..(c + 1)
      PROVE  /\ row[k - 1] < row[k]
             /\ t[row[k]].t - t[row[k - 1]].t <= FixedGap
             /\ \A j \in row[k - 1]..row[k] : Streaky(t, j)
  <2>1. CASE k = c + 1
    <3>1. k - 1 = c /\ c \in 1..c
      BY <2>1
    <3>2. row[k] = Len(t) /\ row[k - 1] = e
      BY Zenon, <1>3, <1>4, <2>1, <3>1
    <3>3. e < Len(t) /\ t[e] = s[e]
      BY <1>1
    <3>4. t[Len(t)].t - t[e].t <= FixedGap
      BY <1>1, <3>3
    <3>5. QED
      BY Zenon, <1>7, <3>2, <3>3, <3>4
  <2>2. CASE k # c + 1
    <3>1. k \in 2..c /\ k \in 1..c /\ k - 1 \in 1..c
      BY <2>2
    <3>2. row[k] = old[k] /\ row[k - 1] = old[k - 1]
      BY Zenon, <1>4, <3>1
    <3>3. QED
      BY Zenon, <1>3, <3>1, <3>2
  <2>3. QED
    BY <2>1, <2>2
<1>9. QED
  BY Zenon, <1>4, <1>6, <1>8 DEF RowIn

\* The first factor after an outage begins the counters.
LEMMA StageBegins ==
  ASSUME NEW s \in Seq(Entry), NEW t, NEW x, Grows(s, t, x), x.kind = "factor",
         NEW w \in RecSet, w.start = x.t, w.fade = NoStamp,
         w.lastFixed # NoStamp => x.q = "fixed" /\ w.fixed = 1 /\ w.lastFixed = x.t,
         x.q = "float" => w.lastFloat = x.t, NEW q, NEW n, NEW p
  PROVE  Stage(t, w, Len(t), q, n, p)
<1> USE RecoveryAssumption
<1>1. Len(t) \in Nat /\ t[Len(t)] = x /\ x.t \in Nat
  BY SameEarlier
<1>2. \A j \in Len(t)..Len(t) : j = Len(t)
  BY <1>1
<1>3. w.start # NoStamp
  BY <1>1 DEF NoStamp
<1>4. FloatsCounted(t, w, Len(t))
  <2>1. FloatAt(t, Len(t)) => t[Len(t)].t <= w.lastFloat
    BY <1>1 DEF FloatAt
  <2>2. QED
    BY Zenon, <1>2, <2>1 DEF FloatsCounted
<1>5. StreakCounted(t, w, Len(t))
  <2>1. SUFFICES ASSUME w.lastFixed # NoStamp
                 PROVE  /\ w.fixed \in 1..(ConfirmFactors - 1)
                        /\ \E e \in Len(t)..Len(t) :
                             /\ RowIn(t, w.fixed, Len(t), e) /\ t[e].t = w.lastFixed
                             /\ \A j \in e..Len(t) : Streaky(t, j)
    BY Zenon DEF StreakCounted
  <2>2. w.fixed \in 1..(ConfirmFactors - 1) /\ Len(t) \in Len(t)..Len(t)
    BY <1>1, <2>1
  <2>3. RowIn(t, w.fixed, Len(t), Len(t)) /\ t[Len(t)].t = w.lastFixed
    BY Zenon, <1>1, <2>1, RowStarts
  <2>4. Streaky(t, Len(t))
    BY <1>1, <2>1 DEF Streaky
  <2>5. QED
    BY Zenon, <1>2, <2>2, <2>3, <2>4
<1>6. QED
  BY Zenon, <1>3, <1>4, <1>5 DEF Stage, Fades

\* w is r after a fixed factor at t, the c-th in a row
CountsFixed(r, t, c, w) ==
  /\ w \in RecSet /\ w.start = r.start /\ w.fixed = c /\ w.lastFixed = t
  /\ w.added = r.added /\ w.candidates = r.candidates /\ w.candStamp = r.candStamp
  /\ c < ConfirmFactors => w.fade = r.fade /\ w.lastFloat = r.lastFloat
  /\ ~(c < ConfirmFactors) => w.fade = t /\ w.lastFloat = NoStamp
  /\ \/ c = 1
     \/ c = r.fixed + 1 /\ r.lastFixed # NoStamp /\ t - r.lastFixed <= FixedGap

LEMMA FixedCounts ==
  ASSUME NEW r \in RecSet, NEW t \in Nat
  PROVE  CountsFixed(r, t, Streak(r, t), Fixed(r, t))
<1>0. SUFFICES ASSUME NEW c, c = Streak(r, t), NEW w, w = Fixed(r, t)
               PROVE  CountsFixed(r, t, c, w)
  BY Zenon
<1> USE RecoveryAssumption
<1>1. c \in Nat
  BY <1>0 DEF Streak, RecSet
<1>2. \/ c = 1
      \/ c = r.fixed + 1 /\ r.lastFixed # NoStamp /\ t - r.lastFixed <= FixedGap
  BY <1>0 DEF Streak
<1>3. w = [r EXCEPT !.fixed = c, !.lastFixed = t,
                    !.fade = IF c < ConfirmFactors THEN @ ELSE t,
                    !.lastFloat = IF c < ConfirmFactors THEN @ ELSE NoStamp]
  BY Zenon, <1>0 DEF Fixed
<1>4. CASE c < ConfirmFactors
  <2>1. w = [r EXCEPT !.fixed = c, !.lastFixed = t]
    BY <1>3, <1>4 DEF RecSet
  <2>2. /\ w \in RecSet /\ w.start = r.start /\ w.fixed = c /\ w.lastFixed = t
        /\ w.added = r.added /\ w.candidates = r.candidates /\ w.candStamp = r.candStamp
        /\ w.fade = r.fade /\ w.lastFloat = r.lastFloat
    BY <1>1, <2>1 DEF RecSet, Clock
  <2>3. QED
    BY Zenon, <1>2, <1>4, <2>2 DEF CountsFixed
<1>5. CASE ~(c < ConfirmFactors)
  <2>1. w = [r EXCEPT !.fixed = c, !.lastFixed = t, !.fade = t, !.lastFloat = NoStamp]
    BY <1>3, <1>5 DEF RecSet
  <2>2. /\ w \in RecSet /\ w.start = r.start /\ w.fixed = c /\ w.lastFixed = t
        /\ w.added = r.added /\ w.candidates = r.candidates /\ w.candStamp = r.candStamp
        /\ w.fade = t /\ w.lastFloat = NoStamp
    BY <1>1, <2>1 DEF RecSet, Clock, NoStamp
  <2>3. QED
    BY Zenon, <1>2, <1>5, <2>2 DEF CountsFixed
<1>6. QED
  BY Zenon, <1>4, <1>5

LEMMA FloatFields ==
  ASSUME NEW r \in RecSet, NEW t \in Nat, NEW w,
         w = [r EXCEPT !.lastFixed = NoStamp, !.fixed = 0, !.lastFloat = t]
  PROVE  /\ w \in RecSet /\ w.start = r.start /\ w.fade = r.fade
         /\ w.lastFixed = NoStamp /\ w.lastFloat = t
         /\ w.added = r.added /\ w.candidates = r.candidates /\ w.candStamp = r.candStamp
BY DEF RecSet, Clock, NoStamp

\* A factor that begins nothing leaves the stage right.
LEMMA StageGoesOn ==
  ASSUME NEW s \in Seq(Entry), NEW t, NEW x, Grows(s, t, x), x.kind = "factor",
         NEW m \in Queued, x.t = m.t, x.q = m.q,
         NEW r \in RecSet, r.start = NoStamp => r.fade = NoStamp,
         NEW b \in 1..Len(s), NEW q, NEW n, NEW p,
         Stage(s, r, b, q, n, p), r.lastFloat < m.t
  PROVE  Stage(t, AcceptedFactor(r, m), b, q, n, p)
<1> USE RecoveryAssumption
<1>0. PICK w : w = AcceptedFactor(r, m)
  OBVIOUS
<1>1. /\ Len(s) \in Nat /\ Len(t) \in Nat /\ Len(t) = Len(s) + 1 /\ t[Len(t)] = x
      /\ x.t \in Nat /\ \A i \in 1..Len(s) : t[i] = s[i]
  BY SameEarlier
<1>2. m.t \in Nat /\ m.q \in {"fixed", "float"}
  BY DEF Queued
<1>3. \A e \in b..Len(s) : e \in b..Len(t) /\ t[e] = s[e] /\ (FullRow(s, b, e) => FullRow(t, b, e))
  <2>1. \A e \in b..Len(s) : e \in b..Len(t) /\ t[e] = s[e]
    BY <1>1
  <2>2. ConfirmFactors \in Nat \ {0}
    OBVIOUS
  <2>3. QED
    BY Zenon, <2>1, <2>2, RowStays DEF FullRow
<1>4. r.fade = NoStamp \/ Fades(t, r, b)
  BY Zenon, <1>3 DEF Stage, Fades
<1>5. r.start = NoStamp => Faded(t, b, q, n, p)
  BY Zenon, <1>3 DEF Stage, Faded
<1>6. Len(t) \in b..Len(t) /\ \A j \in b..Len(t) : j \in b..Len(s) \/ j = Len(t)
  BY SMTT(30), <1>1
<1>7. ASSUME ~Recovering(r) PROVE Stage(t, w, b, q, n, p)
  <2>1. w = r
    BY Zenon, <1>0, <1>7 DEF AcceptedFactor
  <2>2. Fades(t, r, b)
    BY Zenon, <1>4 DEF Fades
  <2>3. Stage(t, r, b, q, n, p)
    BY Zenon, <1>5, <1>7, <2>2 DEF Stage
  <2>4. QED
    BY Zenon, <2>1, <2>3
<1>8. ASSUME Recovering(r), m.q = "float" PROVE Stage(t, w, b, q, n, p)
  <2>1. w = [r EXCEPT !.lastFixed = NoStamp, !.fixed = 0, !.lastFloat = m.t]
    BY <1>0, <1>8 DEF AcceptedFactor
  <2>2. /\ w.start = r.start /\ w.fade = r.fade /\ w.lastFixed = NoStamp /\ w.lastFloat = m.t
    BY <1>2, <2>1 DEF RecSet
  <2>3. r.start # NoStamp /\ r.fade = NoStamp /\ FloatsCounted(s, r, b)
    BY Zenon, <1>8 DEF Recovering, Stage
  <2>4. ASSUME NEW j \in b..Len(t), FloatAt(t, j) PROVE t[j].t <= m.t
    <3>1. CASE j = Len(t)
      BY <1>1, <1>2, <3>1
    <3>2. CASE j \in b..Len(s)
      <4>1. t[j] = s[j] /\ FloatAt(s, j)
        BY <1>3, <2>4, <3>2 DEF FloatAt, FactorAt
      <4>2. t[j].t <= r.lastFloat
        BY Zenon, <2>3, <3>2, <4>1 DEF FloatsCounted
      <4>3. j \in 1..Len(s)
        BY <3>2
      <4>4. t[j].t \in Nat /\ r.lastFloat \in Int
        BY <4>1, <4>3, EntryAt, RecTypes
      <4>5. QED
        BY SMTT(30), <1>2, <4>2, <4>4
    <3>3. QED
      BY <1>6, <3>1, <3>2
  <2>5. FloatsCounted(t, w, b) /\ StreakCounted(t, w, b) /\ Fades(t, w, b)
    BY Zenon, <2>2, <2>3, <2>4 DEF FloatsCounted, StreakCounted, Fades
  <2>6. QED
    BY Zenon, <2>2, <2>3, <2>5 DEF Stage
<1>9. ASSUME Recovering(r), m.q = "fixed" PROVE Stage(t, w, b, q, n, p)
  <2>1. PICK c : c = Streak(r, m.t)
    OBVIOUS
  <2>2. w = Fixed(r, m.t)
    BY <1>0, <1>9 DEF AcceptedFactor
  <2>3. /\ w.start = r.start /\ w.fixed = c /\ w.lastFixed = m.t
        /\ c < ConfirmFactors => w.fade = r.fade /\ w.lastFloat = r.lastFloat
        /\ ~(c < ConfirmFactors) => w.fade = m.t /\ w.lastFloat = NoStamp
        /\ \/ c = 1
           \/ c = r.fixed + 1 /\ r.lastFixed # NoStamp /\ m.t - r.lastFixed <= FixedGap
    <3>1. CountsFixed(r, m.t, Streak(r, m.t), Fixed(r, m.t))
      BY Zenon, <1>2, FixedCounts
    <3>2. CountsFixed(r, m.t, c, w)
      BY Zenon, <2>1, <2>2, <3>1
    <3>3. QED
      BY Zenon, <3>2 DEF CountsFixed
  <2>4. /\ r.start # NoStamp /\ r.fade = NoStamp
        /\ FloatsCounted(s, r, b) /\ StreakCounted(s, r, b)
    BY Zenon, <1>9 DEF Recovering, Stage
  <2>5. c \in 1..ConfirmFactors /\ RowIn(t, c, b, Len(t))
    <3>1. CASE c = 1
      <4>1. RowIn(t, 1, Len(t), Len(t))
        BY Zenon, <1>9, RowStarts
      <4>2. PICK row \in [1..1 -> Len(t)..Len(t)] :
              /\ row[1] = Len(t)
              /\ \A k \in 1..1 : FactorAt(t, row[k]) /\ t[row[k]].q = "fixed"
        BY Zenon, <4>1 DEF RowIn
      <4>3. row \in [1..1 -> b..Len(t)] /\ \A k \in 2..1 : FALSE
        BY <1>1
      <4>4. RowIn(t, 1, b, Len(t))
        BY Zenon, <4>2, <4>3 DEF RowIn
      <4>5. QED
        BY <3>1, <4>4
    <3>2. ASSUME c = r.fixed + 1, r.lastFixed # NoStamp, m.t - r.lastFixed <= FixedGap
          PROVE  c \in 1..ConfirmFactors /\ RowIn(t, c, b, Len(t))
      <4>1. PICK e \in b..Len(s) : /\ RowIn(s, r.fixed, b, e) /\ s[e].t = r.lastFixed
                                   /\ \A j \in e..Len(s) : Streaky(s, j)
        BY Zenon, <2>4, <3>2 DEF StreakCounted
      <4>2. r.fixed \in 1..(ConfirmFactors - 1)
        BY Zenon, <2>4, <3>2 DEF StreakCounted
      <4>3. PICK f \in Nat \ {0} : f = r.fixed
        BY <4>2
      <4>4. RowIn(t, f + 1, b, Len(t))
        BY Zenon, <1>9, <3>2, <4>1, <4>3, RowExtends
      <4>5. c = f + 1 /\ f <= ConfirmFactors - 1
        BY <3>2, <4>2, <4>3
      <4>6. QED
        BY SMTT(30), <4>3, <4>4, <4>5
    <3>3. QED
      BY Zenon, <2>3, <3>1, <3>2
  <2>6. CASE c < ConfirmFactors
    <3>1. w.fade = NoStamp /\ w.lastFloat = r.lastFloat
      BY Zenon, <2>3, <2>4, <2>6
    <3>2. ~FloatAt(t, Len(t)) /\ Streaky(t, Len(t))
      BY <1>1, <1>9 DEF FloatAt, Streaky
    <3>3. FloatsCounted(t, w, b)
      <4>1. \A j \in b..Len(t) : FloatAt(t, j) => j \in b..Len(s) /\ FloatAt(s, j) /\ t[j] = s[j]
        BY <1>3, <1>6, <3>2 DEF FloatAt, FactorAt
      <4>2. QED
        BY Zenon, <2>4, <3>1, <4>1 DEF FloatsCounted
    <3>4. StreakCounted(t, w, b)
      <4>1. c \in 1..(ConfirmFactors - 1) /\ \A j \in Len(t)..Len(t) : j = Len(t)
        BY <1>1, <2>5, <2>6
      <4>2. t[Len(t)].t = w.lastFixed
        BY Zenon, <1>1, <2>3
      <4>3. QED
        BY Zenon, <1>6, <2>3, <2>5, <3>2, <4>1, <4>2 DEF StreakCounted
    <3>5. QED
      BY Zenon, <2>3, <2>4, <3>1, <3>3, <3>4 DEF Stage, Fades
  <2>7. CASE ~(c < ConfirmFactors)
    <3>1. c = ConfirmFactors /\ ~(c < ConfirmFactors)
      BY <2>5, <2>7
    <3>2. w.fade = m.t /\ m.t # NoStamp
      BY <1>2, <2>3, <3>1 DEF NoStamp
    <3>3. FullRow(t, b, Len(t)) /\ t[Len(t)].t = w.fade
      BY Zenon, <1>1, <2>5, <3>1, <3>2 DEF FullRow
    <3>4. Fades(t, w, b)
      BY Zenon, <1>6, <3>3 DEF Fades
    <3>5. QED
      BY Zenon, <2>3, <2>4, <3>2, <3>4 DEF Stage, Recovering
  <2>8. QED
    BY <2>6, <2>7
<1>10. QED
  BY Zenon, <1>0, <1>2, <1>7, <1>8, <1>9, TwoKinds

LEMMA AcceptedFields ==
  ASSUME NEW r \in RecSet, NEW m \in Queued
  PROVE  LET w == AcceptedFactor(r, m)
         IN  /\ w \in RecSet /\ w.start = r.start /\ w.added = r.added
             /\ w.candidates = r.candidates /\ w.candStamp = r.candStamp
             /\ w.lastFloat = m.t \/ w.lastFloat = NoStamp \/ w.lastFloat = r.lastFloat
             /\ r.start = NoStamp => w = r
<1> USE RecoveryAssumption
<1>1. SUFFICES ASSUME NEW w, w = AcceptedFactor(r, m)
               PROVE  /\ w \in RecSet /\ w.start = r.start /\ w.added = r.added
                      /\ w.candidates = r.candidates /\ w.candStamp = r.candStamp
                      /\ w.lastFloat = m.t \/ w.lastFloat = NoStamp \/ w.lastFloat = r.lastFloat
                      /\ r.start = NoStamp => w = r
  BY Zenon
<1>2. m.t \in Nat /\ m.q \in {"fixed", "float"}
  BY DEF Queued
<1>3. CASE ~Recovering(r)
  <2>1. w = r
    BY Zenon, <1>1, <1>3 DEF AcceptedFactor
  <2>2. QED
    BY Zenon, <2>1
<1>4. ASSUME Recovering(r), m.q = "fixed"
      PROVE  /\ w \in RecSet /\ w.start = r.start /\ w.added = r.added
             /\ w.candidates = r.candidates /\ w.candStamp = r.candStamp
             /\ w.lastFloat = NoStamp \/ w.lastFloat = r.lastFloat
  <2>1. w = Fixed(r, m.t)
    BY <1>1, <1>4 DEF AcceptedFactor
  <2>2. CountsFixed(r, m.t, Streak(r, m.t), Fixed(r, m.t))
    BY Zenon, <1>2, FixedCounts
  <2>3. CountsFixed(r, m.t, Streak(r, m.t), w)
    BY Zenon, <2>1, <2>2
  <2>4. QED
    BY Zenon, <2>3 DEF CountsFixed
<1>5. ASSUME Recovering(r), m.q = "float"
      PROVE  /\ w \in RecSet /\ w.start = r.start /\ w.added = r.added
             /\ w.candidates = r.candidates /\ w.candStamp = r.candStamp
             /\ w.lastFloat = m.t
  <2>1. w = [r EXCEPT !.lastFixed = NoStamp, !.fixed = 0, !.lastFloat = m.t]
    BY <1>1, <1>5 DEF AcceptedFactor
  <2>2. QED
    BY <1>2, <2>1 DEF RecSet, Clock, NoStamp
<1>6. Recovering(r) => r.start # NoStamp
  BY Zenon DEF Recovering
<1>7. QED
  BY Zenon, <1>2, <1>3, <1>4, <1>5, <1>6, TwoKinds

\* w are the clocks of a recovery that begins with a factor at t
BeginsAt(t, w) ==
  /\ w \in RecSet /\ w.start = t /\ w.fade = NoStamp /\ w.lastFixed = NoStamp
  /\ w.lastFloat = NoStamp

LEMMA BeginFields ==
  ASSUME NEW r \in RecSet, NEW t \in Nat
  PROVE  LET w == [NoRecovery(r) EXCEPT !.start = t]
         IN  BeginsAt(t, w) /\ w.added = r.added /\ w.candidates = r.candidates
             /\ w.candStamp = r.candStamp
<1>1. PICK z \in RecSet : z = NoRecovery(r)
  BY NoRecoveryFields
<1>2. /\ z.fade = NoStamp /\ z.lastFixed = NoStamp /\ z.lastFloat = NoStamp /\ z.added = r.added
      /\ z.candidates = r.candidates /\ z.candStamp = r.candStamp
  BY <1>1, NoRecoveryFields
<1>3. PICK w : w = [z EXCEPT !.start = t]
  OBVIOUS
<1>4. /\ w \in RecSet /\ w.start = t /\ w.fade = z.fade /\ w.lastFixed = z.lastFixed
      /\ w.lastFloat = z.lastFloat /\ w.added = z.added /\ w.candidates = z.candidates
      /\ w.candStamp = z.candStamp
  BY <1>1, <1>3 DEF RecSet, Clock
<1>5. w = [NoRecovery(r) EXCEPT !.start = t]
  BY Zenon, <1>1, <1>3
<1>6. BeginsAt(t, w) /\ w.added = r.added /\ w.candidates = r.candidates
      /\ w.candStamp = r.candStamp
  BY Zenon, <1>2, <1>4 DEF BeginsAt
<1>7. QED
  BY Zenon, <1>5, <1>6

LEMMA BeginAccepts ==
  ASSUME NEW m \in Queued, NEW r, BeginsAt(m.t, r)
  PROVE  LET w == AcceptedFactor(r, m)
         IN  /\ w.start = m.t /\ w.fade = NoStamp
             /\ w.lastFixed # NoStamp => m.q = "fixed" /\ w.fixed = 1 /\ w.lastFixed = m.t
             /\ m.q = "float" => w.lastFloat = m.t
<1> USE RecoveryAssumption
<1>1. SUFFICES ASSUME NEW w, w = AcceptedFactor(r, m)
               PROVE  /\ w.start = m.t /\ w.fade = NoStamp
                      /\ w.lastFixed # NoStamp => m.q = "fixed" /\ w.fixed = 1 /\ w.lastFixed = m.t
                      /\ m.q = "float" => w.lastFloat = m.t
  BY Zenon
<1>2. m.t \in Nat /\ m.q \in {"fixed", "float"}
  BY DEF Queued
<1>3. /\ r \in RecSet /\ r.start = m.t /\ r.fade = NoStamp /\ r.lastFixed = NoStamp
      /\ r.lastFloat = NoStamp
  BY Zenon DEF BeginsAt
<1>4. m.t # NoStamp
  BY <1>2 DEF NoStamp
<1>5. Recovering(r)
  BY Zenon, <1>3, <1>4 DEF Recovering
<1>6. ASSUME m.q = "fixed"
      PROVE  w.start = m.t /\ w.fade = NoStamp /\ w.fixed = 1 /\ w.lastFixed = m.t
  <2>1. w = Fixed(r, m.t)
    BY <1>1, <1>5, <1>6 DEF AcceptedFactor
  <2>2. CountsFixed(r, m.t, Streak(r, m.t), Fixed(r, m.t))
    BY Zenon, <1>2, <1>3, FixedCounts
  <2>3. Streak(r, m.t) = 1
    BY Zenon, <1>3 DEF Streak
  <2>4. CountsFixed(r, m.t, 1, w)
    BY Zenon, <2>1, <2>2, <2>3
  <2>5. 1 < ConfirmFactors
    OBVIOUS
  <2>6. QED
    BY Zenon, <1>3, <2>4, <2>5 DEF CountsFixed
<1>7. ASSUME m.q = "float"
      PROVE  w.start = m.t /\ w.fade = NoStamp /\ w.lastFixed = NoStamp /\ w.lastFloat = m.t
  <2>1. w = [r EXCEPT !.lastFixed = NoStamp, !.fixed = 0, !.lastFloat = m.t]
    BY <1>1, <1>5, <1>7 DEF AcceptedFactor
  <2>2. QED
    BY <1>2, <1>3, <2>1 DEF RecSet
<1>8. "fixed" # "float"
  OBVIOUS
<1>9. QED
  BY Zenon, <1>2, <1>6, <1>7, <1>8, TwoKinds

\* A factor beyond the gate follows enough candidates.
LEMMA JumpEarned ==
  ASSUME NEW s \in Seq(Entry), NEW t, NEW x, Grows(s, t, x), x.kind = "factor", x.q = "fixed",
         NEW a \in Clock, NewestFactor(s, a), a # NoStamp, x.t - a > GapThreshold,
         NEW c \in Nat, c >= ConfirmFactors, CandidateRow(s, c - 1),
         x.t - s[Len(s)].t <= FixedGap,
         Differs(x.residual, s[Len(s)].residual) <= Consistency
  PROVE  JumpIn(t, Len(t))
<1> USE RecoveryAssumption
<1>1. /\ Len(s) \in Nat /\ Len(t) \in Nat /\ Len(t) = Len(s) + 1 /\ t[Len(t)] = x
      /\ x.t \in Nat /\ \A i \in 1..Len(s) : t[i] = s[i]
  BY SameEarlier
<1>2. FactorAt(t, Len(t))
  BY <1>1 DEF FactorAt
<1>3. OutageAt(t, Len(t), Len(s))
  BY Zenon, <1>2, Resumption
<1>4. c - 1 <= Len(s) /\ c >= 2
  BY DEF CandidateRow
<1>5. ASSUME NEW j \in (Len(t) - ConfirmFactors + 1)..Len(t)
      PROVE  /\ j >= 1 /\ t[j].q = "fixed"
             /\ t[j].kind = (IF j = Len(t) THEN "factor" ELSE "candidate")
             /\ OutageAt(t, j, Len(t) - 1)
  <2>1. Len(t) - 1 = Len(s) /\ Len(t) >= 1
    BY <1>1
  <2>2. CASE j = Len(t)
    BY <1>1, <1>3, <2>1, <2>2
  <2>3. CASE j # Len(t)
    <3>1. j \in 1..Len(s) /\ j \in (Len(s) - (c - 1) + 1)..Len(s)
      <4>1. \A l, n, k \in Nat : k - 1 <= l /\ n <= k =>
              \A i \in (l + 1 - n + 1)..(l + 1) :
                i # l + 1 => i \in 1..l /\ i \in (l - (k - 1) + 1)..l
        OBVIOUS
      <4>2. Len(s) \in Nat /\ c - 1 <= Len(s) /\ ConfirmFactors \in Nat /\ ConfirmFactors <= c
        BY <1>1, <1>4
      <4>3. j \in (Len(s) + 1 - ConfirmFactors + 1)..(Len(s) + 1) /\ j # Len(s) + 1
        BY <1>1, <2>3
      <4>4. QED
        BY Zenon, <4>1, <4>2, <4>3
    <3>2. t[j] = s[j] /\ s[j].kind = "candidate" /\ s[j].q = "fixed" /\ OutageAt(s, j, Len(s))
      BY Zenon, <1>1, <3>1 DEF CandidateRow
    <3>3. OutageAt(t, j, Len(s))
      BY <1>1, <3>2 DEF OutageAt, FactorAt
    <3>4. j >= 1
      BY <3>1
    <3>5. QED
      BY Zenon, <2>1, <2>3, <3>2, <3>3, <3>4
  <2>4. QED
    BY <2>2, <2>3
<1>6. ASSUME NEW j \in (Len(t) - ConfirmFactors + 2)..Len(t)
      PROVE  /\ t[j].t - t[j - 1].t <= FixedGap
             /\ Differs(t[j].residual, t[j - 1].residual) <= Consistency
  <2>1. Len(s) \in 1..Len(s)
    BY <1>1, <1>4
  <2>2. CASE j = Len(t)
    <3>1. j - 1 = Len(s) /\ t[j] = x
      BY <1>1, <2>2
    <3>2. t[j - 1] = s[Len(s)]
      BY Zenon, <1>1, <2>1, <3>1
    <3>3. QED
      BY Zenon, <3>1, <3>2
  <2>3. CASE j # Len(t)
    <3>1. j \in 1..Len(s) /\ j - 1 \in 1..Len(s) /\ j \in (Len(s) - (c - 1) + 2)..Len(s)
      BY <1>1, <1>4, <2>3
    <3>2. t[j] = s[j] /\ t[j - 1] = s[j - 1]
      BY Zenon, <1>1, <3>1
    <3>3. QED
      BY Zenon, <3>1, <3>2 DEF CandidateRow
  <2>4. QED
    BY <2>2, <2>3
<1>7. QED
  BY Zenon, <1>5, <1>6 DEF JumpIn

LEMMA InflationIs ==
  ASSUME rec \in RecSet, ramp \in Nat, NEW t \in Nat
  PROVE  /\ Inflation(t) \in Int
         /\ Outage(t) \/ Recovering(rec) => Inflation(t) = ramp
         /\ ~Outage(t) /\ ~Recovering(rec) /\ rec.fade # NoStamp /\ t - rec.fade < ramp
              => Inflation(t) = ramp - (t - rec.fade)
         /\ ~Outage(t) /\ ~Recovering(rec) /\ (rec.fade # NoStamp => ~(t - rec.fade < ramp))
              => Inflation(t) = 0
<1>1. rec.fade # NoStamp => rec.fade \in Nat
  BY DEF RecSet, Clock
<1>2. CASE Outage(t) \/ Recovering(rec)
  <2>1. Inflation(t) = ramp
    BY <1>2 DEF Inflation, Recovering
  <2>2. ramp \in Int
    OBVIOUS
  <2>3. QED
    BY Zenon, <1>2, <2>1, <2>2
<1>3. CASE ~(Outage(t) \/ Recovering(rec)) /\ rec.fade # NoStamp /\ t - rec.fade < ramp
  <2>1. Inflation(t) = ramp - (t - rec.fade)
    BY <1>3 DEF Inflation
  <2>2. ramp - (t - rec.fade) \in Int
    BY <1>1, <1>3
  <2>3. QED
    BY Zenon, <1>3, <2>1, <2>2
<1>4. CASE ~(Outage(t) \/ Recovering(rec)) /\ ~(rec.fade # NoStamp /\ t - rec.fade < ramp)
  <2>1. Inflation(t) = 0
    BY <1>4 DEF Inflation
  <2>2. 0 \in Int
    OBVIOUS
  <2>3. QED
    BY Zenon, <1>4, <2>1, <2>2
<1>5. QED
  BY Zenon, <1>2, <1>3, <1>4

\* Weight and distance of a factor that does not resume.
LEMMA FactorEarned ==
  ASSUME RecoveryInv, queue # <<>>, ~RateLimited(Head(queue)), NEW t, NEW x,
         Grows(tried, t, x), x.kind = "factor", x.t = Head(queue).t, x.q = Head(queue).q,
         x.inflation = Inflation(Head(queue).t), ~ResumesIn(t, Len(t)),
         NEW b \in 1..Len(tried), LastResumption(tried, b)
  PROVE  WeightIn(t, Len(t), b, ramp) /\ FloatsIn(t, Len(t), b, ramp)
<1> USE RecoveryAssumption
<1> DEFINE m == Head(queue)
<1>1. /\ tried \in Seq(Entry) /\ rec \in RecSet /\ queue \in Seq(Queued)
      /\ newest \in Nat /\ ramp \in Nat /\ Ascending(queue, newest)
      /\ NewestFactor(tried, rec.added) /\ Switched(rec, ramp)
      /\ Stages(tried, rec, queue, newest, ramp)
  BY Zenon DEF RecoveryInv, Trusted, Typed
<1>2. m.t \in Nat /\ \A e, d \in Int : Passed(queue, newest, e, d) => m.t - e >= d
  BY Zenon, <1>1, TakeOne
<1>3. /\ Len(tried) \in Nat /\ Len(t) \in Nat /\ Len(t) = Len(tried) + 1 /\ t[Len(t)] = x
      /\ Len(t) - 1 = Len(tried) /\ \A i \in 1..Len(tried) : t[i] = tried[i]
  BY <1>1, SameEarlier
<1>4. rec.added \in Clock
  BY <1>1, RecTypes
<1>5. ~Outage(m.t)
  <2>1. FactorAt(t, Len(t))
    BY Zenon, <1>3 DEF FactorAt
  <2>2. ~(rec.added # NoStamp /\ x.t - rec.added > GapThreshold)
    BY Zenon, <1>1, <1>4, <2>1, Resumption
  <2>3. QED
    BY Zenon, <2>2 DEF Outage
<1>6. \A e \in b..Len(tried) :
        /\ e \in b..(Len(t) - 1) /\ t[e] = tried[e] /\ tried[e].t \in Int
        /\ FullRow(tried, b, e) => FullRow(t, b, e)
  <2>1. \A e \in b..Len(tried) : e \in 1..Len(tried) /\ e \in b..(Len(t) - 1)
    BY <1>3
  <2>2. \A e \in b..Len(tried) : tried[e].t \in Int
    BY SMTT(30), <1>1, <2>1, EntryAt
  <2>3. ConfirmFactors \in Nat \ {0}
    OBVIOUS
  <2>4. QED
    BY Zenon, <1>1, <1>3, <2>1, <2>2, <2>3, RowStays DEF FullRow
<1>7. /\ x.inflation \in Int
      /\ Recovering(rec) => x.inflation = ramp
      /\ ~Recovering(rec) /\ rec.fade # NoStamp /\ m.t - rec.fade < ramp
           => x.inflation = ramp - (m.t - rec.fade)
      /\ ~Recovering(rec) /\ (rec.fade # NoStamp => ~(m.t - rec.fade < ramp))
           => x.inflation = 0
  BY Zenon, <1>1, <1>2, <1>5, InflationIs
<1>8. Stage(tried, rec, b, queue, newest, ramp) \/ ~(ramp > 0)
  BY Zenon, <1>1 DEF Stages
<1>9. CASE ~(ramp > 0)
  <2>1. ramp = 0 /\ rec.start = NoStamp /\ rec.fade = NoStamp
    BY <1>1, <1>9 DEF Switched
  <2>2. x.inflation = ramp
    BY Zenon, <1>7, <2>1 DEF Recovering
  <2>3. QED
    BY Zenon, <1>3, <1>9, <2>2 DEF WeightIn, FloatsIn
<1>10. ASSUME ramp > 0, Recovering(rec)
       PROVE  WeightIn(t, Len(t), b, ramp) /\ FloatsIn(t, Len(t), b, ramp)
  <2>1. WeightIn(t, Len(t), b, ramp)
    BY Zenon, <1>3, <1>7, <1>10 DEF WeightIn
  <2>2. FloatsCounted(tried, rec, b)
    BY Zenon, <1>8, <1>10 DEF Stage
  <2>3. ASSUME t[Len(t)].q = "float", NEW j \in b..(Len(t) - 1), FloatAt(t, j)
        PROVE  t[Len(t)].t - t[j].t >= FloatInterval
    <3>1. j \in b..Len(tried) /\ j \in 1..Len(tried)
      BY <1>3
    <3>2. t[j] = tried[j] /\ FloatAt(tried, j) /\ tried[j].t \in Nat
      BY <1>1, <1>3, <2>3, <3>1, EntryAt DEF FloatAt, FactorAt
    <3>3. tried[j].t <= rec.lastFloat
      BY Zenon, <2>2, <3>1, <3>2 DEF FloatsCounted
    <3>4. rec.lastFloat \in Nat /\ rec.lastFloat # NoStamp
      <4>1. rec.lastFloat \in Clock
        BY <1>1, RecTypes
      <4>2. \A a \in Nat, z \in Clock : a <= z => z \in Nat /\ z # NoStamp
        BY DEF Clock, NoStamp
      <4>3. QED
        BY Zenon, <3>2, <3>3, <4>1, <4>2
    <3>5. m.q = "float" /\ t[Len(t)].t = m.t
      BY Zenon, <1>3, <2>3
    <3>6. ~(m.t - rec.lastFloat < FloatInterval)
      BY Zenon, <1>10, <3>4, <3>5 DEF RateLimited
    <3>7. \A f, k, l, d \in Nat : ~(f - k < d) /\ l <= k => f - l >= d
      OBVIOUS
    <3>8. FloatInterval \in Nat
      OBVIOUS
    <3>9. QED
      BY Zenon, <1>2, <3>2, <3>3, <3>4, <3>5, <3>6, <3>7, <3>8
  <2>4. QED
    BY Zenon, <2>1, <2>3 DEF FloatsIn
<1>11. ASSUME ramp > 0, ~Recovering(rec)
       PROVE  WeightIn(t, Len(t), b, ramp) /\ FloatsIn(t, Len(t), b, ramp)
  <2>1. PICK e \in b..Len(tried) : /\ FullRow(tried, b, e)
                                   /\ ramp - x.inflation <= m.t - tried[e].t
    <3>1. CASE rec.fade # NoStamp
      <4>1. PICK e \in b..Len(tried) : FullRow(tried, b, e) /\ tried[e].t = rec.fade
        BY Zenon, <1>8, <1>11, <3>1 DEF Stage, Fades
      <4>2. rec.fade \in Nat
        BY <1>1, <3>1, RecTypes DEF Clock
      <4>3. ramp - x.inflation <= m.t - rec.fade
        <5>1. \A r, p, f \in Nat :
                /\ p - f < r => r - (r - (p - f)) <= p - f
                /\ ~(p - f < r) => r - 0 <= p - f
          OBVIOUS
        <5>2. CASE m.t - rec.fade < ramp
          <6>1. x.inflation = ramp - (m.t - rec.fade)
            BY Zenon, <1>7, <1>11, <3>1, <5>2
          <6>2. ramp - (ramp - (m.t - rec.fade)) <= m.t - rec.fade
            BY Zenon, <1>1, <1>2, <4>2, <5>1, <5>2
          <6>3. QED
            BY Zenon, <6>1, <6>2
        <5>3. CASE ~(m.t - rec.fade < ramp)
          <6>1. x.inflation = 0
            BY Zenon, <1>7, <1>11, <5>3
          <6>2. ramp - 0 <= m.t - rec.fade
            BY Zenon, <1>1, <1>2, <4>2, <5>1, <5>3
          <6>3. QED
            BY Zenon, <6>1, <6>2
        <5>4. QED
          BY Zenon, <5>2, <5>3
      <4>4. QED
        BY Zenon, <4>1, <4>3
    <3>2. CASE rec.fade = NoStamp
      <4>1. rec.start = NoStamp
        BY Zenon, <1>11, <3>2 DEF Recovering
      <4>2. PICK e \in b..Len(tried) : /\ FullRow(tried, b, e)
                                       /\ Passed(queue, newest, tried[e].t, ramp)
        BY Zenon, <1>8, <1>11, <4>1 DEF Stage, Faded
      <4>3. m.t - tried[e].t >= ramp /\ tried[e].t \in Int
        <5>1. tried[e].t \in Int /\ ramp \in Int
          BY <1>1, <1>6, <4>2
        <5>2. QED
          BY Zenon, <1>2, <4>2, <5>1
      <4>4. x.inflation = 0
        BY Zenon, <1>7, <1>11, <3>2
      <4>5. ramp - x.inflation <= m.t - tried[e].t
        BY <1>1, <1>2, <4>3, <4>4
      <4>6. QED
        BY Zenon, <4>2, <4>5
    <3>3. QED
      BY Zenon, <3>1, <3>2
  <2>2. e \in b..(Len(t) - 1) /\ t[e] = tried[e] /\ FullRow(t, b, e)
    BY Zenon, <1>6, <2>1
  <2>3. QED
    BY Zenon, <1>3, <2>1, <2>2 DEF WeightIn, FloatsIn
<1>12. QED
  BY Zenon, <1>9, <1>10, <1>11

LEMMA AddStep ==
  ASSUME RecoveryInv, queue # <<>>, ~RateLimited(Head(queue)), NEW residual \in Nat,
         NEW r \in RecSet, NEW w \in RecSet,
         r = Weighed(Head(queue).t), SameClocks(r, w), w.added = r.added,
         \/ w.candidates = 0 /\ w.candStamp = r.candStamp
         \/ /\ Outage(Head(queue).t) /\ Head(queue).q = "fixed"
            /\ w.candStamp = Head(queue).t /\ w.candResidual = residual
            /\ \/ w.candidates = 1
               \/ Agrees(Head(queue), residual) /\ w.candidates = r.candidates + 1,
         residual > MaxResidual => ~(w.candidates < ConfirmFactors),
         AddGnssFactor(w, Head(queue), residual),
         queue' = Tail(queue), ramp' = ramp, newest' = newest
  PROVE  RecoveryInv'
<1> USE RecoveryAssumption
<1> DEFINE m == Head(queue)
<1>1. Trusted(tried, rec, queue, newest, ramp)
  BY Zenon DEF RecoveryInv
<1>2. /\ tried \in Seq(Entry) /\ rec \in RecSet /\ queue \in Seq(Queued)
      /\ newest \in Nat /\ ramp \in Nat /\ Ascending(queue, newest) /\ Behind(rec, queue, newest)
      /\ NewestFactor(tried, rec.added) /\ Resumed(tried)
      /\ CandidatesCounted(tried, rec) /\ Switched(rec, ramp)
      /\ Stages(tried, rec, queue, newest, ramp)
  BY Zenon, <1>1 DEF Trusted, Typed
<1>3. /\ queue' \in Seq(Queued) /\ Ascending(queue', newest)
      /\ m \in Queued /\ m.t \in Nat
      /\ After(queue', newest, m.t) /\ Ages(queue, newest, queue', newest)
      /\ \A t \in Int : After(queue, newest, t) => t < m.t
      /\ \A t, d \in Int : m.t - t >= d => Passed(queue', newest, t, d)
  BY Zenon, <1>2, TakeOne
<1>4. /\ r.added = rec.added /\ r.candidates = rec.candidates /\ r.candStamp = rec.candStamp
      /\ r = rec \/ (r = NoRecovery(rec) /\ rec.fade # NoStamp /\ m.t - rec.fade >= ramp)
  BY Zenon, <1>2, WeighedIs
<1>5. /\ rec.added \in Clock /\ rec.added \in Int /\ rec.candStamp \in Int
      /\ rec.candidates \in Nat /\ w.candidates \in Nat /\ rec.lastFloat \in Int
  BY <1>2, RecTypes
<1>6. rec.added < m.t /\ rec.lastFloat <= rec.added /\ After(queue', newest, w.candStamp)
  <2>1. rec.added < m.t /\ rec.lastFloat <= rec.added
    BY Zenon, <1>2, <1>3, <1>5 DEF Behind
  <2>2. w.candStamp = rec.candStamp \/ w.candStamp = m.t
    BY Zenon, <1>4
  <2>3. After(queue', newest, rec.candStamp)
    BY Zenon, <1>2, <1>3, <1>5 DEF Behind, Ages
  <2>4. QED
    BY Zenon, <1>3, <2>1, <2>2, <2>3
\* the entry
<1>7. Inflation(m.t) \in Int
  BY Zenon, <1>2, <1>3, InflationIs
<1>8. PICK x \in Entry : /\ Grows(tried, tried', x)
                         /\ x = [kind |-> "factor", t |-> m.t, q |-> m.q,
                                 residual |-> residual, inflation |-> Inflation(m.t)]
  <2>1. Note("factor", m, residual, Inflation(m.t))
    BY Zenon DEF AddGnssFactor
  <2>2. "factor" \in {"factor", "candidate", "limited", "break"} /\ "factor" # "break"
    OBVIOUS
  <2>3. QED
    BY Zenon, <1>2, <1>3, <1>7, <2>1, <2>2, NoteIs
<1>9. Grows(tried, tried', x)
  BY Zenon, <1>8
<1>10. /\ x.kind = "factor" /\ x.t = m.t /\ x.q = m.q /\ x.residual = residual
      /\ x.inflation = Inflation(m.t)
  BY <1>8
<1>11. /\ Len(tried) \in Nat /\ Len(tried') \in Nat /\ Len(tried') = Len(tried) + 1
       /\ tried'[Len(tried')] = x /\ FactorAt(tried', Len(tried'))
       /\ Len(tried') \in 1..Len(tried')
       /\ tried' \in Seq(Entry)
  <2>1. /\ Len(tried) \in Nat /\ Len(tried') \in Nat /\ Len(tried') = Len(tried) + 1
        /\ tried'[Len(tried')] = x
    BY ZenonT(40), <1>2, <1>9, SameEarlier
  <2>2. FactorAt(tried', Len(tried'))
    BY Zenon, <1>10, <2>1 DEF FactorAt
  <2>3. Len(tried') \in 1..Len(tried')
    BY <2>1
  <2>4. tried' \in Seq(Entry)
    BY Zenon, <1>9 DEF Grows
  <2>5. QED
    BY Zenon, <2>1, <2>2, <2>3, <2>4
<1>12. NewestFactor(tried', m.t)
  BY Zenon, <1>2, <1>5, <1>6, <1>9, <1>10, FactorStamps
<1>13. ResumesIn(tried', Len(tried')) <=> Outage(m.t)
  <2>1. ResumesIn(tried', Len(tried')) <=> (rec.added # NoStamp /\ x.t - rec.added > GapThreshold)
    BY Zenon, <1>2, <1>5, <1>9, <1>11, Resumption
  <2>2. QED
    BY Zenon, <1>10, <2>1 DEF Outage
\* the clocks
<1>14. PICK z : z = [w EXCEPT !.candidates = 0]
  OBVIOUS
<1>15. /\ z \in RecSet /\ SameClocks(r, z) /\ z.added = rec.added /\ z.candidates = 0
       /\ z.candStamp = w.candStamp
  <2>1. /\ z \in RecSet /\ SameClocks(w, z) /\ z.added = w.added /\ z.candidates = 0
        /\ z.candStamp = w.candStamp
    BY Zenon, <1>14, ForgetFields
  <2>2. SameClocks(r, z)
    BY Zenon, <2>1 DEF SameClocks
  <2>3. QED
    BY Zenon, <1>4, <2>1, <2>2
<1>16. rec' = [AcceptedFactor(Begun(z, m), m) EXCEPT !.added = m.t]
  BY Zenon, <1>14 DEF AddGnssFactor
<1>17. PICK y : y = Begun(z, m)
  OBVIOUS
<1>18. /\ Outage(m.t) /\ ramp > 0 => BeginsAt(m.t, y)
       /\ ~(Outage(m.t) /\ ramp > 0) => y = z
       /\ y \in RecSet /\ y.added = rec.added /\ y.candidates = 0 /\ y.candStamp = w.candStamp
  <2>1. CASE Outage(m.t) /\ ramp > 0
    <3>1. y = [NoRecovery(z) EXCEPT !.start = m.t]
      BY Zenon, <1>17, <2>1 DEF Begun
    <3>2. BeginsAt(m.t, y) /\ y.added = z.added /\ y.candidates = z.candidates
          /\ y.candStamp = z.candStamp
      BY Zenon, <1>3, <1>15, <3>1, BeginFields
    <3>3. QED
      BY Zenon, <1>15, <2>1, <3>2 DEF BeginsAt
  <2>2. CASE ~(Outage(m.t) /\ ramp > 0)
    <3>1. y = z
      BY Zenon, <1>17, <2>2 DEF Begun
    <3>2. QED
      BY Zenon, <1>15, <2>2, <3>1
  <2>3. QED
    BY Zenon, <2>1, <2>2
<1>19. PICK v : v = AcceptedFactor(y, m)
  OBVIOUS
<1>20. /\ v \in RecSet /\ v.start = y.start /\ v.candidates = 0 /\ v.candStamp = w.candStamp
       /\ v.lastFloat = m.t \/ v.lastFloat = NoStamp \/ v.lastFloat = y.lastFloat
       /\ y.start = NoStamp => v = y
  BY ZenonT(40), <1>3, <1>18, <1>19, AcceptedFields
<1>21. /\ rec' \in RecSet /\ SameClocks(v, rec') /\ rec'.added = m.t
       /\ rec'.candidates = 0 /\ rec'.candStamp = w.candStamp
  <2>1. rec' = [v EXCEPT !.added = m.t]
    BY Zenon, <1>16, <1>17, <1>19
  <2>2. QED
    <3>1. v \in RecSet /\ m.t \in Nat
      BY Zenon, <1>3, <1>20
    <3>2. PICK k \in Nat : k = m.t
      BY <3>1
    <3>3. /\ rec' \in RecSet /\ SameClocks(v, rec') /\ rec'.added = k
          /\ rec'.candidates = v.candidates /\ rec'.candStamp = v.candStamp
      BY Zenon, <2>1, <3>1, <3>2, AddedFields
    <3>4. QED
      BY Zenon, <1>20, <3>2, <3>3
<1>22. r.lastFloat < m.t /\ y.lastFloat < m.t /\ y.lastFloat \in Int
       /\ (z.start = NoStamp => z.fade = NoStamp) /\ (ramp = 0 => z.start = NoStamp)
  <2>1. /\ r.lastFloat = rec.lastFloat \/ r.lastFloat = NoStamp
        /\ (r.start = NoStamp => r.fade = NoStamp) /\ (ramp = 0 => r.start = NoStamp)
    <3>1. CASE r = rec
      BY Zenon, <1>2, <3>1 DEF Switched
    <3>2. CASE r = NoRecovery(rec)
      <4>1. /\ NoRecovery(rec).start = NoStamp /\ NoRecovery(rec).fade = NoStamp
            /\ NoRecovery(rec).lastFloat = NoStamp
        BY Zenon, <1>2, NoRecoveryFields
      <4>2. r.start = NoStamp /\ r.fade = NoStamp /\ r.lastFloat = NoStamp
        BY <3>2, <4>1
      <4>3. QED
        BY Zenon, <4>2
    <3>3. QED
      BY Zenon, <1>4, <3>1, <3>2
  <2>2. NoStamp < m.t /\ NoStamp \in Int /\ rec.lastFloat < m.t
    BY SMTT(30), <1>3, <1>5, <1>6 DEF NoStamp
  <2>3. y.lastFloat = NoStamp \/ y.lastFloat = r.lastFloat
    BY Zenon, <1>15, <1>18 DEF BeginsAt, SameClocks
  <2>4. QED
    BY Zenon, <1>5, <1>15, <2>1, <2>2, <2>3 DEF SameClocks
<1>23. rec'.lastFloat <= rec'.added
  <2>1. v.lastFloat <= m.t
    <3>1. m.t <= m.t /\ NoStamp <= m.t /\ y.lastFloat <= m.t
      BY <1>3, <1>22 DEF NoStamp
    <3>2. QED
      BY Zenon, <1>20, <3>1
  <2>2. QED
    BY Zenon, <1>21, <2>1 DEF SameClocks
<1>24. Switched(rec', ramp)
  <2>1. CASE Outage(m.t) /\ ramp > 0
    <3>1. y.start = m.t /\ m.t # NoStamp
      BY <1>3, <1>18, <2>1 DEF BeginsAt, NoStamp
    <3>2. rec'.start # NoStamp
      BY Zenon, <1>20, <1>21, <3>1 DEF SameClocks
    <3>3. ramp # 0
      BY <2>1
    <3>4. QED
      BY Zenon, <3>2, <3>3 DEF Switched
  <2>2. CASE ~(Outage(m.t) /\ ramp > 0)
    <3>1. y = z
      BY Zenon, <1>18, <2>2
    <3>2. rec'.start = z.start /\ (z.start = NoStamp => rec'.fade = z.fade)
      BY Zenon, <1>20, <1>21, <3>1 DEF SameClocks
    <3>3. QED
      BY Zenon, <1>22, <3>2 DEF Switched
  <2>3. QED
    BY Zenon, <2>1, <2>2
\* the properties
<1>25. JumpIn(tried', Len(tried'))
  <2>1. SUFFICES ASSUME residual > MaxResidual PROVE JumpIn(tried', Len(tried'))
    BY Zenon, <1>10, <1>11 DEF JumpIn
  <2>2. ~(w.candidates < ConfirmFactors)
    BY Zenon, <2>1
  <2>3. w.candidates >= ConfirmFactors /\ w.candidates # 0 /\ w.candidates # 1
    BY SMTT(30), <1>5, <2>2
  <2>4. /\ Outage(m.t) /\ m.q = "fixed"
        /\ Agrees(m, residual) /\ w.candidates = rec.candidates + 1
    BY Zenon, <1>4, <2>3
  <2>5. /\ rec.candidates > 0 /\ m.t - rec.candStamp <= FixedGap
        /\ Differs(residual, rec.candResidual) <= Consistency
    BY Zenon, <2>4 DEF Agrees
  <2>6. /\ CandidateRow(tried, rec.candidates)
        /\ tried[Len(tried)].t = rec.candStamp /\ tried[Len(tried)].residual = rec.candResidual
    BY Zenon, <1>2, <2>5 DEF CandidatesCounted
  <2>7. w.candidates - 1 = rec.candidates
    <3>1. \A a, b \in Nat : a = b + 1 => a - 1 = b
      OBVIOUS
    <3>2. QED
      BY Zenon, <1>5, <2>4, <3>1
  <2>8. CandidateRow(tried, w.candidates - 1)
    BY Zenon, <2>6, <2>7
  <2>9. /\ x.q = "fixed" /\ x.t - tried[Len(tried)].t <= FixedGap
        /\ Differs(x.residual, tried[Len(tried)].residual) <= Consistency
    BY Zenon, <1>10, <2>4, <2>5, <2>6
  <2>10. rec.added # NoStamp /\ x.t - rec.added > GapThreshold
    BY Zenon, <1>10, <2>4 DEF Outage
  <2>11. QED
    BY Zenon, <1>2, <1>5, <1>9, <1>10, <2>3, <2>8, <2>9, <2>10, JumpEarned
<1>26. ASSUME Outage(m.t)
       PROVE  Resumed(tried') /\ EarnedIn(tried', ramp) /\ Stages(tried', rec', queue', newest, ramp)
  <2>1. /\ Resumed(tried')
        /\ \A b \in 1..Len(tried') : LastResumption(tried', b) <=> b = Len(tried')
    BY Zenon, <1>2, <1>9, <1>13, <1>26, LastMoves
  <2>2. x.inflation = ramp
    BY Zenon, <1>2, <1>3, <1>10, <1>26, InflationIs
  <2>3. WeightIn(tried', Len(tried'), Len(tried'), ramp)
        /\ FloatsIn(tried', Len(tried'), Len(tried'), ramp)
    <3>1. \A j \in Len(tried')..(Len(tried') - 1) : FALSE
      BY <1>11
    <3>2. QED
      BY Zenon, <1>11, <2>2, <3>1 DEF WeightIn, FloatsIn
  <2>4. EarnedIn(tried', ramp)
    BY Zenon, <1>25, <2>1, <2>3 DEF EarnedIn
  <2>5. ASSUME ramp > 0 PROVE Stage(tried', rec', Len(tried'), queue', newest, ramp)
    <3>1. /\ v.start = x.t /\ v.fade = NoStamp
          /\ v.lastFixed # NoStamp => x.q = "fixed" /\ v.fixed = 1 /\ v.lastFixed = x.t
          /\ x.q = "float" => v.lastFloat = x.t
      BY Zenon, <1>3, <1>10, <1>18, <1>19, <1>26, <2>5, BeginAccepts
    <3>2. Stage(tried', v, Len(tried'), queue', newest, ramp)
      BY Zenon, <1>2, <1>9, <1>10, <1>20, <3>1, StageBegins
    <3>3. QED
      BY Zenon, <1>21, <3>2, StageSame
  <2>6. Stages(tried', rec', queue', newest, ramp)
    BY Zenon, <2>1, <2>5 DEF Stages
  <2>7. QED
    BY Zenon, <2>1, <2>4, <2>6
<1>27. ASSUME ~Outage(m.t)
       PROVE  Resumed(tried') /\ EarnedIn(tried', ramp) /\ Stages(tried', rec', queue', newest, ramp)
  <2>1. /\ Resumed(tried')
        /\ \A b \in 1..Len(tried') :
             LastResumption(tried', b) <=> (b \in 1..Len(tried) /\ LastResumption(tried, b))
    BY Zenon, <1>2, <1>9, <1>13, <1>27, LastStays
  <2>2. \A b \in 1..Len(tried') : LastResumption(tried', b) =>
          WeightIn(tried', Len(tried'), b, ramp) /\ FloatsIn(tried', Len(tried'), b, ramp)
    BY Zenon, <1>9, <1>10, <1>13, <1>27, <2>1, FactorEarned
  <2>3. EarnedIn(tried', ramp)
    BY Zenon, <1>25, <2>2 DEF EarnedIn
  <2>4. ASSUME ramp > 0, NEW b \in 1..Len(tried), LastResumption(tried, b)
        PROVE  Stage(tried', rec', b, queue', newest, ramp)
    <3>1. Stage(tried, rec, b, queue, newest, ramp) /\ m.t \in Int
      BY <1>2, <1>3, <2>4 DEF Stages
    <3>2. Stage(tried, r, b, queue', newest, ramp)
      BY Zenon, <1>2, <1>3, <1>4, <3>1, StageWeighed
    <3>3. Stage(tried, y, b, queue', newest, ramp)
      BY Zenon, <1>15, <1>18, <1>27, <3>2, StageSame
    <3>4. y.start = NoStamp => y.fade = NoStamp
      BY Zenon, <1>18, <1>22, <1>27
    <3>5. Stage(tried', v, b, queue', newest, ramp)
      BY Zenon, <1>2, <1>3, <1>9, <1>10, <1>18, <1>19, <1>22, <3>3, <3>4, StageGoesOn
    <3>6. QED
      BY Zenon, <1>21, <3>5, StageSame
  <2>5. Stages(tried', rec', queue', newest, ramp)
    BY Zenon, <2>1, <2>4 DEF Stages
  <2>6. QED
    BY Zenon, <2>1, <2>3, <2>5
<1>28. Resumed(tried') /\ EarnedIn(tried', ramp) /\ Stages(tried', rec', queue', newest, ramp)
  BY Zenon, <1>26, <1>27
<1>29. CandidatesCounted(tried', rec')
  BY <1>21 DEF CandidatesCounted
<1>30. Behind(rec', queue', newest) /\ NewestFactor(tried', rec'.added)
  BY Zenon, <1>3, <1>6, <1>12, <1>21, <1>23 DEF Behind
<1>31. Trusted(tried', rec', queue', newest, ramp)
  BY Zenon, <1>2, <1>3, <1>11, <1>21, <1>24, <1>28, <1>29, <1>30 DEF Trusted, Typed
<1>32. QED
  BY Zenon, <1>31 DEF RecoveryInv

LEMMA TryStep ==
  ASSUME RecoveryInv, NEW residual \in Residuals, NEW nis \in {"good", "large", "invalid"},
         Try(residual, nis)
  PROVE  RecoveryInv'
<1> USE RecoveryAssumption
<1> DEFINE m == Head(queue)
<1>1. rec \in RecSet /\ queue \in Seq(Queued) /\ newest \in Nat /\ Ascending(queue, newest)
  BY Zenon DEF RecoveryInv, Trusted, Typed
<1>2. /\ queue # <<>> /\ ~RateLimited(m) /\ queue' = Tail(queue)
      /\ ramp' = ramp /\ newest' = newest
      /\ nis = "invalid" => RejectFactor([Weighed(m.t) EXCEPT !.candidates = 0], m, residual)
      /\ nis # "invalid" => Gate(Candidates(Weighed(m.t), m, residual, nis), m, residual, nis)
  BY Zenon DEF Try
<1>3. residual \in Nat /\ m \in Queued
  BY <1>1, <1>2, TakeOne
<1>4. PICK r : r = Weighed(m.t)
  OBVIOUS
<1>5. r \in RecSet
  BY Zenon, <1>1, <1>4, WeighedIs
<1>6. CASE nis = "invalid"
  <2>1. PICK w : w = [r EXCEPT !.candidates = 0]
    OBVIOUS
  <2>2. /\ w \in RecSet /\ SameClocks(r, w) /\ w.added = r.added /\ w.candidates = 0
        /\ w.candStamp = r.candStamp
    BY Zenon, <1>5, <2>1, ForgetFields
  <2>3. RejectFactor(w, m, residual)
    BY Zenon, <1>2, <1>4, <1>6, <2>1
  <2>4. QED
    BY Zenon, <1>2, <1>3, <1>4, <1>5, <2>2, <2>3, RejectStep
<1>7. CASE nis # "invalid"
  <2>1. PICK w : w = Candidates(r, m, residual, nis)
    OBVIOUS
  <2>2. Judged(r, m, residual, w)
    <3>1. Judged(r, m, residual, Candidates(r, m, residual, nis))
      BY Zenon, <1>1, <1>3, <1>5, CandidatesIs
    <3>2. QED
      BY Zenon, <2>1, <3>1
  <2>3. /\ w \in RecSet /\ SameClocks(r, w) /\ w.added = r.added
        /\ \/ w.candidates = 0 /\ w.candStamp = r.candStamp
           \/ /\ Outage(m.t) /\ m.q = "fixed"
              /\ w.candStamp = m.t /\ w.candResidual = residual
              /\ \/ w.candidates = 1
                 \/ Agrees(m, residual) /\ w.candidates = r.candidates + 1
    BY Zenon, <2>2 DEF Judged
  <2>4. Gate(w, m, residual, nis)
    BY Zenon, <1>2, <1>4, <1>7, <2>1
  <2>5. \/ RejectFactor(w, m, residual)
        \/ /\ residual > MaxResidual => ~(w.candidates < ConfirmFactors)
           /\ AddGnssFactor(w, m, residual)
    BY Zenon, <2>4 DEF Gate
  <2>6. CASE RejectFactor(w, m, residual)
    BY Zenon, <1>2, <1>3, <1>4, <1>5, <2>3, <2>6, RejectStep
  <2>7. CASE AddGnssFactor(w, m, residual) /\ (residual > MaxResidual => ~(w.candidates < ConfirmFactors))
    BY Zenon, <1>2, <1>3, <1>4, <1>5, <2>3, <2>7, AddStep
  <2>8. QED
    BY Zenon, <2>5, <2>6, <2>7
<1>8. QED
  BY Zenon, <1>6, <1>7

-----------------------------------------------------------------------------
LEMMA RecoveryInvInit == RecoveryInit => RecoveryInv
<1> USE RecoveryAssumption
<1> SUFFICES ASSUME RecoveryInit PROVE RecoveryInv
  OBVIOUS
<1>1. /\ ramp \in Nat /\ newest = 0 /\ queue = <<>> /\ tried = <<>>
      /\ queue \in Seq(Queued) /\ tried \in Seq(Entry) /\ Len(queue) = 0 /\ Len(tried) = 0
  BY DEF RecoveryInit
<1>2. /\ rec \in RecSet /\ rec.start = NoStamp /\ rec.fade = NoStamp /\ rec.lastFloat = NoStamp
      /\ rec.added = NoStamp /\ rec.candidates = 0 /\ rec.candStamp = NoStamp
  BY DEF RecoveryInit, RecSet, Clock, NoStamp
<1>3. Typed(tried, rec, queue, newest, ramp)
  BY <1>1, <1>2 DEF Typed
<1>4. Ascending(queue, newest) /\ Behind(rec, queue, newest)
  BY <1>1, <1>2 DEF Ascending, Behind, After, NoStamp
<1>5. NewestFactor(tried, rec.added) /\ Resumed(tried) /\ EarnedIn(tried, ramp)
  BY <1>1, <1>2 DEF NewestFactor, Resumed, EarnedIn
<1>6. CandidatesCounted(tried, rec) /\ Switched(rec, ramp)
  BY <1>2 DEF CandidatesCounted, Switched
<1>7. Stages(tried, rec, queue, newest, ramp)
  BY <1>1 DEF Stages
<1>8. QED
  BY Zenon, <1>3, <1>4, <1>5, <1>6, <1>7 DEF RecoveryInv, Trusted

LEMMA RecoveryInvNext ==
  FloatsFit /\ RecoveryInv /\ [RecoveryNext]_recoveryVars => RecoveryInv'
<1> SUFFICES ASSUME FloatsFit, RecoveryInv, [RecoveryNext]_recoveryVars PROVE RecoveryInv'
  OBVIOUS
<1>1. CASE \E d \in SampleSteps, q \in {"fixed", "float"}, queued \in BOOLEAN :
             TakeSample(d, q, queued)
  BY Zenon, <1>1, ReceiveStep
<1>2. CASE LeaveOut
  BY Zenon, <1>2, LeaveOutStep
<1>3. CASE Limit
  BY Zenon, <1>3, LimitStep
<1>4. CASE \E residual \in Residuals, nis \in {"good", "large", "invalid"} : Try(residual, nis)
  BY Zenon, <1>4, TryStep
<1>5. CASE UNCHANGED recoveryVars
  <2>1. tried' = tried /\ rec' = rec /\ queue' = queue /\ newest' = newest /\ ramp' = ramp
    BY <1>5 DEF recoveryVars
  <2>2. QED
    BY Zenon, <2>1 DEF RecoveryInv
<1>6. QED
  BY Zenon, <1>1, <1>2, <1>3, <1>4, <1>5 DEF RecoveryNext

LEMMA EarnedSaid == RecoveryInv => RecoveryEarned
<1> USE RecoveryAssumption
<1> SUFFICES ASSUME RecoveryInv, Len(tried) > 0, IsFactor(Len(tried))
             PROVE  /\ JumpConfirmed(Len(tried))
                    /\ Resumptions(Len(tried)) # {} =>
                         LET s == Max(Resumptions(Len(tried)))
                         IN  WeightEarned(Len(tried), s) /\ FloatsSparse(Len(tried), s)
  BY Zenon DEF RecoveryEarned
<1>1. PICK i : i = Len(tried)
  OBVIOUS
<1>2. tried \in Seq(Entry) /\ Resumed(tried) /\ EarnedIn(tried, ramp)
  BY Zenon DEF RecoveryInv, Trusted, Typed
<1>3. i \in Nat /\ i > 0 /\ i \in 1..i
  BY <1>1, <1>2
<1>4. /\ JumpIn(tried, i)
      /\ \A b \in 1..i : LastResumption(tried, b) =>
           WeightIn(tried, i, b, ramp) /\ FloatsIn(tried, i, b, ramp)
  BY Zenon, <1>1, <1>2, <1>3 DEF EarnedIn, IsFactor, FactorAt
<1>5. \A j \in Int : FactorsBefore(j) = {f \in 1..(j - 1) : FactorAt(tried, f)}
  BY DEF FactorsBefore, IsFactor, FactorAt
<1>6. JumpConfirmed(i)
  <2>1. ASSUME NEW j \in (i - ConfirmFactors + 1)..i, OutageAt(tried, j, i - 1)
        PROVE  \A f \in FactorsBefore(i) : tried[j].t - tried[f].t > GapThreshold
    BY <1>3, <1>5, <2>1 DEF OutageAt
  <2>2. QED
    BY Zenon, <1>4, <2>1 DEF JumpIn, JumpConfirmed
<1>7. \A b \in 1..i : Resumes(b) <=> ResumesIn(tried, b)
  <2>1. ASSUME NEW b \in 1..i PROVE Resumes(b) <=> ResumesIn(tried, b)
    <3>1. FactorsBefore(b) = {f \in 1..(b - 1) : FactorAt(tried, f)}
      BY <1>3, <1>5
    <3>2. QED
      BY <3>1 DEF Resumes, ResumesIn, OutageAt, IsFactor, FactorAt
  <2>2. QED
    BY <2>1
<1>8. \A b, e : RowEnds(b, e) <=> FullRow(tried, b, e)
  <2>1. ASSUME NEW b, NEW e, NEW row \in [1..ConfirmFactors -> b..e] PROVE DOMAIN row = 1..ConfirmFactors
    OBVIOUS
  <2>2. QED
    BY Zenon, <2>1 DEF RowEnds, FullRow, RowIn, Streaky, IsFactor, FactorAt
<1>9. ASSUME Resumptions(i) # {}
      PROVE  WeightEarned(i, Max(Resumptions(i))) /\ FloatsSparse(i, Max(Resumptions(i)))
  <2>1. \E b \in 1..i : ResumesIn(tried, b)
    BY Zenon, <1>7, <1>9 DEF Resumptions
  <2>2. PICK b \in 1..i : LastResumption(tried, b)
    BY Zenon, <1>1, <1>2, <2>1 DEF Resumed
  <2>3. b \in Resumptions(i)
    BY Zenon, <1>7, <2>2 DEF Resumptions, LastResumption
  <2>4. \A j \in Resumptions(i) : b >= j
    <3>1. ASSUME NEW j \in Resumptions(i), j > b PROVE FALSE
      <4>1. j \in 1..i /\ ResumesIn(tried, j)
        BY Zenon, <1>7 DEF Resumptions
      <4>2. j \in (b + 1)..Len(tried)
        BY <1>1, <1>3, <3>1, <4>1
      <4>3. QED
        BY Zenon, <2>2, <4>1, <4>2 DEF LastResumption
    <3>2. \A j \in Resumptions(i) : j \in Int /\ b \in Int
      BY <1>3 DEF Resumptions
    <3>3. QED
      BY <3>1, <3>2
  <2>5. PICK z : z = Max(Resumptions(i))
    OBVIOUS
  <2>6. z \in Resumptions(i) /\ \A j \in Resumptions(i) : z >= j
    BY Zenon, <2>3, <2>4, <2>5 DEF Max
  <2>7. z \in Int /\ b \in Int
    BY <1>3, <2>6 DEF Resumptions
  <2>8. z = b
    BY <2>3, <2>4, <2>6, <2>7
  <2>9. WeightIn(tried, i, b, ramp) /\ FloatsIn(tried, i, b, ramp)
    BY Zenon, <1>4, <2>2
  <2>10. WeightEarned(i, b) /\ FloatsSparse(i, b)
    BY Zenon, <1>8, <2>9 DEF WeightEarned, WeightIn, FloatsSparse, FloatsIn, IsFactor, FloatAt, FactorAt
  <2>11. QED
    BY Zenon, <2>5, <2>8, <2>10
<1>10. QED
  BY Zenon, <1>1, <1>6, <1>9

(* After an outage trust is earned (RecoveryEarned), whatever waits and in *)
(* whatever order statuses and samples interleave, when an interval of     *)
(* float poses fits in an outage.  Otherwise a float that is only limited  *)
(* leaves the candidates before it standing (gnssRecoveryFloat-            *)
(* FactorRateLimited, confirmGnssReacquisition).                           *)
THEOREM TrustIsEarned == ASSUME FloatsFit PROVE RecoverySpec => []RecoveryEarned
<1>1. RecoveryInv /\ [RecoveryNext]_recoveryVars => RecoveryInv'
  BY RecoveryInvNext
<1>2. QED
  BY <1>1, RecoveryInvInit, EarnedSaid, PTL DEF RecoverySpec
=============================================================================
