---------------------------- MODULE UwbChainProofs ----------------------------
(***************************************************************************)
(* What is proved of the chain of UWB ranges (UwbChain), for every setup   *)
(* of the serial node, recording, capacity and clock error: its types, and *)
(* the three invariants of its run.                                        *)
(***************************************************************************)
EXTENDS UwbChain, SequenceTheorems, StampSets, TLAPS

(***************************************************************************)
(* Sequences.                                                              *)
(***************************************************************************)
\* The positions of I up to n.
UpTo(I, n) == {j \in I : j <= n}

\* The positions are counted one by one.
LEMMA UpToNext ==
  ASSUME NEW I, IsFiniteSet(I), I \subseteq Nat, NEW n \in Nat
  PROVE  /\ Cardinality(UpTo(I, n)) \in Nat
         /\ n + 1 \in I => Cardinality(UpTo(I, n + 1)) = Cardinality(UpTo(I, n)) + 1
         /\ n + 1 \notin I => Cardinality(UpTo(I, n + 1)) = Cardinality(UpTo(I, n))
<1>1. IsFiniteSet(UpTo(I, n))
  BY FS_Subset DEF UpTo
<1>2. n + 1 \notin UpTo(I, n)
  BY DEF UpTo
<1>0. \A j \in I : j <= n + 1 <=> j <= n \/ j = n + 1
  OBVIOUS
<1>3. n + 1 \in I => UpTo(I, n + 1) = UpTo(I, n) \cup {n + 1}
  BY <1>0, Zenon DEF UpTo
<1>4. n + 1 \notin I => UpTo(I, n + 1) = UpTo(I, n)
  BY <1>0, Zenon DEF UpTo
<1>5. Cardinality(UpTo(I, n)) \in Nat
  BY <1>1, FS_CardinalityType
<1>6. Cardinality(UpTo(I, n) \cup {n + 1}) = Cardinality(UpTo(I, n)) + 1
  BY <1>1, <1>2, AddRemove
<1> QED BY <1>3, <1>4, <1>5, <1>6

\* Positions are finite in number.
LEMMA FiniteInterval ==
  ASSUME NEW m \in Nat, NEW I \in SUBSET (1..m)
  PROVE  IsFiniteSet(I) /\ I \subseteq Nat /\ Cardinality(I) <= m
<1>1. IsFiniteSet(1..m) /\ Cardinality(1..m) = m
  BY FS_Interval
<1>2. IsFiniteSet(I) /\ Cardinality(I) <= Cardinality(1..m)
  BY <1>1, FS_Subset
<1> QED BY <1>1, <1>2

\* Every rank is that of a position.
LEMMA RankTaken ==
  ASSUME NEW m \in Nat, NEW I \in SUBSET (1..m), NEW k \in 1..Cardinality(I)
  PROVE  \E i \in I : Cardinality(UpTo(I, i)) = k
<1> DEFINE T == {n \in Nat : Cardinality(UpTo(I, n)) >= k}
<1>1. IsFiniteSet(I) /\ I \subseteq Nat
  BY FiniteInterval
<1>2. \A n \in Nat : Cardinality(UpTo(I, n)) \in Nat
  BY <1>1, UpToNext
<1>3. UpTo(I, m) = I /\ UpTo(I, 0) = {}
  <2>1. \A j \in I : j <= m /\ ~ (j <= 0)
    OBVIOUS
  <2> QED BY <2>1, Zenon DEF UpTo
<1>4. Cardinality(I) \in Nat
  BY <1>1, FS_CardinalityType
<1>5. m \in T
  BY <1>3, <1>4
<1>6. 0 \notin T
  BY <1>3, <1>4, FS_EmptySet
<1>7. PICK n \in T : \A y \in T : n <= y
  <2>1. T \subseteq Nat /\ T # {}
    BY <1>5
  <2> HIDE DEF T
  <2> QED BY <2>1, LeastElement
<1>8. n \in Nat \ {0} /\ n - 1 \in Nat /\ n - 1 \notin T
  BY <1>6, <1>7
<1>9. PICK p \in Nat : p = n - 1
  BY <1>8
<1>10. /\ n = p + 1 /\ Cardinality(UpTo(I, p)) < k /\ Cardinality(UpTo(I, n)) >= k
       /\ k \in Nat
  BY <1>2, <1>4, <1>7, <1>8, <1>9
<1>11. /\ n \in I => Cardinality(UpTo(I, n)) = Cardinality(UpTo(I, p)) + 1
       /\ n \notin I => Cardinality(UpTo(I, n)) = Cardinality(UpTo(I, p))
  <2>1. /\ p + 1 \in I => Cardinality(UpTo(I, p + 1)) = Cardinality(UpTo(I, p)) + 1
        /\ p + 1 \notin I => Cardinality(UpTo(I, p + 1)) = Cardinality(UpTo(I, p))
    BY <1>1, <1>9, UpToNext
  <2> QED BY <1>10, <2>1
<1>12. Cardinality(UpTo(I, p)) \in Nat /\ Cardinality(UpTo(I, n)) \in Nat
  BY <1>2, <1>7, <1>9
<1>13. n \in I /\ Cardinality(UpTo(I, n)) = k
  BY <1>10, <1>11, <1>12
<1> QED BY <1>13

\* What At picks are elements of the sequence, at the positions given.
LEMMA AtElements ==
  ASSUME NEW S, NEW s \in Seq(S), NEW I \in SUBSET (1..Len(s))
  PROVE  /\ At(s, I) \in Seq(S)
         /\ \A k \in DOMAIN At(s, I) : \E i \in I : At(s, I)[k] = s[i]
<1> DEFINE Ranked(k) == CHOOSE i \in I : Cardinality({j \in I : j <= i}) = k
<1>1. Len(s) \in Nat /\ \A i \in 1..Len(s) : s[i] \in S
  BY LenProperties, ElementOfSeq
<1>2. Cardinality(I) \in Nat
  <2>1. IsFiniteSet(I)
    BY <1>1, FiniteInterval
  <2> QED BY <2>1, FS_CardinalityType
<1>3. \A k \in 1..Cardinality(I) : Ranked(k) \in I
  <2> TAKE k \in 1..Cardinality(I)
  <2>1. \E i \in I : Cardinality({j \in I : j <= i}) = k
    BY <1>1, RankTaken DEF UpTo
  <2> QED BY <2>1
<1>4. At(s, I) = [k \in 1..Cardinality(I) |-> s[Ranked(k)]]
  BY DEF At
<1> HIDE DEF Ranked
<1>5. \A k \in 1..Cardinality(I) : s[Ranked(k)] \in S
  BY <1>1, <1>3
<1>6. At(s, I) \in [1..Cardinality(I) -> S]
  BY <1>4, <1>5
<1>7. At(s, I) \in Seq(S)
  BY <1>2, <1>6 DEF Seq
<1>8. ASSUME NEW k \in DOMAIN At(s, I)
      PROVE  \E i \in I : At(s, I)[k] = s[i]
  <2>1. k \in 1..Cardinality(I) /\ At(s, I)[k] = s[Ranked(k)]
    BY <1>4, <1>8
  <2> QED BY <1>3, <2>1
<1> QED BY <1>7, <1>8

\* The stamps up to a bound are the first ones of an ordered sequence.
LEMMA PrefixUpTo ==
  ASSUME NEW S, NEW s \in Seq(S), NEW b \in Int,
         \A i \in 1..Len(s) : s[i].stamp \in Int,
         \A i, j \in 1..Len(s) : i < j => s[i].stamp <= s[j].stamp
  PROVE  LET n == Cardinality({i \in DOMAIN s : s[i].stamp <= b}) IN
         /\ n \in 0..Len(s)
         /\ \A i \in 1..Len(s) : i <= n <=> s[i].stamp <= b
<1> DEFINE Low == {i \in DOMAIN s : s[i].stamp <= b}
           High == {i \in 1..Len(s) : s[i].stamp > b}
<1>1. Len(s) \in Nat /\ DOMAIN s = 1..Len(s)
  BY LenProperties
<1>2. PICK n \in 0..Len(s) : \A i \in 1..Len(s) : i <= n <=> s[i].stamp <= b
  <2>1. CASE High = {}
    <3>1. \A i \in 1..Len(s) : s[i].stamp <= b /\ i <= Len(s)
      BY <2>1
    <3> QED BY <1>1, <3>1
  <2>2. CASE High # {}
    <3>1. High \subseteq Nat
      BY <1>1
    <3>2. PICK h \in High : \A y \in High : h <= y
      <4> HIDE DEF High
      <4> QED BY <2>2, <3>1, LeastElement
    <3>3. h \in 1..Len(s) /\ h - 1 \in 0..Len(s) /\ s[h].stamp > b
      BY <1>1, <3>2
    <3>4. \A i \in 1..Len(s) : i <= h - 1 => s[i].stamp <= b
      BY <1>1, <3>2, <3>3
    <3>5. \A i \in 1..Len(s) : s[i].stamp <= b => i <= h - 1
      BY <1>1, <3>3
    <3> QED BY <3>3, <3>4, <3>5
  <2> QED BY <2>1, <2>2
<1>3. Low = 1..n
  BY <1>1, <1>2
<1>4. Cardinality(Low) = n
  <2>1. n \in Nat /\ Cardinality(1..n) = n
    BY <1>1, <1>2, FS_Interval
  <2> QED BY <1>3, <2>1
<1> QED BY <1>2, <1>4

-----------------------------------------------------------------------------
(***************************************************************************)
(* The serial node.  What a round holds was read since it started, and the *)
(* line that stamps it is one of its own; a round that waits is younger    *)
(* than the timeout, so its ranges are near its stamp.                     *)
(***************************************************************************)
Gaps == {g \in Int : g < RoundTimeout}
Contexts == [at : Int, stamp : Int]
Reads == [anchor : Anchors, value : {0} \cup Good \cup Bad, read : Int]
Slots == [anchor : Anchors, valid : BOOLEAN, gap : Gaps]
RangeArrays == [stamp : Int, ranges : Seq(Slots)]
Measured == [anchor : Anchors, stamp : Int, valid : BOOLEAN, gap : Gaps]
Rounds == [waiting : BOOLEAN, started : Int, lines : Nat, ranges : Seq(Reads),
           context : {None} \cup Contexts]

\* A context of one of the lines of round r, up to time t.
OwnLine(r, t) == r.context \in Contexts /\ r.context.at \in r.started..t

RoundInv(policy, r, t) ==
  /\ r \in Rounds /\ r.started <= t
  /\ \A i \in DOMAIN r.ranges : r.ranges[i].read \in r.started..t
  /\ r.context = None \/ OwnLine(r, t)
  /\ r.ranges # <<>> => OwnLine(r, t)
  /\ policy = "first_distance_line" /\ r.lines > 0 => OwnLine(r, t)

NodeInv(policy, n, t) ==
  /\ n = [round |-> n.round, filter |-> n.filter, mapper |-> n.mapper]
  /\ RoundInv(policy, n.round, t)

\* The fields of a changed record.
LEMMA RoundChanged ==
  ASSUME NEW r, NEW l, NEW c, NEW rs,
         r = [waiting |-> r.waiting, started |-> r.started, lines |-> r.lines,
              ranges |-> r.ranges, context |-> r.context]
  PROVE  [r EXCEPT !.lines = l, !.context = c, !.ranges = rs]
         = [waiting |-> r.waiting, started |-> r.started, lines |-> l,
            ranges |-> rs, context |-> c]
<1> DEFINE one == [r EXCEPT !.lines = l]
           two == [one EXCEPT !.context = c]
           three == [two EXCEPT !.ranges = rs]
<1>1. one = [waiting |-> r.waiting, started |-> r.started, lines |-> l,
             ranges |-> r.ranges, context |-> r.context]
  OBVIOUS
<1>2. [r EXCEPT !.lines = l, !.context = c, !.ranges = rs] = three
  BY Zenon
<1> HIDE DEF one
<1>3. two = [waiting |-> r.waiting, started |-> r.started, lines |-> l,
             ranges |-> r.ranges, context |-> c]
  BY <1>1
<1> HIDE DEF two
<1>4. three = [waiting |-> r.waiting, started |-> r.started, lines |-> l,
               ranges |-> rs, context |-> c]
  BY <1>3
<1> QED BY <1>2, <1>4

LEMMA FilterChanged ==
  ASSUME NEW n, n = [round |-> n.round, filter |-> n.filter, mapper |-> n.mapper], NEW f
  PROVE  [n EXCEPT !.filter = f] = [round |-> n.round, filter |-> f, mapper |-> n.mapper]
  OBVIOUS

LEMMA RoundReplaced ==
  ASSUME NEW n, n = [round |-> n.round, filter |-> n.filter, mapper |-> n.mapper], NEW r
  PROVE  [n EXCEPT !.round = r] = [round |-> r, filter |-> n.filter, mapper |-> n.mapper]
  OBVIOUS

LEMMA MapperReplaced ==
  ASSUME NEW n, n = [round |-> n.round, filter |-> n.filter, mapper |-> n.mapper], NEW m
  PROVE  [n EXCEPT !.mapper = m] = [round |-> n.round, filter |-> n.filter, mapper |-> m]
  OBVIOUS

LEMMA NoRoundInv ==
  ASSUME NEW policy, NEW t \in Nat
  PROVE  RoundInv(policy, NoRound, t)
<1>1. NoRound \in Rounds
  BY EmptySeq DEF NoRound, Rounds
<1> QED BY <1>1 DEF RoundInv, NoRound

\* Time passes.
LEMMA RoundLater ==
  ASSUME NEW policy, NEW r, NEW t \in Nat, NEW u \in Nat, t <= u, RoundInv(policy, r, t)
  PROVE  RoundInv(policy, r, u)
<1>1. r \in Rounds /\ r.started \in Int
  BY DEF RoundInv, Rounds
<1>2. OwnLine(r, t) => OwnLine(r, u)
  BY <1>1 DEF OwnLine, Contexts
<1>3. \A i \in DOMAIN r.ranges : r.ranges[i].read \in r.started..u
  BY <1>1 DEF RoundInv
<1>4. r.started <= u
  BY <1>1 DEF RoundInv
<1> QED BY <1>1, <1>2, <1>3, <1>4 DEF RoundInv

\* A round that waits is younger than the timeout.
LEMMA ExpiredYoung ==
  ASSUME NEW policy, NEW r, NEW t \in Nat, RoundInv(policy, r, t)
  PROVE  /\ RoundInv(policy, Expired(r, t), t)
         /\ Expired(r, t).waiting => t - Expired(r, t).started < RoundTimeout
<1>1. RoundTimeout \in Nat /\ r.started \in Int
  BY RoundsAssumption DEF RoundInv, Rounds
<1>2. CASE r.waiting /\ t - r.started >= RoundTimeout
  <2>1. Expired(r, t) = NoRound /\ ~NoRound.waiting
    BY <1>2 DEF Expired, NoRound
  <2> QED BY <2>1, NoRoundInv
<1>3. CASE ~(r.waiting /\ t - r.started >= RoundTimeout)
  <2>1. Expired(r, t) = r
    BY <1>3 DEF Expired
  <2> QED BY <1>1, <1>3, <2>1
<1> QED BY <1>2, <1>3

\* A distance line joins the round: its reading is now, and so is the context it
\* may bring.
LEMMA CollectedInv ==
  ASSUME NEW set, NEW r, NEW t \in Nat, RoundInv(set.policy, r, t),
         NEW a \in Anchors, NEW v \in {0} \cup Good \cup Bad,
         NEW c \in Contexts, c.at = t
  PROVE  LET g == Collected(set, r, a, v, c) IN
         RoundInv(set.policy, g, t) /\ g.started = r.started /\ g.waiting = r.waiting
<1> DEFINE g == Collected(set, r, a, v, c)
           new == [anchor |-> a, value |-> v, read |-> c.at]
<1>1. r \in Rounds /\ r.started \in Int /\ r.started <= t /\ r.lines \in Nat
  BY DEF RoundInv, Rounds
<1>2. r.ranges \in Seq(Reads) /\ new \in Reads
  BY <1>1 DEF Reads, Rounds
<1>3. /\ Append(r.ranges, new) \in Seq(Reads)
      /\ Len(Append(r.ranges, new)) = Len(r.ranges) + 1 /\ Len(r.ranges) \in Nat
      /\ \A i \in 1..Len(r.ranges) : Append(r.ranges, new)[i] = r.ranges[i]
      /\ Append(r.ranges, new)[Len(r.ranges) + 1] = new
  <2> HIDE DEF new
  <2> QED BY <1>2, AppendProperties, LenProperties
<1>4. /\ DOMAIN r.ranges = 1..Len(r.ranges)
      /\ DOMAIN Append(r.ranges, new) = 1..(Len(r.ranges) + 1)
  BY <1>2, <1>3, LenProperties
<1>5. /\ g.waiting = r.waiting /\ g.started = r.started /\ g.lines = r.lines + 1
      /\ g.context = ContextAfter(set, r, v, c)
      /\ g.ranges = r.ranges \/ (g.ranges = Append(r.ranges, new) /\ v # 0)
      /\ g = [waiting |-> g.waiting, started |-> g.started, lines |-> g.lines,
              ranges |-> g.ranges, context |-> g.context]
  <2> DEFINE grown == IF v = 0 \/ a \in {r.ranges[i].anchor : i \in DOMAIN r.ranges}
                      THEN r.ranges ELSE Append(r.ranges, new)
             context == ContextAfter(set, r, v, c)
  <2>1. r = [waiting |-> r.waiting, started |-> r.started, lines |-> r.lines,
             ranges |-> r.ranges, context |-> r.context]
    BY <1>1 DEF Rounds
  <2>2. g = [r EXCEPT !.lines = r.lines + 1, !.context = context, !.ranges = grown]
    BY Zenon DEF Collected
  <2>3. grown = r.ranges \/ (grown = Append(r.ranges, new) /\ v # 0)
    BY Zenon
  <2> HIDE DEF g, grown, context, new
  <2>4. g = [waiting |-> r.waiting, started |-> r.started, lines |-> r.lines + 1,
             ranges |-> grown, context |-> context]
    BY <2>1, <2>2, RoundChanged
  <2>5. /\ g.waiting = r.waiting /\ g.started = r.started /\ g.lines = r.lines + 1
        /\ g.context = context /\ g.ranges = grown
    BY <2>4
  <2> QED BY <2>3, <2>4, <2>5 DEF context
<1> HIDE DEF g
<1>6. OwnLine(r, t) /\ g.context = r.context => OwnLine(g, t)
  BY <1>5 DEF OwnLine
<1>7. g.context = c => OwnLine(g, t)
  BY <1>1, <1>5 DEF OwnLine
<1>8. g.context = None \/ OwnLine(g, t)
  BY <1>5, <1>6, <1>7 DEF ContextAfter, RoundInv
<1>9. set.policy = "first_distance_line" => OwnLine(g, t)
  <2> SUFFICES ASSUME set.policy = "first_distance_line" PROVE OwnLine(g, t)
    OBVIOUS
  <2>1. CASE r.lines = 0
    BY <1>5, <1>7, <2>1 DEF ContextAfter
  <2>2. CASE r.lines # 0
    BY <1>1, <1>5, <1>6, <2>2 DEF ContextAfter, RoundInv
  <2> QED BY <2>1, <2>2
<1>10. g.ranges # <<>> => OwnLine(g, t)
  <2> SUFFICES ASSUME g.ranges # <<>> PROVE OwnLine(g, t)
    OBVIOUS
  <2>1. CASE set.policy = "first_distance_line"
    BY <1>9, <2>1
  <2>2. CASE set.policy # "first_distance_line" /\ r.ranges # <<>>
    <3>1. OwnLine(r, t)
      BY <2>2 DEF RoundInv
    <3>2. g.context \in {c, r.context}
      BY <1>5, <2>2 DEF ContextAfter
    <3> QED BY <1>6, <1>7, <3>1, <3>2
  <2>3. CASE set.policy # "first_distance_line" /\ r.ranges = <<>>
    <3>1. v # 0
      BY <1>5, <2>3
    <3>2. g.context = IF r.context = None THEN c ELSE r.context
      BY <1>5, <2>3, <3>1 DEF ContextAfter
    <3> QED BY <1>6, <1>7, <3>2 DEF RoundInv
  <2> QED BY <2>1, <2>2, <2>3
<1>11. \A i \in DOMAIN g.ranges : g.ranges[i].read \in g.started..t
  <2>1. CASE g.ranges = r.ranges
    BY <1>5, <2>1 DEF RoundInv
  <2>2. CASE g.ranges = Append(r.ranges, new)
    <3>1. ASSUME NEW i \in 1..(Len(r.ranges) + 1)
          PROVE  Append(r.ranges, new)[i].read \in r.started..t
      <4>1. CASE i \in 1..Len(r.ranges)
        BY <1>3, <1>4, <4>1 DEF RoundInv
      <4>2. CASE i \notin 1..Len(r.ranges)
        <5>1. i = Len(r.ranges) + 1
          BY <1>3, <4>2
        <5>2. Append(r.ranges, new)[i] = new /\ new.read = t
          BY <1>3, <5>1
        <5> QED BY <1>1, <5>2
      <4> QED BY <4>1, <4>2
    <3> QED BY <1>4, <1>5, <2>2, <3>1
  <2> QED BY <1>5, <2>1, <2>2
<1>12. g \in Rounds
  <2>1. g.context \in {None} \cup Contexts
    BY <1>8 DEF OwnLine
  <2>2. g.ranges \in Seq(Reads)
    BY <1>2, <1>3, <1>5
  <2>3. g.waiting \in BOOLEAN /\ g.started \in Int /\ g.lines \in Nat
    <3>1. r.waiting \in BOOLEAN
      BY <1>1, Zenon DEF Rounds
    <3>2. g.waiting \in BOOLEAN
      BY <1>5, <3>1, Zenon
    <3> QED BY <1>1, <1>5, <3>2
  <2> QED BY <1>5, <2>1, <2>2, <2>3, Zenon DEF Rounds
<1>13. RoundInv(set.policy, g, t)
  BY <1>1, <1>5, <1>8, <1>9, <1>10, <1>11, <1>12 DEF RoundInv
<1> QED BY <1>5, <1>13 DEF g

\* What is published: ranges no further from the stamp than a timeout.
LEMMA PublishInv ==
  ASSUME NEW set, NEW n, n = [round |-> n.round, filter |-> n.filter, mapper |-> n.mapper],
         NEW rs \in Seq(Reads), NEW c \in Contexts, NEW t,
         \A i \in DOMAIN rs : rs[i].read - c.at < RoundTimeout
  PROVE  LET done == Publish(set, n, rs, c, t) IN
         /\ done.out \in Seq(RangeArrays)
         /\ done.node.round = n.round
         /\ done.node = [round |-> done.node.round, filter |-> done.node.filter,
                         mapper |-> done.node.mapper]
<1> DEFINE stamp == IF c.stamp = 0 THEN t ELSE c.stamp
           I == {i \in DOMAIN rs : rs[i].value \in Bad \/ ~Stuck(n.filter, rs[i], stamp)}
           kept == Kept(n.filter, rs, stamp)
           array == RangeArray(kept, c)
<1>1. kept \in Seq(Reads) /\ \A i \in DOMAIN kept : kept[i].read - c.at < RoundTimeout
  <2>1. kept = At(rs, I)
    BY DEF Kept
  <2>2. I \in SUBSET (1..Len(rs)) /\ DOMAIN rs = 1..Len(rs)
    BY LenProperties
  <2> HIDE DEF I
  <2>3. At(rs, I) \in Seq(Reads) /\ \A k \in DOMAIN At(rs, I) : \E i \in I : At(rs, I)[k] = rs[i]
    BY <2>2, AtElements
  <2> QED BY <2>1, <2>2, <2>3
<1> HIDE DEF kept
<1>2. c.at \in Int /\ c.stamp \in Int /\ DOMAIN kept = 1..Len(kept) /\ Len(kept) \in Nat
  BY <1>1, LenProperties DEF Contexts
<1>3. array \in RangeArrays
  <2> DEFINE Slot(i) == [anchor |-> kept[i].anchor, valid |-> kept[i].value \in Good,
                         gap |-> kept[i].read - c.at]
  <2>1. ASSUME NEW i \in 1..Len(kept) PROVE Slot(i) \in Slots
    <3>1. kept[i] \in Reads
      BY <1>1, ElementOfSeq
    <3>2. kept[i].anchor \in Anchors /\ kept[i].read \in Int
      BY <3>1 DEF Reads
    <3>3. kept[i].read - c.at \in Gaps
      BY <1>1, <1>2, <3>2 DEF Gaps
    <3>4. (kept[i].value \in Good) \in BOOLEAN
      OBVIOUS
    <3> QED BY <3>2, <3>3, <3>4, Zenon DEF Slots
  <2>2. array = [stamp |-> c.stamp, ranges |-> [i \in 1..Len(kept) |-> Slot(i)]]
    BY <1>2, Zenon DEF RangeArray
  <2> HIDE DEF Slot
  <2>3. [i \in 1..Len(kept) |-> Slot(i)] \in Seq(Slots)
    BY <1>2, <2>1 DEF Seq
  <2> HIDE DEF array
  <2> QED BY <1>2, <2>2, <2>3, Zenon DEF RangeArrays
<1>4. <<>> \in Seq(RangeArrays) /\ <<array>> \in Seq(RangeArrays)
  <2> HIDE DEF array
  <2> QED BY <1>3, EmptySeq
<1>5. CASE Unmapped(set, c)
  BY <1>4, <1>5 DEF Publish
<1>6. CASE ~Unmapped(set, c)
  <2>1. Publish(set, n, rs, c, t) =
          [node |-> [n EXCEPT !.filter = FilterAfter(@, rs, stamp)],
           out |-> IF kept = <<>> THEN <<>> ELSE <<array>>]
    BY <1>6, Zenon DEF Publish, kept
  <2> DEFINE m == [n EXCEPT !.filter = FilterAfter(@, rs, stamp)]
  <2>2. m = [round |-> n.round, filter |-> FilterAfter(n.filter, rs, stamp), mapper |-> n.mapper]
    BY FilterChanged, Zenon
  <2>3. m.round = n.round /\ m = [round |-> m.round, filter |-> m.filter, mapper |-> m.mapper]
    <3> HIDE DEF m
    <3> QED BY <2>2
  <2> HIDE DEF m, array
  <2> QED BY <1>4, <2>1, <2>3
<1> QED BY <1>5, <1>6

LEMMA NatInt == \A x \in Nat \ {0} : x \in Int
  OBVIOUS

LEMMA RoundOpened ==
  ASSUME NEW r, NEW w, NEW b,
         r = [waiting |-> r.waiting, started |-> r.started, lines |-> r.lines,
              ranges |-> r.ranges, context |-> r.context]
  PROVE  [r EXCEPT !.waiting = w, !.started = b]
         = [waiting |-> w, started |-> b, lines |-> r.lines,
            ranges |-> r.ranges, context |-> r.context]
<1> DEFINE one == [r EXCEPT !.waiting = w]
           two == [one EXCEPT !.started = b]
<1>1. one = [waiting |-> w, started |-> r.started, lines |-> r.lines,
             ranges |-> r.ranges, context |-> r.context]
  OBVIOUS
<1>2. [r EXCEPT !.waiting = w, !.started = b] = two
  BY Zenon
<1> HIDE DEF one
<1>3. two = [waiting |-> w, started |-> b, lines |-> r.lines,
             ranges |-> r.ranges, context |-> r.context]
  BY <1>1
<1> QED BY <1>2, <1>3

LEMMA StartedInv ==
  ASSUME NEW policy, NEW r, NEW t \in Nat
  PROVE  RoundInv(policy, StartRound(r, t), t)
<1>1. StartRound(r, t) = [waiting |-> TRUE, started |-> t, lines |-> 0, ranges |-> <<>>,
                          context |-> None]
  <2>1. NoRound = [waiting |-> FALSE, started |-> 0, lines |-> 0, ranges |-> <<>>, context |-> None]
    BY DEF NoRound
  <2>2. PICK z : z = NoRound
    OBVIOUS
  <2>3. z = [waiting |-> z.waiting, started |-> z.started, lines |-> z.lines,
             ranges |-> z.ranges, context |-> z.context]
    BY <2>1, <2>2
  <2>4. z.lines = 0 /\ z.ranges = <<>> /\ z.context = None
    BY <2>1, <2>2
  <2>5. StartRound(r, t) = [z EXCEPT !.waiting = TRUE, !.started = t]
    BY <2>2, Zenon DEF StartRound
  <2> QED BY <2>3, <2>4, <2>5, RoundOpened
<1>2. StartRound(r, t) \in Rounds
  BY <1>1, EmptySeq DEF Rounds
<1> QED BY <1>1, <1>2 DEF RoundInv

LEMMA NodeWithRound ==
  ASSUME NEW policy, NEW n, NEW t, NodeInv(policy, n, t), NEW r, RoundInv(policy, r, t)
  PROVE  LET m == [n EXCEPT !.round = r] IN NodeInv(policy, m, t) /\ m.round = r
<1> DEFINE m == [n EXCEPT !.round = r]
<1>1. m = [round |-> r, filter |-> n.filter, mapper |-> n.mapper]
  BY RoundReplaced DEF NodeInv
<1> HIDE DEF m
<1>2. m.round = r /\ m = [round |-> m.round, filter |-> m.filter, mapper |-> m.mapper]
  BY <1>1
<1>3. NodeInv(policy, m, t) /\ m.round = r
  BY <1>2 DEF NodeInv
<1> QED BY <1>3 DEF m

LEMMA NodeWithMapper ==
  ASSUME NEW policy, NEW n, NEW t, NodeInv(policy, n, t), NEW x
  PROVE  NodeInv(policy, [n EXCEPT !.mapper = x], t)
<1> DEFINE m == [n EXCEPT !.mapper = x]
<1>1. m = [round |-> n.round, filter |-> n.filter, mapper |-> x]
  BY MapperReplaced DEF NodeInv
<1> HIDE DEF m
<1>2. m.round = n.round /\ m = [round |-> m.round, filter |-> m.filter, mapper |-> m.mapper]
  BY <1>1
<1>3. NodeInv(policy, m, t)
  BY <1>2 DEF NodeInv
<1> QED BY <1>3 DEF m

LEMMA DebugLineInv ==
  ASSUME NEW set, NEW n, NEW t \in Nat, NodeInv(set.policy, n, t)
  PROVE  NodeInv(set.policy, DebugLine(set, n, t), t)
<1>1. RoundInv(set.policy, n.round, t)
  BY DEF NodeInv
<1>2. RoundInv(set.policy, StartRound(Expired(n.round, t), t), t)
  BY StartedInv
<1>3. CASE set.parser = "distance"
  <2>1. DebugLine(set, n, t) = [n EXCEPT !.round = n.round]
    BY <1>3, Zenon DEF DebugLine
  <2> QED BY <1>1, <2>1, NodeWithRound
<1>4. CASE set.parser # "distance"
  <2>1. DebugLine(set, n, t) = [n EXCEPT !.round = StartRound(Expired(n.round, t), t)]
    BY <1>4, Zenon DEF DebugLine
  <2> QED BY <1>2, <2>1, NodeWithRound
<1> QED BY <1>3, <1>4

LEMMA IdleInv ==
  ASSUME NEW policy, NEW n, NEW t \in Nat, NodeInv(policy, n, t)
  PROVE  NodeInv(policy, Idle(n, t), t)
<1>1. RoundInv(policy, Expired(n.round, t), t)
  BY ExpiredYoung DEF NodeInv
<1>2. Idle(n, t) = [n EXCEPT !.round = Expired(n.round, t)]
  BY Zenon DEF Idle
<1> QED BY <1>1, <1>2, NodeWithRound

\* A distance line: what it publishes is near its stamp.
LEMMA DistanceLineInv ==
  ASSUME NEW set, NEW n, NEW t \in Nat, NodeInv(set.policy, n, t),
         NEW a \in Anchors, NEW v \in {0} \cup Good \cup Bad, NEW c \in Contexts, c.at = t
  PROVE  LET done == DistanceLine(set, n, a, v, c) IN
         NodeInv(set.policy, done.node, t) /\ done.out \in Seq(RangeArrays)
<1> DEFINE round == Expired(n.round, t)
           grown == Collected(set, round, a, v, c)
           single == [anchor |-> a, value |-> v, read |-> c.at]
           done == DistanceLine(set, n, a, v, c)
           bare == [n EXCEPT !.round = NoRound]
<1>1. /\ RoundInv(set.policy, round, t)
      /\ round.waiting => t - round.started < RoundTimeout
  BY ExpiredYoung DEF NodeInv
<1>2. RoundInv(set.policy, NoRound, t)
  BY NoRoundInv
<1>3. /\ NodeInv(set.policy, [n EXCEPT !.round = round], t)
      /\ NodeInv(set.policy, bare, t)
  BY <1>1, <1>2, NodeWithRound
<1>4. /\ RoundInv(set.policy, grown, t) /\ grown.started = round.started
      /\ grown.waiting = round.waiting
  <2> HIDE DEF round
  <2> QED BY <1>1, CollectedInv
<1>5. NodeInv(set.policy, [n EXCEPT !.round = grown], t)
  <2> HIDE DEF grown
  <2> QED BY <1>4, NodeWithRound
<1>6. <<>> \in Seq(RangeArrays)
  BY EmptySeq
<1>7. CASE set.parser = "distance"
  <2>1. done = Publish(set, n, <<single>>, c, t)
    BY <1>7, Zenon DEF DistanceLine
  <2>2. PICK rs \in Seq(Reads) : /\ rs = <<single>>
                                 /\ \A i \in DOMAIN rs : rs[i].read - c.at < RoundTimeout
    <3>1. single \in Reads /\ single.read - c.at = 0
      BY DEF Reads, Contexts
    <3>2. 0 < RoundTimeout
      BY RoundsAssumption
    <3> HIDE DEF single
    <3>3. <<single>> \in Seq(Reads) /\ DOMAIN <<single>> = {1} /\ <<single>>[1] = single
      BY <3>1
    <3> QED BY <3>1, <3>2, <3>3
  <2>3. n = [round |-> n.round, filter |-> n.filter, mapper |-> n.mapper]
    BY DEF NodeInv
  <2>6. done = Publish(set, n, rs, c, t)
    BY <2>1, <2>2, Zenon
  <2>7. rs \in Seq(Reads) /\ \A i \in DOMAIN rs : rs[i].read - c.at < RoundTimeout
    BY <2>2
  <2> HIDE DEF single, done
  <2>4. /\ done.out \in Seq(RangeArrays) /\ done.node.round = n.round
        /\ done.node = [round |-> done.node.round, filter |-> done.node.filter,
                        mapper |-> done.node.mapper]
    BY <2>6, <2>7, <2>3, PublishInv
  <2>5. NodeInv(set.policy, done.node, t)
    BY <2>4 DEF NodeInv
  <2> QED BY <2>4, <2>5 DEF done
<1>8. CASE set.parser # "distance" /\ ~round.waiting
  <2>1. done = [node |-> [n EXCEPT !.round = round], out |-> <<>>]
    BY <1>8, Zenon DEF DistanceLine
  <2> QED BY <1>3, <1>6, <2>1
<1>9. CASE set.parser # "distance" /\ round.waiting /\ ~Complete(grown)
  <2>1. done = [node |-> [n EXCEPT !.round = grown], out |-> <<>>]
    BY <1>9, Zenon DEF DistanceLine
  <2> QED BY <1>5, <1>6, <2>1
<1>10. CASE set.parser # "distance" /\ round.waiting /\ Complete(grown) /\ grown.ranges = <<>>
  <2>1. done = [node |-> bare, out |-> <<>>]
    BY <1>10, Zenon DEF DistanceLine
  <2> QED BY <1>3, <1>6, <2>1
<1>11. CASE set.parser # "distance" /\ round.waiting /\ Complete(grown) /\ grown.ranges # <<>>
  <2>1. done = Publish(set, bare, grown.ranges, grown.context, t)
    BY <1>11, Zenon DEF DistanceLine
  <2>2. OwnLine(grown, t) /\ grown.ranges \in Seq(Reads) /\ grown.started \in Int
    BY <1>4, <1>11 DEF RoundInv, Rounds
  <2>3. grown.context \in Contexts /\ grown.context.at \in grown.started..t /\ grown.context.at \in Int
    BY <2>2 DEF OwnLine
  <2>4. t - grown.started < RoundTimeout /\ RoundTimeout \in Nat
    BY <1>1, <1>4, <1>11, RoundsAssumption
  <2>5. \A i \in DOMAIN grown.ranges : grown.ranges[i].read \in grown.started..t
    BY <1>4 DEF RoundInv
  <2> HIDE DEF grown, done, bare
  <2>6. \A i \in DOMAIN grown.ranges : grown.ranges[i].read - grown.context.at < RoundTimeout
    BY <2>2, <2>3, <2>4, <2>5
  <2>7. bare = [round |-> bare.round, filter |-> bare.filter, mapper |-> bare.mapper]
    BY <1>3 DEF NodeInv
  <2>8. /\ done.out \in Seq(RangeArrays) /\ done.node.round = bare.round
        /\ done.node = [round |-> done.node.round, filter |-> done.node.filter,
                        mapper |-> done.node.mapper]
    BY <2>1, <2>2, <2>3, <2>6, <2>7, PublishInv
  <2>9. NodeInv(set.policy, done.node, t)
    BY <1>3, <2>8 DEF NodeInv
  <2> QED BY <2>8, <2>9 DEF done
<1> QED BY <1>7, <1>8, <1>9, <1>10, <1>11

-----------------------------------------------------------------------------
(***************************************************************************)
(* UwbManager: what it hands on are ranges it was given.                   *)
(***************************************************************************)
\* The end of a sequence.
LEMMA Suffix ==
  ASSUME NEW S, NEW s \in Seq(S), NEW k \in Nat
  PROVE  /\ SubSeq(s, k + 1, Len(s)) \in Seq(S)
         /\ Len(SubSeq(s, k + 1, Len(s))) = IF k <= Len(s) THEN Len(s) - k ELSE 0
         /\ \A i \in 1..(Len(s) - k) : SubSeq(s, k + 1, Len(s))[i] = s[k + i]
<1>1. Len(s) \in Nat /\ \A i \in k + 1 .. Len(s) : s[i] \in S
  BY LenProperties, ElementOfSeq
<1>2. k + 1 \in Int /\ Len(s) \in Int
  BY <1>1
<1>3. /\ SubSeq(s, k + 1, Len(s)) \in Seq(S)
      /\ Len(SubSeq(s, k + 1, Len(s))) = IF k + 1 <= Len(s) THEN Len(s) - (k + 1) + 1 ELSE 0
      /\ \A i \in 1 .. Len(s) - (k + 1) + 1 : SubSeq(s, k + 1, Len(s))[i] = s[k + 1 + i - 1]
  BY <1>1, <1>2, SubSeqProperties
<1>4. ASSUME NEW i \in 1..(Len(s) - k)
      PROVE  SubSeq(s, k + 1, Len(s))[i] = s[k + i]
  <2>1. i \in 1 .. Len(s) - (k + 1) + 1 /\ k + 1 + i - 1 = k + i
    BY <1>1
  <2> QED BY <1>3, <2>1
<1> QED BY <1>1, <1>3, <1>4

LEMMA QueuedType ==
  ASSUME NEW q \in Seq(Measured), NEW rs \in Seq(Measured)
  PROVE  Queued(q, rs) \in Seq(Measured)
<1>1. PICK g \in Seq(Measured) : g = q \o rs
  BY ConcatProperties
<1>2. Len(g) \in Nat /\ MaxQueue \in Nat
  BY LenProperties, ManagerAssumption
<1>3. PICK k \in Nat : k = IF Len(g) > MaxQueue THEN Len(g) - MaxQueue ELSE 0
  BY SMTT(30), <1>2
<1>4. Queued(q, rs) = SubSeq(g, k + 1, Len(g))
  BY <1>1, <1>3, Zenon DEF Queued
<1> QED BY <1>4, Suffix

LEMMA IngestedType ==
  ASSUME NEW q \in Seq(Measured), NEW array \in RangeArrays
  PROVE  Ingested(q, array) \in Seq(Measured)
<1> DEFINE Entry(i) == [anchor |-> array.ranges[i].anchor, stamp |-> array.stamp,
                        valid |-> array.ranges[i].valid, gap |-> array.ranges[i].gap]
<1>1. array.stamp \in Int /\ array.ranges \in Seq(Slots)
  BY DEF RangeArrays
<1>2. Len(array.ranges) \in Nat /\ DOMAIN array.ranges = 1..Len(array.ranges)
  BY <1>1, LenProperties
<1>3. ASSUME NEW i \in 1..Len(array.ranges) PROVE Entry(i) \in Measured
  <2>1. array.ranges[i] \in Slots
    BY <1>1, ElementOfSeq
  <2> QED BY <1>1, <2>1 DEF Slots, Measured
<1>4. [i \in DOMAIN array.ranges |-> Entry(i)] \in Seq(Measured)
  <2> HIDE DEF Entry
  <2> QED BY <1>2, <1>3 DEF Seq
<1>5. Ingested(q, array) = IF array.stamp = 0 THEN q
                           ELSE Queued(q, [i \in DOMAIN array.ranges |-> Entry(i)])
  BY Zenon DEF Ingested
<1> HIDE DEF Entry
<1> QED BY <1>4, <1>5, QueuedType

LEMMA ParsedType ==
  ASSUME NEW a \in Anchors, NEW v, NEW t \in Int
  PROVE  <<Parsed(a, v, t)>> \in Seq(Measured)
<1>1. 0 \in Gaps /\ (v \in Usable) \in BOOLEAN
  BY RoundsAssumption DEF Gaps
<1>2. Parsed(a, v, t) \in Measured
  BY <1>1, Zenon DEF Parsed, Measured
<1> QED BY <1>2

LEMMA RecentType ==
  ASSUME NEW q \in Seq(Measured), NEW t
  PROVE  Recent(q, t) \in Seq(Measured)
<1> DEFINE I == {i \in DOMAIN q : MaxAge = 0 \/ t - q[i].stamp <= MaxAge}
<1>1. I \in SUBSET (1..Len(q))
  BY LenProperties
<1>2. Recent(q, t) = At(q, I)
  BY DEF Recent
<1> HIDE DEF I
<1> QED BY <1>1, <1>2, AtElements

Replays == [next : Nat \ {0}, last : Int]

LEMMA TakeReplayType ==
  ASSUME NEW f \in Seq(Recorded), NEW rp \in Replays, NEW begin \in Int, NEW rel \in Int
  PROVE  LET took == TakeReplay(f, rp, begin, rel) IN
         took.replay \in Replays /\ took.taken \in Seq(Recorded)
<1>1. Len(f) \in Nat /\ rp.next \in Nat \ {0} /\ <<>> \in Seq(Recorded)
  BY LenProperties, EmptySeq DEF Replays
<1>2. CASE rp.next > Len(f) \/ rel < 0
  <2>1. TakeReplay(f, rp, begin, rel) = [replay |-> rp, taken |-> <<>>]
    BY <1>2, Zenon DEF TakeReplay
  <2> QED BY <1>1, <2>1
<1>3. CASE ~(rp.next > Len(f) \/ rel < 0)
  <2> DEFINE first == IF Rewound(rp, rel) THEN 1 ELSE rp.next
             Passing == {i \in first..Len(f) : StartOffset + f[i].stamp - begin <= rel + Match}
             due == IF StartOffset > 0 /\ rel + Match < StartOffset THEN 0
                    ELSE Due(f, first, rel, begin)
             I == {i \in first..(first + due - 1) : Timely(f[i], rel, begin)}
  <2>1. first \in 1..Len(f)
    BY <1>1, <1>3
  <2>2. TakeReplay(f, rp, begin, rel) = [replay |-> [next |-> first + due, last |-> rel],
                                         taken |-> At(f, I)]
    BY <1>3, Zenon DEF TakeReplay
  <2>3. Due(f, first, rel, begin) = Cardinality(Passing)
    BY DEF Due
  <2> HIDE DEF first
  <2>4. Cardinality(Passing) \in 0..(Len(f) - first + 1)
    <3>1. Passing \in SUBSET (first..Len(f)) /\ first \in Int /\ Len(f) \in Int
      BY <1>1, <2>1
    <3> HIDE DEF Passing
    <3>2. IsFiniteSet(first..Len(f)) /\ Cardinality(first..Len(f)) = Len(f) - first + 1
      <4>1. /\ IsFiniteSet(first..Len(f))
            /\ Cardinality(first..Len(f)) = IF first > Len(f) THEN 0 ELSE Len(f) - first + 1
        BY <3>1, FS_Interval
      <4> QED BY <2>1, <4>1
    <3>3. IsFiniteSet(Passing) /\ Cardinality(Passing) <= Cardinality(first..Len(f))
      BY <3>1, <3>2, FS_Subset
    <3>4. Cardinality(Passing) \in Nat
      BY <3>3, FS_CardinalityType
    <3> QED BY <1>1, <2>1, <3>2, <3>3, <3>4
  <2>5. due \in 0..(Len(f) - first + 1)
    BY <1>1, <2>1, <2>3, <2>4
  <2> HIDE DEF due, Passing
  <2>6. I \in SUBSET (1..Len(f)) /\ first + due \in Nat \ {0}
    BY <1>1, <2>1, <2>5
  <2> HIDE DEF I
  <2>7. At(f, I) \in Seq(Recorded)
    BY <2>6, AtElements
  <2> QED BY <2>2, <2>6, <2>7 DEF Replays
<1> QED BY <1>2, <1>3

LEMMA RebasedType ==
  ASSUME NEW taken \in Seq(Recorded), NEW begin \in Int
  PROVE  Rebased(taken, begin, LidarStart) \in Seq(Measured)
<1> DEFINE Entry(i) == [anchor |-> taken[i].anchor, stamp |-> LidarStart + taken[i].stamp - begin,
                        valid |-> TRUE, gap |-> 0]
<1>1. Len(taken) \in Nat /\ DOMAIN taken = 1..Len(taken)
  BY LenProperties
<1>2. ASSUME NEW i \in 1..Len(taken) PROVE Entry(i) \in Measured
  <2>1. taken[i] \in Recorded
    BY ElementOfSeq
  <2>2. taken[i].anchor \in Anchors /\ taken[i].stamp \in Int
    BY <2>1 DEF Recorded
  <2>3. LidarStart \in Int
    BY ChainAssumption, Zenon, NatInt
  <2>4. LidarStart + taken[i].stamp - begin \in Int /\ 0 \in Gaps
    BY <2>2, <2>3, RoundsAssumption DEF Gaps
  <2> QED BY <2>2, <2>4, Zenon DEF Measured
<1>3. Rebased(taken, begin, LidarStart) = [i \in DOMAIN taken |-> Entry(i)]
  BY Zenon DEF Rebased
<1> HIDE DEF Entry
<1> QED BY <1>1, <1>2, <1>3 DEF Seq

\* What is loaded are lines of the file.
LEMMA LoadedType ==
  ASSUME NEW ls \in Seq(Recorded), NEW f \in LoadReplayFile(ls)
  PROVE  f \in Seq(Recorded)
<1> DEFINE I == {i \in DOMAIN ls : /\ ls[i].value \in Usable
                                   /\ Configured = {} \/ ls[i].anchor \in Configured}
           some == At(ls, I)
<1>1. some \in Seq(Recorded)
  <2>1. I \in SUBSET (1..Len(ls))
    BY LenProperties
  <2> HIDE DEF I
  <2> QED BY <2>1, AtElements
<1>2. PICK all \in SortedForms(some) : f = Deduplicated(all)
  BY Zenon DEF LoadReplayFile
<1> HIDE DEF some
<1>3. all \in Seq(Recorded)
  <2>1. PICK p \in [DOMAIN some -> DOMAIN some] : all = [k \in DOMAIN some |-> some[p[k]]]
    BY <1>2, Zenon DEF SortedForms
  <2>2. Len(some) \in Nat /\ DOMAIN some = 1..Len(some)
    BY <1>1, LenProperties
  <2>3. \A k \in 1..Len(some) : p[k] \in 1..Len(some)
    BY <2>1, <2>2
  <2>4. \A k \in 1..Len(some) : some[p[k]] \in Recorded
    BY <1>1, <2>3, ElementOfSeq
  <2> QED BY <2>1, <2>2, <2>4 DEF Seq
<1>4. \E J \in SUBSET (1..Len(all)) : Deduplicated(all) = At(all, J)
  <2>1. \E J \in SUBSET (DOMAIN all) : Deduplicated(all) = At(all, J)
    BY Zenon DEF Deduplicated
  <2> QED BY <1>3, <2>1, LenProperties
<1>5. PICK J \in SUBSET (1..Len(all)) : f = At(all, J)
  BY <1>2, <1>4
<1> QED BY <1>3, <1>5, AtElements

-----------------------------------------------------------------------------
(***************************************************************************)
(* The backend.  The ranges that wait are in the order of their stamps,    *)
(* those of one anchor strictly; each lies behind the last factor of its   *)
(* anchor and not past the last stamp enqueued for it.                     *)
(***************************************************************************)
Stamps == [Anchors -> Int]

\* p waits, en and ad are the last stamps enqueued and added of each anchor.
OrderInv(p, en, ad) ==
  /\ \A i, j \in 1..Len(p) :
       i < j => /\ p[i].stamp <= p[j].stamp
                /\ p[i].anchor = p[j].anchor => p[i].stamp < p[j].stamp
  /\ \A i \in 1..Len(p) : ad[p[i].anchor] < p[i].stamp /\ p[i].stamp <= en[p[i].anchor]
  /\ \A a \in Anchors : ad[a] <= en[a]

LEMMA MeasuredFields ==
  ASSUME NEW p \in Seq(Measured)
  PROVE  /\ Len(p) \in Nat /\ DOMAIN p = 1..Len(p)
         /\ \A i \in 1..Len(p) : /\ p[i] \in Measured /\ p[i].stamp \in Int
                                 /\ p[i].anchor \in Anchors /\ p[i].gap \in Gaps
<1>1. \A i \in 1..Len(p) : p[i] \in Measured
  BY ElementOfSeq
<1> QED BY <1>1, LenProperties DEF Measured

\* What is left of an ordered sequence when its head or more is taken.
LEMMA SuffixOrder ==
  ASSUME NEW p \in Seq(Measured), NEW en \in Stamps, NEW ad \in Stamps,
         OrderInv(p, en, ad), NEW k \in 0..Len(p)
  PROVE  LET q == SubSeq(p, k + 1, Len(p)) IN
         q \in Seq(Measured) /\ Len(q) = Len(p) - k /\ OrderInv(q, en, ad)
<1>1. Len(p) \in Nat /\ k \in Nat
  BY LenProperties
<1>2. PICK q \in Seq(Measured) : /\ q = SubSeq(p, k + 1, Len(p))
                                 /\ Len(q) = IF k <= Len(p) THEN Len(p) - k ELSE 0
                                 /\ \A i \in 1..(Len(p) - k) : q[i] = p[k + i]
  <2>1. /\ SubSeq(p, k + 1, Len(p)) \in Seq(Measured)
        /\ Len(SubSeq(p, k + 1, Len(p))) = IF k <= Len(p) THEN Len(p) - k ELSE 0
        /\ \A i \in 1..(Len(p) - k) : SubSeq(p, k + 1, Len(p))[i] = p[k + i]
    BY <1>1, Suffix, Zenon
  <2> QED BY <2>1, Zenon
<1>3. Len(q) = Len(p) - k /\ \A i \in 1..(Len(p) - k) : q[i] = p[k + i]
  <2>1. Len(q) = IF k <= Len(p) THEN Len(p) - k ELSE 0
    BY <1>2, Zenon
  <2>2. \A i \in 1..(Len(p) - k) : q[i] = p[k + i]
    BY <1>2, Zenon
  <2>3. Len(q) = Len(p) - k
    BY <1>1, <2>1
  <2> QED BY <2>2, <2>3, Zenon
<1>4. \A i \in 1..Len(q) : q[i] = p[k + i] /\ k + i \in 1..Len(p)
  BY <1>1, <1>3
<1>5. \A i, j \in 1..Len(q) :
        i < j => /\ q[i].stamp <= q[j].stamp
                 /\ q[i].anchor = q[j].anchor => q[i].stamp < q[j].stamp
  <2> SUFFICES ASSUME NEW i \in 1..Len(q), NEW j \in 1..Len(q), i < j
               PROVE  /\ q[i].stamp <= q[j].stamp
                      /\ q[i].anchor = q[j].anchor => q[i].stamp < q[j].stamp
    OBVIOUS
  <2>1. PICK x \in 1..Len(p) : x = k + i
    BY <1>4
  <2>2. PICK y \in 1..Len(p) : y = k + j
    BY <1>4
  <2>3. x < y /\ q[i] = p[x] /\ q[j] = p[y]
    BY <1>1, <1>4, <2>1, <2>2
  <2> QED BY <2>3 DEF OrderInv
<1>6. \A i \in 1..Len(q) : ad[q[i].anchor] < q[i].stamp /\ q[i].stamp <= en[q[i].anchor]
  BY <1>4 DEF OrderInv
<1>7. OrderInv(q, en, ad)
  BY <1>5, <1>6 DEF OrderInv
<1> QED BY <1>2, <1>3, <1>7

\* The head becomes a factor: the ranges of its anchor behind it are newer.
LEMMA TailOrder ==
  ASSUME NEW p \in Seq(Measured), p # <<>>, NEW en \in Stamps, NEW ad \in Stamps,
         OrderInv(p, en, ad)
  PROVE  LET ad2 == [ad EXCEPT ![Head(p).anchor] = Head(p).stamp] IN
         /\ Tail(p) \in Seq(Measured) /\ Len(Tail(p)) = Len(p) - 1 /\ Len(p) >= 1
         /\ Head(p) \in Measured
         /\ OrderInv(Tail(p), en, ad)
         /\ ad2 \in Stamps /\ OrderInv(Tail(p), en, ad2)
<1>1. /\ Head(p) \in Measured /\ Tail(p) \in Seq(Measured) /\ Len(Tail(p)) = Len(p) - 1
      /\ \A i \in 1..Len(Tail(p)) : Tail(p)[i] = p[i + 1]
  BY HeadTailProperties
<1>2. Len(p) \in Nat /\ Len(p) >= 1 /\ Head(p) = p[1]
  BY EmptySeq, LenProperties
<1>3. PICK q \in Seq(Measured) : q = Tail(p)
  BY <1>1
<1>4. \A i \in 1..Len(q) : q[i] = p[i + 1] /\ i + 1 \in 1..Len(p) /\ i + 1 > 1
  BY <1>1, <1>2, <1>3
<1>5. \A i, j \in 1..Len(q) :
        i < j => /\ q[i].stamp <= q[j].stamp
                 /\ q[i].anchor = q[j].anchor => q[i].stamp < q[j].stamp
  <2> SUFFICES ASSUME NEW i \in 1..Len(q), NEW j \in 1..Len(q), i < j
               PROVE  /\ q[i].stamp <= q[j].stamp
                      /\ q[i].anchor = q[j].anchor => q[i].stamp < q[j].stamp
    OBVIOUS
  <2>1. PICK x \in 1..Len(p) : x = i + 1
    BY <1>4
  <2>2. PICK y \in 1..Len(p) : y = j + 1
    BY <1>4
  <2>3. x < y /\ q[i] = p[x] /\ q[j] = p[y]
    BY <1>4, <2>1, <2>2
  <2> QED BY <2>3 DEF OrderInv
<1>6. \A i \in 1..Len(q) : ad[q[i].anchor] < q[i].stamp /\ q[i].stamp <= en[q[i].anchor]
  BY <1>4 DEF OrderInv
<1>7. \A a \in Anchors : ad[a] <= en[a]
  BY DEF OrderInv
<1>8. OrderInv(q, en, ad)
  BY <1>5, <1>6, <1>7 DEF OrderInv
<1>9. PICK h \in Measured : h = p[1]
  BY <1>1, <1>2
<1>10. h.anchor \in Anchors /\ h.stamp \in Int
  BY <1>9 DEF Measured
<1>11. PICK ad2 \in Stamps : ad2 = [ad EXCEPT ![h.anchor] = h.stamp]
  BY <1>10 DEF Stamps
<1>12. /\ ad2[h.anchor] = h.stamp
       /\ \A a \in Anchors : a # h.anchor => ad2[a] = ad[a]
  BY <1>10, <1>11 DEF Stamps
<1>13. h.stamp <= en[h.anchor] /\ 1 \in 1..Len(p)
  BY <1>2, <1>9 DEF OrderInv
<1>14. \A a \in Anchors : ad2[a] <= en[a]
  BY <1>7, <1>12, <1>13
<1>15. \A i \in 1..Len(q) : ad2[q[i].anchor] < q[i].stamp
  <2> SUFFICES ASSUME NEW i \in 1..Len(q) PROVE ad2[q[i].anchor] < q[i].stamp
    OBVIOUS
  <2>1. q[i].anchor \in Anchors /\ q[i].stamp \in Int
    BY MeasuredFields
  <2>2. CASE q[i].anchor = h.anchor
    <3>1. PICK x \in 1..Len(p) : x = i + 1 /\ 1 < x /\ q[i] = p[x]
      BY <1>4
    <3>2. h.stamp < p[x].stamp
      BY <1>9, <1>13, <2>2, <3>1 DEF OrderInv
    <3> QED BY <1>12, <2>2, <3>1, <3>2
  <2>3. CASE q[i].anchor # h.anchor
    BY <1>6, <1>12, <2>1, <2>3
  <2> QED BY <2>2, <2>3
<1>16. OrderInv(q, en, ad2)
  BY <1>5, <1>6, <1>14, <1>15 DEF OrderInv
<1> QED BY <1>1, <1>2, <1>3, <1>8, <1>9, <1>11, <1>16

\* A range newer than the last of its anchor takes its place by its stamp.
LEMMA InsertOrder ==
  ASSUME NEW p \in Seq(Measured), NEW en \in Stamps, NEW ad \in Stamps, OrderInv(p, en, ad),
         NEW r \in Measured, r.stamp > en[r.anchor]
  PROVE  LET q == InsertSorted(p, r)
             en2 == [en EXCEPT ![r.anchor] = r.stamp] IN
         /\ q \in Seq(Measured) /\ Len(q) = Len(p) + 1
         /\ en2 \in Stamps /\ OrderInv(q, en2, ad)
<1>1. r.stamp \in Int /\ r.anchor \in Anchors
  BY DEF Measured
<1>2. /\ Len(p) \in Nat /\ DOMAIN p = 1..Len(p)
      /\ \A i \in 1..Len(p) : p[i] \in Measured /\ p[i].stamp \in Int /\ p[i].anchor \in Anchors
  BY MeasuredFields
<1>3. PICK n \in 0..Len(p) : /\ n = Cardinality({i \in DOMAIN p : p[i].stamp <= r.stamp})
                             /\ \A i \in 1..Len(p) : i <= n <=> p[i].stamp <= r.stamp
  <2>1. \A i, j \in 1..Len(p) : i < j => p[i].stamp <= p[j].stamp
    BY DEF OrderInv
  <2> QED BY <1>1, <1>2, <2>1, PrefixUpTo
<1>4. n \in Nat /\ n <= Len(p)
  BY <1>2, <1>3
<1>20. \A i \in 1..Len(p) : i <= n <=> p[i].stamp <= r.stamp
  BY <1>3, Zenon
<1>5. PICK low \in Seq(Measured) : low = SubSeq(p, 1, n) /\ Len(low) = n
                                   /\ \A i \in 1..n : low[i] = p[i]
  <2>1. \A i \in 1..n : p[i] \in Measured
    BY <1>2, <1>4
  <2>2. /\ SubSeq(p, 1, n) \in Seq(Measured)
        /\ Len(SubSeq(p, 1, n)) = IF 1 <= n THEN n - 1 + 1 ELSE 0
        /\ \A i \in 1 .. n - 1 + 1 : SubSeq(p, 1, n)[i] = p[1 + i - 1]
    BY <1>4, <2>1, SubSeqProperties
  <2>3. \A i \in 1..n : SubSeq(p, 1, n)[i] = p[i]
    <3> TAKE i \in 1..n
    <3>1. i \in 1 .. n - 1 + 1 /\ 1 + i - 1 = i
      BY <1>4
    <3> QED BY <2>2, <3>1
  <2>4. Len(SubSeq(p, 1, n)) = n
    <3>1. Len(SubSeq(p, 1, n)) = IF 1 <= n THEN n - 1 + 1 ELSE 0
      BY <2>2, Zenon
    <3> QED BY <1>4, <3>1
  <2> QED BY <2>2, <2>3, <2>4, Zenon
<1>6. PICK high \in Seq(Measured) : high = SubSeq(p, n + 1, Len(p)) /\ Len(high) = Len(p) - n
                                    /\ \A i \in 1..(Len(p) - n) : high[i] = p[n + i]
  BY <1>4, Suffix
<1>7. <<r>> \in Seq(Measured) /\ Len(<<r>>) = 1 /\ <<r>>[1] = r
  OBVIOUS
<1>8. PICK mid \in Seq(Measured) : /\ mid = low \o <<r>> /\ Len(mid) = n + 1
                                   /\ \A i \in 1..n : mid[i] = p[i]
                                   /\ mid[n + 1] = r
  <2>1. PICK one \in Seq(Measured) : one = <<r>> /\ Len(one) = 1 /\ one[1] = r
    BY <1>7
  <2>2. /\ low \o one \in Seq(Measured) /\ Len(low \o one) = n + 1
        /\ \A i \in 1 .. n + 1 : (low \o one)[i] = IF i <= n THEN low[i] ELSE one[i - n]
    BY <1>5, <2>1, ConcatProperties
  <2>3. \A i \in 1..n : (low \o one)[i] = p[i]
    BY <1>4, <1>5, <2>2
  <2>4. (low \o one)[n + 1] = r
    <3>1. n + 1 \in 1 .. n + 1 /\ ~(n + 1 <= n) /\ n + 1 - n = 1
      BY <1>4
    <3> QED BY <2>1, <2>2, <3>1
  <2> QED BY <2>1, <2>2, <2>3, <2>4
<1>9. PICK q \in Seq(Measured) : /\ q = mid \o high /\ Len(q) = Len(p) + 1
                                 /\ \A i \in 1..n : q[i] = p[i]
                                 /\ q[n + 1] = r
                                 /\ \A i \in (n + 2)..(Len(p) + 1) : q[i] = p[i - 1]
  <2>1. /\ mid \o high \in Seq(Measured) /\ Len(mid \o high) = Len(mid) + Len(high)
        /\ \A i \in 1 .. Len(mid) + Len(high) :
             (mid \o high)[i] = IF i <= Len(mid) THEN mid[i] ELSE high[i - Len(mid)]
    BY ConcatProperties
  <2>0. Len(mid) = n + 1 /\ Len(high) = Len(p) - n
    BY <1>6, <1>8, Zenon
  <2>2. Len(mid) + Len(high) = Len(p) + 1 /\ Len(mid) = n + 1
    BY <1>2, <1>4, <2>0
  <2>3. \A i \in 1..(Len(p) + 1) :
          (mid \o high)[i] = IF i <= n + 1 THEN mid[i] ELSE high[i - (n + 1)]
    BY <2>1, <2>2
  <2>4. \A i \in 1..n : (mid \o high)[i] = p[i]
    BY <1>2, <1>4, <1>8, <2>3
  <2>5. (mid \o high)[n + 1] = r
    BY <1>2, <1>4, <1>8, <2>3
  <2>6. ASSUME NEW i \in (n + 2)..(Len(p) + 1) PROVE (mid \o high)[i] = p[i - 1]
    <3>0. i - (n + 1) \in 1..(Len(p) - n)
      BY <1>2, <1>4
    <3>1. PICK k \in 1..(Len(p) - n) : k = i - (n + 1)
      BY <3>0, Zenon
    <3>2. ~(i <= n + 1) /\ i \in 1..(Len(p) + 1) /\ n + k = i - 1
      BY <1>2, <1>4, <3>1
    <3> QED BY <1>6, <2>3, <3>1, <3>2
  <2> QED BY <2>1, <2>2, <2>4, <2>5, <2>6
<1>19. /\ Len(q) = Len(p) + 1 /\ q[n + 1] = r
       /\ \A i \in 1..n : q[i] = p[i]
       /\ \A i \in (n + 2)..(Len(p) + 1) : q[i] = p[i - 1]
  BY <1>9, Zenon
<1>10. InsertSorted(p, r) = q
  BY <1>3, <1>5, <1>6, <1>8, <1>9, Zenon DEF InsertSorted
<1>11. PICK en2 \in Stamps : en2 = [en EXCEPT ![r.anchor] = r.stamp]
  BY <1>1 DEF Stamps
<1>12. /\ en2[r.anchor] = r.stamp /\ en[r.anchor] \in Int /\ ad[r.anchor] \in Int
       /\ \A a \in Anchors : a # r.anchor => en2[a] = en[a]
  BY <1>1, <1>11 DEF Stamps
\* Where an element of the new sequence comes from.
<1>13. \A i \in 1..Len(q) : \/ i <= n /\ i \in 1..Len(p) /\ q[i] = p[i] /\ p[i].stamp <= r.stamp
                            \/ i = n + 1 /\ q[i] = r
                            \/ i > n + 1 /\ i - 1 \in 1..Len(p) /\ q[i] = p[i - 1]
                               /\ p[i - 1].stamp > r.stamp
  <2> SUFFICES ASSUME NEW i \in 1..Len(q)
               PROVE  \/ i <= n /\ i \in 1..Len(p) /\ q[i] = p[i] /\ p[i].stamp <= r.stamp
                      \/ i = n + 1 /\ q[i] = r
                      \/ i > n + 1 /\ i - 1 \in 1..Len(p) /\ q[i] = p[i - 1]
                         /\ p[i - 1].stamp > r.stamp
    OBVIOUS
  <2>0. i \in 1..(Len(p) + 1)
    BY <1>19
  <2>1. CASE i <= n
    <3>1. i \in 1..n /\ i \in 1..Len(p)
      BY <1>2, <1>4, <2>0, <2>1
    <3> QED BY <1>19, <1>20, <2>1, <3>1
  <2>2. CASE i = n + 1
    BY <1>19, <2>2
  <2>3. CASE i > n + 1
    <3>0. i - 1 \in 1..Len(p) /\ ~(i - 1 <= n) /\ i \in (n + 2)..(Len(p) + 1)
      BY <1>2, <1>4, <2>0, <2>3
    <3>1. PICK k \in 1..Len(p) : k = i - 1 /\ ~(k <= n)
      BY <3>0
    <3>2. p[k].stamp > r.stamp
      <4>1. ~(p[k].stamp <= r.stamp)
        BY <1>20, <3>1
      <4> QED BY <1>1, <1>2, <4>1
    <3>3. q[i] = p[k]
      BY <1>19, <3>0, <3>1
    <3> QED BY <2>3, <3>1, <3>2, <3>3
  <2> QED BY <1>4, <2>0, <2>1, <2>2, <2>3
\* The ranges of the new one's anchor are older.
<1>14. \A i \in 1..Len(p) : p[i].anchor = r.anchor => p[i].stamp < r.stamp
  <2> SUFFICES ASSUME NEW i \in 1..Len(p), p[i].anchor = r.anchor PROVE p[i].stamp < r.stamp
    OBVIOUS
  <2>1. p[i].stamp <= en[r.anchor]
    BY DEF OrderInv
  <2> QED BY <1>1, <1>2, <1>12, <2>1
<1>15. \A i, j \in 1..Len(q) :
         i < j => /\ q[i].stamp <= q[j].stamp
                  /\ q[i].anchor = q[j].anchor => q[i].stamp < q[j].stamp
  <2> SUFFICES ASSUME NEW i \in 1..Len(q), NEW j \in 1..Len(q), i < j
               PROVE  /\ q[i].stamp <= q[j].stamp
                      /\ q[i].anchor = q[j].anchor => q[i].stamp < q[j].stamp
    OBVIOUS
  <2>1. CASE i = n + 1
    <3>0. j > n + 1
      BY <1>4, <1>19, <2>1
    <3>1. PICK y \in 1..Len(p) : q[j] = p[y] /\ p[y].stamp > r.stamp
      <4>1. j - 1 \in 1..Len(p) /\ q[j] = p[j - 1] /\ p[j - 1].stamp > r.stamp
        BY <1>4, <1>13, <3>0
      <4> QED BY <4>1, Zenon
    <3> QED BY <1>1, <1>2, <1>13, <1>14, <2>1, <3>1
  <2>2. CASE j = n + 1
    <3>1. PICK x \in 1..Len(p) : q[i] = p[x] /\ p[x].stamp <= r.stamp
      BY <1>4, <1>13, <2>2
    <3>2. q[j] = r
      BY <1>13, <2>2
    <3> QED BY <1>1, <1>2, <1>14, <3>1, <3>2
  <2>3. CASE i # n + 1 /\ j # n + 1
    <3>0. ASSUME NEW m \in 1..Len(q), m # n + 1
          PROVE  \E x \in 1..Len(p) : q[m] = p[x] /\ x = IF m <= n THEN m ELSE m - 1
      <4>1. CASE m <= n
        BY <1>4, <1>13, <4>1
      <4>2. CASE ~(m <= n)
        <5>1. m - 1 \in 1..Len(p) /\ q[m] = p[m - 1]
          BY <1>4, <1>13, <3>0, <4>2
        <5> QED BY <4>2, <5>1
      <4> QED BY <4>1, <4>2
    <3>1. PICK x \in 1..Len(p) : q[i] = p[x] /\ x = IF i <= n THEN i ELSE i - 1
      BY <2>3, <3>0
    <3>2. PICK y \in 1..Len(p) : q[j] = p[y] /\ y = IF j <= n THEN j ELSE j - 1
      BY <2>3, <3>0
    <3>3. x < y
      <4>1. /\ x = IF i <= n THEN i ELSE i - 1
            /\ y = IF j <= n THEN j ELSE j - 1
        BY <3>1, <3>2, Zenon
      <4> QED BY <1>4, <1>19, <2>3, <4>1
    <3> QED BY <3>1, <3>2, <3>3 DEF OrderInv
  <2> QED BY <2>1, <2>2, <2>3
<1>16. \A i \in 1..Len(q) : ad[q[i].anchor] < q[i].stamp /\ q[i].stamp <= en2[q[i].anchor]
  <2> SUFFICES ASSUME NEW i \in 1..Len(q)
               PROVE  ad[q[i].anchor] < q[i].stamp /\ q[i].stamp <= en2[q[i].anchor]
    OBVIOUS
  <2>1. CASE q[i] = r
    <3>1. ad[r.anchor] <= en[r.anchor]
      BY <1>1 DEF OrderInv
    <3> QED BY <1>1, <1>12, <2>1, <3>1
  <2>2. CASE \E x \in 1..Len(p) : q[i] = p[x]
    <3>1. PICK x \in 1..Len(p) : q[i] = p[x]
      BY <2>2
    <3>2. ad[p[x].anchor] < p[x].stamp /\ p[x].stamp <= en[p[x].anchor]
      BY DEF OrderInv
    <3>3. p[x].stamp <= en2[p[x].anchor]
      <4>1. CASE p[x].anchor = r.anchor
        BY <1>1, <1>2, <1>12, <1>14, <4>1
      <4>2. CASE p[x].anchor # r.anchor
        BY <1>2, <1>12, <3>2, <4>2
      <4> QED BY <4>1, <4>2
    <3> QED BY <3>1, <3>2, <3>3
  <2> QED BY <1>13, <2>1, <2>2
<1>17. \A a \in Anchors : ad[a] <= en2[a]
  <2> SUFFICES ASSUME NEW a \in Anchors PROVE ad[a] <= en2[a]
    OBVIOUS
  <2>1. ad[a] <= en[a] /\ ad[a] \in Int /\ en[a] \in Int
    BY DEF OrderInv, Stamps
  <2>2. CASE a = r.anchor
    <3>1. ad[a] <= en[r.anchor] /\ en2[a] = r.stamp
      BY <1>12, <2>1, <2>2, Zenon
    <3> QED BY <1>1, <1>12, <2>1, <3>1
  <2>3. CASE a # r.anchor
    <3>1. en2[a] = en[a]
      BY <1>12, <2>3, Zenon
    <3> QED BY <2>1, <3>1
  <2> QED BY <2>2, <2>3
<1>18. OrderInv(q, en2, ad)
  BY <1>15, <1>16, <1>17 DEF OrderInv
<1> QED BY <1>9, <1>10, <1>11, <1>18

-----------------------------------------------------------------------------
(***************************************************************************)
(* The invariant, in the parts that change together.                       *)
(***************************************************************************)
Tallies == [received : Nat, rejected : Nat, accepted : Nat]

\* Of what c counts as received, n wait.
Balanced(c, n) == c \in Tallies /\ c.received = c.rejected + c.accepted + n

\* The serial node and its clocks.
SerialInv ==
  /\ now \in Nat /\ imu.epoch \in Nat /\ imu.err \in Int
  /\ NodeInv(setup.policy, node, now) /\ arrays \in Seq(RangeArrays)

\* The transport.
ManagerInv ==
  /\ file \in Seq(Recorded) /\ start \in Int /\ replay \in Replays /\ lio \in Int
  /\ queue \in Seq(Measured) /\ ranges \in Seq(Measured)

\* The backend: nothing is lost of what was received, and what waits is in order.
WaitingInv ==
  /\ pending \in Seq(Measured) /\ enqueued \in Stamps /\ added \in Stamps
  /\ Balanced(count, Len(pending)) /\ OrderInv(pending, enqueued, added)

ChainInv == SerialInv /\ ManagerInv /\ WaitingInv

waitingVars == <<pending, enqueued, added, count>>
heldVars == <<file, start, replay, lio, queue, ranges>>
serialVars == <<now, imu, setup, node, arrays>>

LEMMA SerialFrame == SerialInv /\ UNCHANGED serialVars => SerialInv'
BY Zenon DEF SerialInv, serialVars

LEMMA ManagerFrame == ManagerInv /\ UNCHANGED heldVars => ManagerInv'
BY Zenon DEF ManagerInv, heldVars

LEMMA WaitingFrame == WaitingInv /\ UNCHANGED waitingVars => WaitingInv'
BY Zenon DEF WaitingInv, waitingVars

\* Counting: one received, n rejected, one accepted.
LEMMA Counted ==
  ASSUME NEW c \in Tallies, NEW n \in Nat
  PROVE  /\ [c EXCEPT !.received = @ + 1]
              = [received |-> c.received + 1, rejected |-> c.rejected, accepted |-> c.accepted]
         /\ [c EXCEPT !.received = @ + 1, !.rejected = @ + 1]
              = [received |-> c.received + 1, rejected |-> c.rejected + 1, accepted |-> c.accepted]
         /\ [c EXCEPT !.rejected = @ + n]
              = [received |-> c.received, rejected |-> c.rejected + n, accepted |-> c.accepted]
         /\ [c EXCEPT !.accepted = @ + 1]
              = [received |-> c.received, rejected |-> c.rejected, accepted |-> c.accepted + 1]
<1>1. [c EXCEPT !.received = @ + 1]
        = [received |-> c.received + 1, rejected |-> c.rejected, accepted |-> c.accepted]
  BY DEF Tallies
<1>2. [c EXCEPT !.rejected = @ + n]
        = [received |-> c.received, rejected |-> c.rejected + n, accepted |-> c.accepted]
  BY DEF Tallies
<1>3. [c EXCEPT !.accepted = @ + 1]
        = [received |-> c.received, rejected |-> c.rejected, accepted |-> c.accepted + 1]
  BY DEF Tallies
<1>4. [c EXCEPT !.received = @ + 1, !.rejected = @ + 1]
        = [received |-> c.received + 1, rejected |-> c.rejected + 1, accepted |-> c.accepted]
  <2> DEFINE one == [c EXCEPT !.received = c.received + 1]
  <2>1. one = [received |-> c.received + 1, rejected |-> c.rejected, accepted |-> c.accepted]
    BY DEF Tallies
  <2>2. [c EXCEPT !.received = @ + 1, !.rejected = @ + 1] = [one EXCEPT !.rejected = c.rejected + 1]
    BY Zenon
  <2> HIDE DEF one
  <2>3. [one EXCEPT !.rejected = c.rejected + 1]
          = [received |-> c.received + 1, rejected |-> c.rejected + 1, accepted |-> c.accepted]
    BY <2>1
  <2> QED BY <2>2, <2>3, Zenon
<1> QED BY <1>1, <1>2, <1>3, <1>4

\* What each change of the counts does to the balance.
LEMMA OneWaits ==
  ASSUME NEW c, NEW l \in Nat, Balanced(c, l)
  PROVE  Balanced([c EXCEPT !.received = @ + 1], l + 1)
<1>1. c \in Tallies /\ c.received \in Nat /\ c.rejected \in Nat /\ c.accepted \in Nat
  BY DEF Balanced, Tallies
<1> DEFINE d == [c EXCEPT !.received = @ + 1]
<1>2. d = [received |-> c.received + 1, rejected |-> c.rejected, accepted |-> c.accepted]
  BY <1>1, Counted
<1> HIDE DEF d
<1>3. c.received + 1 \in Nat /\ c.rejected \in Nat /\ c.accepted \in Nat
  BY <1>1
<1>4. d \in Tallies /\ d.received = c.received + 1 /\ d.rejected = c.rejected /\ d.accepted = c.accepted
  BY <1>2, <1>3 DEF Tallies
<1>5. c.received = c.rejected + c.accepted + l
  BY Zenon DEF Balanced
<1>6. PICK m \in Nat : m = l + 1
  OBVIOUS
<1>7. d.received = d.rejected + d.accepted + m
  BY <1>1, <1>4, <1>5, <1>6
<1>8. Balanced(d, m)
  BY <1>4, <1>7, Zenon DEF Balanced
<1> QED BY <1>6, <1>8, Zenon DEF d

LEMMA OneRefused ==
  ASSUME NEW c, NEW l \in Nat, Balanced(c, l)
  PROVE  Balanced([c EXCEPT !.received = @ + 1, !.rejected = @ + 1], l)
<1>1. c \in Tallies /\ c.received \in Nat /\ c.rejected \in Nat /\ c.accepted \in Nat
  BY DEF Balanced, Tallies
<1> DEFINE d == [c EXCEPT !.received = @ + 1, !.rejected = @ + 1]
<1>2. d = [received |-> c.received + 1, rejected |-> c.rejected + 1, accepted |-> c.accepted]
  BY <1>1, Counted
<1> HIDE DEF d
<1>3. c.received + 1 \in Nat /\ c.rejected + 1 \in Nat /\ c.accepted \in Nat
  BY <1>1
<1>4. d \in Tallies /\ d.received = c.received + 1 /\ d.rejected = c.rejected + 1 /\ d.accepted = c.accepted
  BY <1>2, <1>3 DEF Tallies
<1>5. c.received = c.rejected + c.accepted + l
  BY Zenon DEF Balanced
<1>6. d.received = d.rejected + d.accepted + l
  BY <1>1, <1>4, <1>5
<1>7. Balanced(d, l)
  BY <1>4, <1>6, Zenon DEF Balanced
<1> QED BY <1>7 DEF d

LEMMA SomeRejected ==
  ASSUME NEW c, NEW l \in Nat, Balanced(c, l), NEW n \in Nat, NEW m \in Nat, m + n = l
  PROVE  Balanced([c EXCEPT !.rejected = @ + n], m)
<1>1. c \in Tallies /\ c.received \in Nat /\ c.rejected \in Nat /\ c.accepted \in Nat
  BY DEF Balanced, Tallies
<1> DEFINE d == [c EXCEPT !.rejected = @ + n]
<1>2. d = [received |-> c.received, rejected |-> c.rejected + n, accepted |-> c.accepted]
  BY <1>1, Counted
<1> HIDE DEF d
<1>3. c.received \in Nat /\ c.rejected + n \in Nat /\ c.accepted \in Nat
  BY <1>1
<1>4. d \in Tallies /\ d.received = c.received /\ d.rejected = c.rejected + n /\ d.accepted = c.accepted
  BY <1>2, <1>3 DEF Tallies
<1>5. c.received = c.rejected + c.accepted + l
  BY Zenon DEF Balanced
<1>6. d.received = d.rejected + d.accepted + m
  BY <1>1, <1>4, <1>5
<1>7. Balanced(d, m)
  BY <1>4, <1>6, Zenon DEF Balanced
<1> QED BY <1>7 DEF d

LEMMA OneAccepted ==
  ASSUME NEW c, NEW l \in Nat, Balanced(c, l), NEW m \in Nat, m + 1 = l
  PROVE  Balanced([c EXCEPT !.accepted = @ + 1], m)
<1>1. c \in Tallies /\ c.received \in Nat /\ c.rejected \in Nat /\ c.accepted \in Nat
  BY DEF Balanced, Tallies
<1> DEFINE d == [c EXCEPT !.accepted = @ + 1]
<1>2. d = [received |-> c.received, rejected |-> c.rejected, accepted |-> c.accepted + 1]
  BY <1>1, Counted
<1> HIDE DEF d
<1>3. c.received \in Nat /\ c.rejected \in Nat /\ c.accepted + 1 \in Nat
  BY <1>1
<1>4. d \in Tallies /\ d.received = c.received /\ d.rejected = c.rejected /\ d.accepted = c.accepted + 1
  BY <1>2, <1>3 DEF Tallies
<1>5. c.received = c.rejected + c.accepted + l
  BY Zenon DEF Balanced
<1>6. d.received = d.rejected + d.accepted + m
  BY <1>1, <1>4, <1>5
<1>7. Balanced(d, m)
  BY <1>4, <1>6, Zenon DEF Balanced
<1> QED BY <1>7 DEF d

LEMMA ChainInit == Init => ChainInv
<1> SUFFICES ASSUME Init PROVE ChainInv
  OBVIOUS
<1>1. LidarStart \in Nat
  BY ChainAssumption
<1>2. ClockErrors \in Seq(Int) /\ ClockErrors # <<>> /\ Files \subseteq Seq(Recorded)
  BY ChainAssumption, Zenon
<1>3. ClockErrors[1] \in Int
  BY <1>2, EmptySeq, ElementOfSeq
<1>4. SerialInv
  <2>1. now \in Nat /\ imu.epoch \in Nat /\ imu.err \in Int
    BY <1>1, <1>3 DEF Init
  <2>2. RoundInv(setup.policy, NoRound, now)
    BY <2>1, NoRoundInv
  <2>3. node.round = NoRound
    BY DEF Init, NewNode
  <2>4. node = [round |-> node.round, filter |-> node.filter, mapper |-> node.mapper]
    BY DEF Init, NewNode
  <2>5. arrays \in Seq(RangeArrays)
    BY EmptySeq DEF Init
  <2> QED BY <2>1, <2>2, <2>3, <2>4, <2>5 DEF SerialInv, NodeInv
<1>5. ManagerInv
  <2>1. PICK f \in IF source = "file" THEN Files ELSE {<<>>} :
          file \in LoadReplayFile(f) /\ start = IF f = <<>> THEN 0 ELSE f[1].stamp
    BY Zenon DEF Init
  <2>2. f \in Seq(Recorded)
    BY <1>2, <2>1, EmptySeq
  <2>3. file \in Seq(Recorded)
    BY <2>1, <2>2, LoadedType
  <2>4. start \in Int
    <3>1. CASE f = <<>>
      BY <2>1, <3>1
    <3>2. CASE f # <<>>
      <4>1. 1 \in 1..Len(f)
        BY <2>2, <3>2, EmptySeq
      <4>2. f[1] \in Recorded
        BY <2>2, <4>1, ElementOfSeq
      <4> QED BY <2>1, <3>2, <4>2 DEF Recorded
    <3> QED BY <3>1, <3>2
  <2>5. queue \in Seq(Measured) /\ ranges \in Seq(Measured) /\ lio \in Int
    BY EmptySeq DEF Init
  <2>6. replay \in Replays
    BY DEF Init, NewReplay, Replays
  <2> QED BY <2>3, <2>4, <2>5, <2>6 DEF ManagerInv
<1>6. WaitingInv
  <2>1. pending \in Seq(Measured) /\ Len(pending) = 0
    BY EmptySeq DEF Init
  <2>2. enqueued \in Stamps /\ added \in Stamps /\ \A a \in Anchors : added[a] = 0 /\ enqueued[a] = 0
    BY DEF Init, Stamps
  <2>3. Balanced(count, Len(pending))
    BY <2>1 DEF Init, Tallies, Balanced
  <2>4. OrderInv(pending, enqueued, added)
    BY <2>1, <2>2 DEF OrderInv
  <2> QED BY <2>1, <2>2, <2>3, <2>4 DEF WaitingInv
<1> QED BY <1>4, <1>5, <1>6 DEF ChainInv

\* The steps of the serial node.
LEMMA SerialSteps ==
  ASSUME ChainInv
  PROVE  /\ Tick => ChainInv'
         /\ SerialNode => ChainInv'
<1>1. SerialInv /\ ManagerInv /\ WaitingInv
  BY DEF ChainInv
<1>2. UNCHANGED <<managerVars, wireVars, backendVars>> => ManagerInv' /\ WaitingInv'
  <2>1. UNCHANGED <<managerVars, wireVars, backendVars>> => UNCHANGED heldVars /\ UNCHANGED waitingVars
    BY Zenon DEF managerVars, wireVars, backendVars, heldVars, waitingVars
  <2> QED BY <1>1, <2>1, ManagerFrame, WaitingFrame, Zenon
<1>3. /\ now \in Nat /\ imu.epoch \in Nat /\ imu.err \in Int
      /\ NodeInv(setup.policy, node, now) /\ arrays \in Seq(RangeArrays)
  BY <1>1, Zenon DEF SerialInv
<1>4. ASSUME Tick PROVE ChainInv'
  <2>1. now' \in Nat /\ now <= now'
    BY <1>3, <1>4 DEF Tick
  <2>2. NodeInv(setup.policy, node, now')
    BY <1>3, <2>1, RoundLater DEF NodeInv
  <2>3. /\ imu' = imu /\ setup' = setup /\ node' = node /\ arrays' = arrays
        /\ UNCHANGED <<managerVars, wireVars, backendVars>>
    BY <1>4, Zenon DEF Tick
  <2>4. SerialInv'
    BY <1>3, <2>1, <2>2, <2>3, Zenon DEF SerialInv
  <2> QED BY <1>2, <2>3, <2>4, Zenon DEF ChainInv
<1>5. ASSUME NewEpoch PROVE ChainInv'
  <2>1. /\ now' = now /\ setup' = setup /\ node' = node /\ arrays' = arrays
        /\ UNCHANGED <<managerVars, wireVars, backendVars>>
    BY <1>5, Zenon DEF NewEpoch
  <2>2. imu'.epoch = imu.epoch + 1 /\ imu'.err = ClockErrors[imu.epoch + 1]
    BY <1>5 DEF NewEpoch
  <2>3. imu'.epoch \in Nat /\ imu'.err \in Int
    <3>1. ClockErrors \in Seq(Int)
      BY ChainAssumption, Zenon
    <3>2. imu.epoch < Len(ClockErrors)
      BY <1>5 DEF NewEpoch
    <3>3. imu.epoch + 1 \in 1..Len(ClockErrors)
      BY <1>3, <3>1, <3>2, LenProperties
    <3> QED BY <1>3, <2>2, <3>1, <3>3, ElementOfSeq
  <2>4. SerialInv'
    BY <1>3, <2>1, <2>3, Zenon DEF SerialInv
  <2> QED BY <1>2, <2>1, <2>4, Zenon DEF ChainInv
<1>6. ASSUME NEW reading PROVE NodeInv(setup.policy, Timed(reading), now)
  <2>1. PICK x : Timed(reading) = [node EXCEPT !.mapper = x]
    BY Zenon DEF Timed
  <2>2. NodeInv(setup.policy, node, now)
    BY <1>3, Zenon
  <2>3. NodeInv(setup.policy, [node EXCEPT !.mapper = x], now)
    BY <2>2, NodeWithMapper
  <2> QED BY <2>1, <2>3, Zenon
<1>7. ASSUME NEW reading \in Readings, ReadDebug(reading) PROVE ChainInv'
  <2>1. /\ now' = now /\ imu' = imu /\ setup' = setup /\ arrays' = arrays
        /\ UNCHANGED <<managerVars, wireVars, backendVars>>
        /\ node' = DebugLine(setup, Timed(reading), now)
    BY <1>7, Zenon DEF ReadDebug
  <2>2. NodeInv(setup.policy, node', now)
    BY <1>3, <1>6, <2>1, DebugLineInv
  <2>3. SerialInv'
    BY <1>3, <2>1, <2>2, Zenon DEF SerialInv
  <2> QED BY <1>2, <2>1, <2>3, Zenon DEF ChainInv
<1>8. ASSUME NEW a \in Anchors, NEW v \in {0} \cup Good \cup Bad, NEW reading \in Readings,
             ReadDistance(a, v, reading)
      PROVE  ChainInv'
  <2> DEFINE context == [at |-> now, stamp |-> StampOf(setup, node.mapper, imu, now, reading)]
             done == DistanceLine(setup, Timed(reading), a, v, context)
  <2>1. /\ now' = now /\ imu' = imu /\ setup' = setup
        /\ UNCHANGED <<managerVars, wireVars, backendVars>>
        /\ node' = done.node /\ arrays' = arrays \o done.out
    BY <1>8, Zenon DEF ReadDistance
  <2>2. context \in Contexts /\ context.at = now
    <3>1. StampOf(setup, node.mapper, imu, now, reading) \in Int
      BY <1>3 DEF StampOf
    <3> QED BY <1>3, <3>1 DEF Contexts
  <2> HIDE DEF context
  <2>3. NodeInv(setup.policy, done.node, now) /\ done.out \in Seq(RangeArrays)
    BY <1>3, <1>6, <2>2, DistanceLineInv
  <2> HIDE DEF done
  <2>4. arrays \o done.out \in Seq(RangeArrays)
    BY <1>3, <2>3, ConcatProperties
  <2>5. SerialInv'
    BY <1>3, <2>1, <2>3, <2>4, Zenon DEF SerialInv
  <2> QED BY <1>2, <2>1, <2>5, Zenon DEF ChainInv
<1>9. ASSUME ReadNothing PROVE ChainInv'
  <2>1. /\ now' = now /\ imu' = imu /\ setup' = setup /\ arrays' = arrays
        /\ UNCHANGED <<managerVars, wireVars, backendVars>>
        /\ node' = Idle(node, now)
    BY <1>9, Zenon DEF ReadNothing
  <2>2. NodeInv(setup.policy, node', now)
    BY <1>3, <2>1, IdleInv
  <2>3. SerialInv'
    BY <1>3, <2>1, <2>2, Zenon DEF SerialInv
  <2> QED BY <1>2, <2>1, <2>3, Zenon DEF ChainInv
<1> QED BY <1>4, <1>5, <1>7, <1>8, <1>9, Zenon DEF SerialNode

\* The steps of the transport.
LEMMA ManagerSteps ==
  ASSUME ChainInv
  PROVE  Manager => ChainInv'
<1>1. SerialInv /\ ManagerInv /\ WaitingInv
  BY DEF ChainInv
<1>2. /\ now \in Nat /\ imu.epoch \in Nat /\ imu.err \in Int
      /\ NodeInv(setup.policy, node, now) /\ arrays \in Seq(RangeArrays)
  BY <1>1, Zenon DEF SerialInv
<1>3. /\ file \in Seq(Recorded) /\ start \in Int /\ replay \in Replays /\ lio \in Int
      /\ queue \in Seq(Measured) /\ ranges \in Seq(Measured)
  BY <1>1, Zenon DEF ManagerInv
<1>4. UNCHANGED backendVars => WaitingInv'
  <2>1. UNCHANGED backendVars => UNCHANGED waitingVars
    BY Zenon DEF backendVars, waitingVars
  <2> QED BY <1>1, <2>1, WaitingFrame, Zenon
<1>5. ASSUME IngestExternal PROVE ChainInv'
  <2>1. /\ arrays # <<>> /\ arrays' = Tail(arrays) /\ queue' = Ingested(queue, Head(arrays))
        /\ now' = now /\ imu' = imu /\ setup' = setup /\ node' = node
        /\ file' = file /\ start' = start /\ replay' = replay /\ lio' = lio
        /\ UNCHANGED wireVars /\ UNCHANGED backendVars
    BY <1>5, Zenon DEF IngestExternal
  <2>2. Head(arrays) \in RangeArrays /\ Tail(arrays) \in Seq(RangeArrays)
    BY <1>2, <2>1, HeadTailProperties
  <2>3. Ingested(queue, Head(arrays)) \in Seq(Measured)
    BY <1>3, <2>2, IngestedType
  <2>4. SerialInv'
    BY <1>2, <2>1, <2>2, Zenon DEF SerialInv
  <2>5. ManagerInv'
    BY <1>3, <2>1, <2>3, Zenon DEF ManagerInv, wireVars
  <2> QED BY <1>4, <2>1, <2>4, <2>5, Zenon DEF ChainInv
<1>6. ASSUME NEW a \in Anchors, NEW v \in {0} \cup Good \cup Bad, ReadSerial(a, v)
      PROVE  ChainInv'
  <2>1. /\ queue' = Queued(queue, <<Parsed(a, v, now)>>)
        /\ now' = now /\ imu' = imu /\ setup' = setup /\ node' = node /\ arrays' = arrays
        /\ file' = file /\ start' = start /\ replay' = replay /\ lio' = lio
        /\ UNCHANGED wireVars /\ UNCHANGED backendVars
    BY <1>6, Zenon DEF ReadSerial
  <2>2. <<Parsed(a, v, now)>> \in Seq(Measured)
    BY <1>2, ParsedType
  <2>3. queue' \in Seq(Measured)
    <3>1. PICK rs \in Seq(Measured) : rs = <<Parsed(a, v, now)>>
      BY <2>2, Zenon
    <3>2. Queued(queue, rs) \in Seq(Measured)
      BY <1>3, QueuedType
    <3> QED BY <2>1, <3>1, <3>2, Zenon
  <2>4. SerialInv'
    BY <1>2, <2>1, Zenon DEF SerialInv
  <2>5. ManagerInv'
    BY <1>3, <2>1, <2>3, Zenon DEF ManagerInv, wireVars
  <2> QED BY <1>4, <2>1, <2>4, <2>5, Zenon DEF ChainInv
<1>7. ASSUME NEW t \in 0..MaxNow, Event(t) PROVE ChainInv'
  <2>1. /\ Forwarded /\ lio' = t
        /\ UNCHANGED nodeVars /\ file' = file /\ start' = start
        /\ UNCHANGED backendVars
    BY <1>7, Zenon DEF Event
  <2>2. t \in Int
    BY ChainAssumption
  <2>3. SerialInv'
    <3>1. UNCHANGED nodeVars => UNCHANGED serialVars
      BY Zenon DEF nodeVars, serialVars
    <3> QED BY <1>1, <2>1, <3>1, SerialFrame, Zenon
  <2>4. queue' \in Seq(Measured) /\ ranges' \in Seq(Measured) /\ replay' \in Replays
    <3>1. CASE source = "file"
      <4> DEFINE took == TakeReplay(file, replay, start, lio - LidarStart)
      <4>1. /\ replay' = took.replay /\ queue' = queue
            /\ ranges' = ranges \o Rebased(took.taken, start, LidarStart)
        BY <2>1, <3>1, Zenon DEF Forwarded
      <4>2. lio - LidarStart \in Int
        <5>1. LidarStart \in Int
          BY ChainAssumption, Zenon, NatInt
        <5> QED BY <1>3, <5>1
      <4>3. took.replay \in Replays /\ took.taken \in Seq(Recorded)
        BY <1>3, <4>2, TakeReplayType
      <4> HIDE DEF took
      <4>4. Rebased(took.taken, start, LidarStart) \in Seq(Measured)
        BY <1>3, <4>3, RebasedType
      <4>5. ranges \o Rebased(took.taken, start, LidarStart) \in Seq(Measured)
        BY <1>3, <4>4, ConcatProperties
      <4> QED BY <1>3, <4>1, <4>3, <4>5, Zenon
    <3>2. CASE source # "file"
      <4>1. PICK u : ranges' = ranges \o Recent(queue, u) /\ queue' = <<>> /\ replay' = replay
        BY <2>1, <3>2, Zenon DEF Forwarded
      <4>2. Recent(queue, u) \in Seq(Measured)
        BY <1>3, RecentType
      <4>3. ranges \o Recent(queue, u) \in Seq(Measured)
        BY <1>3, <4>2, ConcatProperties
      <4>4. <<>> \in Seq(Measured)
        BY EmptySeq
      <4> QED BY <1>3, <4>1, <4>3, <4>4, Zenon
    <3> QED BY <3>1, <3>2
  <2>5. ManagerInv'
    BY <1>3, <2>1, <2>2, <2>4, Zenon DEF ManagerInv
  <2> QED BY <1>4, <2>1, <2>3, <2>5, Zenon DEF ChainInv
<1> QED BY <1>5, <1>6, <1>7, Zenon DEF Manager

\* The range uwbRangeCallback takes, moved by the backend's offset.
LEMMA ShiftedType ==
  ASSUME NEW m \in Measured
  PROVE  [m EXCEPT !.stamp = @ + TimeOffset] \in Measured
<1>1. TimeOffset \in Int
  BY ChainAssumption, Zenon
<1>2. m.stamp + TimeOffset \in Int
  BY <1>1 DEF Measured
<1> QED BY <1>2 DEF Measured

\* uwbRangeCallback: the range is rejected, or waits in its place.
LEMMA UwbRangeStep ==
  ASSUME ManagerInv, WaitingInv, UwbRange
  PROVE  ranges' \in Seq(Measured) /\ WaitingInv'
<1> DEFINE r == [Head(ranges) EXCEPT !.stamp = @ + TimeOffset]
<1>1. /\ pending \in Seq(Measured) /\ enqueued \in Stamps /\ added \in Stamps
      /\ OrderInv(pending, enqueued, added) /\ Balanced(count, Len(pending))
  BY Zenon DEF WaitingInv
<1>2. ranges \in Seq(Measured) /\ ranges # <<>> /\ ranges' = Tail(ranges) /\ added' = added
  BY Zenon DEF ManagerInv, UwbRange
<1>3. Head(ranges) \in Measured /\ Tail(ranges) \in Seq(Measured)
  BY <1>2, HeadTailProperties
<1>4. r \in Measured
  BY <1>3, ShiftedType
<1>5. Len(pending) \in Nat
  BY <1>1, LenProperties
<1>6. \/ /\ count' = [count EXCEPT !.received = @ + 1, !.rejected = @ + 1]
         /\ enqueued' = enqueued /\ pending' = pending
      \/ /\ count' = [count EXCEPT !.received = @ + 1] /\ Newer(r)
         /\ enqueued' = [enqueued EXCEPT ![r.anchor] = r.stamp]
         /\ pending' = InsertSorted(pending, r)
  BY Zenon DEF UwbRange
<1> HIDE DEF r
<1>7. CASE /\ count' = [count EXCEPT !.received = @ + 1, !.rejected = @ + 1]
           /\ enqueued' = enqueued /\ pending' = pending
  <2>1. Balanced(count', Len(pending'))
    BY <1>1, <1>5, <1>7, OneRefused, Zenon
  <2> QED BY <1>1, <1>2, <1>3, <1>7, <2>1, Zenon DEF WaitingInv
<1>8. CASE /\ count' = [count EXCEPT !.received = @ + 1] /\ Newer(r)
           /\ enqueued' = [enqueued EXCEPT ![r.anchor] = r.stamp]
           /\ pending' = InsertSorted(pending, r)
  <2>1. r.stamp > enqueued[r.anchor]
    BY <1>8 DEF Newer
  <2>2. /\ InsertSorted(pending, r) \in Seq(Measured)
        /\ Len(InsertSorted(pending, r)) = Len(pending) + 1
        /\ [enqueued EXCEPT ![r.anchor] = r.stamp] \in Stamps
        /\ OrderInv(InsertSorted(pending, r), [enqueued EXCEPT ![r.anchor] = r.stamp], added)
    BY <1>1, <1>4, <2>1, InsertOrder
  <2>3. /\ pending' \in Seq(Measured) /\ Len(pending') = Len(pending) + 1
        /\ enqueued' \in Stamps /\ added' \in Stamps /\ OrderInv(pending', enqueued', added')
    BY <1>1, <1>2, <1>8, <2>2, Zenon
  <2>4. Balanced(count', Len(pending) + 1)
    BY <1>1, <1>5, <1>8, OneWaits, Zenon
  <2>5. Balanced(count', Len(pending'))
    BY <2>3, <2>4, Zenon
  <2> QED BY <1>2, <1>3, <2>3, <2>5, Zenon DEF WaitingInv
<1> QED BY <1>6, <1>7, <1>8

\* The head of the waiting ranges is rejected, or becomes a factor.
LEMMA HeadSettled ==
  ASSUME WaitingInv, pending # <<>>, pending' = Tail(pending), enqueued' = enqueued,
         \/ count' = Reject(1) /\ added' = added
         \/ /\ count' = [count EXCEPT !.accepted = @ + 1]
            /\ added' = [added EXCEPT ![Head(pending).anchor] = Head(pending).stamp]
  PROVE  WaitingInv'
<1>1. /\ pending \in Seq(Measured) /\ enqueued \in Stamps /\ added \in Stamps
      /\ OrderInv(pending, enqueued, added) /\ Balanced(count, Len(pending))
  BY Zenon DEF WaitingInv
<1> DEFINE later == [added EXCEPT ![Head(pending).anchor] = Head(pending).stamp]
<1>2. /\ Tail(pending) \in Seq(Measured) /\ Len(Tail(pending)) = Len(pending) - 1
      /\ Len(pending) >= 1
      /\ OrderInv(Tail(pending), enqueued, added)
      /\ later \in Stamps /\ OrderInv(Tail(pending), enqueued, later)
  BY <1>1, TailOrder
<1>3. Len(pending) \in Nat /\ Len(pending') \in Nat /\ Len(pending') + 1 = Len(pending)
  <2>1. Len(pending) \in Nat
    BY <1>1, LenProperties
  <2>2. Len(pending') = Len(pending) - 1
    BY <1>2, Zenon
  <2> QED BY <1>2, <2>1, <2>2
<1>4. /\ pending' \in Seq(Measured) /\ enqueued' \in Stamps /\ added' \in Stamps
      /\ OrderInv(pending', enqueued', added')
  BY <1>1, <1>2, Zenon
<1>5. Balanced(count', Len(pending'))
  <2>0. 1 \in Nat
    OBVIOUS
  <2>1. CASE count' = Reject(1)
    BY <1>1, <1>3, <2>0, <2>1, SomeRejected, Zenon DEF Reject
  <2>2. CASE count' = [count EXCEPT !.accepted = @ + 1]
    BY <1>1, <1>3, <2>2, OneAccepted, Zenon
  <2> QED BY <2>1, <2>2, Zenon
<1> QED BY <1>4, <1>5, Zenon DEF WaitingInv

\* The end of the loop: the oldest over the capacity are rejected.
LEMMA UwbDoneStep ==
  ASSUME WaitingInv, UwbDone
  PROVE  WaitingInv'
<1>1. /\ pending \in Seq(Measured) /\ enqueued \in Stamps /\ added \in Stamps
      /\ OrderInv(pending, enqueued, added) /\ Balanced(count, Len(pending))
  BY Zenon DEF WaitingInv
<1>2. Len(pending) \in Nat /\ MaxPending \in Nat
  BY <1>1, ChainAssumption, LenProperties
<1>3. PICK k \in 0..Len(pending) : k = IF Len(pending) > MaxPending
                                       THEN Len(pending) - MaxPending ELSE 0
  BY <1>2
<1>4. /\ pending' = SubSeq(pending, k + 1, Len(pending)) /\ count' = Reject(k)
      /\ enqueued' = enqueued /\ added' = added
  BY <1>3, Zenon DEF UwbDone
<1>5. /\ SubSeq(pending, k + 1, Len(pending)) \in Seq(Measured)
      /\ Len(SubSeq(pending, k + 1, Len(pending))) = Len(pending) - k
      /\ OrderInv(SubSeq(pending, k + 1, Len(pending)), enqueued, added)
  BY <1>1, SuffixOrder, Zenon
<1>6. /\ pending' \in Seq(Measured) /\ Len(pending') = Len(pending) - k
      /\ OrderInv(pending', enqueued', added')
  BY <1>4, <1>5, Zenon
<1>7. k \in Nat /\ Len(pending') \in Nat /\ Len(pending') + k = Len(pending)
  BY <1>2, <1>6
<1>8. Balanced(count', Len(pending'))
  BY <1>1, <1>2, <1>4, <1>7, SomeRejected, Zenon DEF Reject
<1> QED BY <1>1, <1>4, <1>6, <1>8, Zenon DEF WaitingInv

LEMMA UwbFactorStep ==
  ASSUME WaitingInv, NEW gate \in Gates, UwbFactor(gate) \/ \E s \in BOOLEAN : UwbNode(s, gate)
  PROVE  WaitingInv'
<1>1. /\ pending # <<>> /\ pending' = Tail(pending) /\ enqueued' = enqueued
      /\ \/ count' = Reject(1) /\ added' = added
         \/ /\ count' = [count EXCEPT !.accepted = @ + 1]
            /\ added' = [added EXCEPT ![Head(pending).anchor] = Head(pending).stamp]
  <2>1. CASE UwbFactor(gate)
    BY <2>1, Zenon DEF UwbFactor, Passed, CountUwb
  <2>2. CASE \E s \in BOOLEAN : UwbNode(s, gate)
    BY <2>2, Zenon DEF UwbNode, Passed, CountUwb
  <2> QED BY <2>1, <2>2
<1> QED BY <1>1, HeadSettled, Zenon

\* The steps of the backend.
LEMMA BackendSteps ==
  ASSUME ChainInv
  PROVE  Backend => ChainInv'
<1>1. SerialInv /\ ManagerInv /\ WaitingInv
  BY DEF ChainInv
<1>2. UNCHANGED nodeVars => SerialInv'
  <2>1. UNCHANGED nodeVars => UNCHANGED serialVars
    BY Zenon DEF nodeVars, serialVars
  <2> QED BY <1>1, <2>1, SerialFrame, Zenon
<1>3. UNCHANGED managerVars /\ ranges' = ranges => ManagerInv'
  <2>1. UNCHANGED managerVars /\ ranges' = ranges => UNCHANGED heldVars
    BY Zenon DEF managerVars, heldVars
  <2> QED BY <1>1, <2>1, ManagerFrame, Zenon
<1>4. UNCHANGED waitingVars => WaitingInv'
  BY <1>1, WaitingFrame, Zenon
<1>5. ASSUME UwbRange PROVE ChainInv'
  <2>1. UNCHANGED nodeVars /\ UNCHANGED managerVars
    BY <1>5, Zenon DEF UwbRange
  <2>2. ranges' \in Seq(Measured) /\ WaitingInv'
    BY <1>1, <1>5, UwbRangeStep, Zenon
  <2>3. ManagerInv'
    BY <1>1, <2>1, <2>2, Zenon DEF ManagerInv, managerVars
  <2> QED BY <1>2, <2>1, <2>2, <2>3, Zenon DEF ChainInv
<1>6. ASSUME RejectUwb PROVE ChainInv'
  <2>1. UNCHANGED nodeVars /\ UNCHANGED managerVars /\ ranges' = ranges
    BY <1>6, Zenon DEF RejectUwb, wireVars
  <2>2. pending # <<>> /\ pending' = Tail(pending) /\ enqueued' = enqueued
        /\ count' = Reject(1) /\ added' = added
    BY <1>6, Zenon DEF RejectUwb, Passed
  <2>3. WaitingInv'
    BY <1>1, <2>2, HeadSettled, Zenon
  <2> QED BY <1>2, <1>3, <2>1, <2>3, Zenon DEF ChainInv
<1>7. ASSUME NEW gate \in Gates, UwbFactor(gate) \/ \E s \in BOOLEAN : UwbNode(s, gate)
      PROVE  ChainInv'
  <2>1. UNCHANGED nodeVars /\ UNCHANGED managerVars /\ ranges' = ranges
    BY <1>7, Zenon DEF UwbFactor, UwbNode, wireVars
  <2>2. WaitingInv'
    BY <1>1, <1>7, UwbFactorStep, Zenon
  <2> QED BY <1>2, <1>3, <2>1, <2>2, Zenon DEF ChainInv
<1>8. ASSUME UwbDone PROVE ChainInv'
  <2>1. UNCHANGED nodeVars /\ UNCHANGED managerVars /\ ranges' = ranges
    BY <1>8, Zenon DEF UwbDone, wireVars
  <2>2. WaitingInv'
    BY <1>1, <1>8, UwbDoneStep, Zenon
  <2> QED BY <1>2, <1>3, <2>1, <2>2, Zenon DEF ChainInv
\* The other steps leave the ranges that wait alone.
<1>9. ASSUME UNCHANGED nodeVars, UNCHANGED managerVars, ranges' = ranges, UNCHANGED waitingVars
      PROVE  ChainInv'
  BY <1>2, <1>3, <1>4, <1>9, Zenon DEF ChainInv
<1>10. CASE RawOdomStale
  BY <1>9, <1>10, Zenon DEF RawOdomStale, backendVars, waitingVars
<1>11. CASE RawOdom
  BY <1>9, <1>11, Zenon DEF RawOdom, waitingVars
<1>12. CASE GnssDone
  BY <1>9, <1>12, Zenon DEF GnssDone, wireVars, waitingVars
<1>13. CASE PruneRaw
  BY <1>9, <1>13, Zenon DEF PruneRaw, wireVars, waitingVars
<1>14. CASE \E solved \in BOOLEAN : Align(solved)
  BY <1>9, <1>14, Zenon DEF Align, wireVars, waitingVars
<1>15. CASE \E t \in 0..MaxNow : GnssNode(t)
  BY <1>9, <1>15, Zenon DEF GnssNode, wireVars, waitingVars
<1>16. CASE \E moved \in BOOLEAN : MaybeAddKeyframe(moved)
  BY <1>9, <1>16, Zenon DEF MaybeAddKeyframe, wireVars, waitingVars
<1> QED BY <1>5, <1>6, <1>7, <1>8, <1>10, <1>11, <1>12, <1>13, <1>14, <1>15, <1>16, Zenon
        DEF Backend

LEMMA ChainStep == ChainInv /\ [Next]_vars => ChainInv'
<1> SUFFICES ASSUME ChainInv, [Next]_vars PROVE ChainInv'
  OBVIOUS
<1>1. CASE Next
  BY <1>1, SerialSteps, ManagerSteps, BackendSteps, Zenon DEF Next
<1>2. CASE UNCHANGED vars
  <2>1. UNCHANGED serialVars /\ UNCHANGED heldVars /\ UNCHANGED waitingVars
    BY <1>2, Zenon DEF vars, nodeVars, managerVars, wireVars, backendVars, serialVars, heldVars,
                       waitingVars
  <2> QED BY <2>1, SerialFrame, ManagerFrame, WaitingFrame, Zenon DEF ChainInv
<1> QED BY <1>1, <1>2

LEMMA ChainSafe == Spec => []ChainInv
<1> QED BY ChainInit, ChainStep, PTL DEF Spec

-----------------------------------------------------------------------------
(***************************************************************************)
(* The three invariants of the run.                                        *)
(***************************************************************************)
\* The ranges of a round are stamped by a line read in the same round: on its way
\* to the backend (arrays, queue, topic, pending_uwb_) none is a timeout or more
\* from the reading that stamps it.
THEOREM StampsAreOfTheRound == Spec => []RangeNearItsStamp
<1>1. ChainInv => RangeNearItsStamp
  <2> SUFFICES ASSUME ChainInv PROVE RangeNearItsStamp
    OBVIOUS
  <2>1. /\ arrays \in Seq(RangeArrays) /\ queue \in Seq(Measured) /\ ranges \in Seq(Measured)
        /\ pending \in Seq(Measured)
    BY Zenon DEF ChainInv, SerialInv, ManagerInv, WaitingInv
  <2>2. ASSUME NEW p \in Seq(Measured) PROVE Spanned(p)
    BY MeasuredFields DEF Spanned, Gaps
  <2>3. ASSUME NEW i \in DOMAIN arrays PROVE Spanned(arrays[i].ranges)
    <3>1. arrays[i] \in RangeArrays
      BY <2>1, LenProperties, ElementOfSeq
    <3>2. PICK p \in Seq(Slots) : p = arrays[i].ranges
      BY <3>1 DEF RangeArrays
    <3>3. DOMAIN p = 1..Len(p) /\ \A k \in 1..Len(p) : p[k] \in Slots
      BY LenProperties, ElementOfSeq
    <3>4. Spanned(p)
      BY <3>3 DEF Spanned, Slots, Gaps
    <3> QED BY <3>2, <3>4
  <2> QED BY <2>1, <2>2, <2>3 DEF RangeNearItsStamp
<1> QED BY <1>1, ChainSafe, PTL

\* processPendingUwb and rejectUwb account for each range received, also over the
\* capacity and once the backend has halted.
THEOREM RangesAreAccountedFor == Spec => []UwbConservation
<1>1. ChainInv => UwbConservation
  BY DEF ChainInv, WaitingInv, Balanced, UwbConservation
<1> QED BY <1>1, ChainSafe, PTL

\* insertPendingUwb keeps the ranges that wait in order, and none of them is behind
\* the last factor of its anchor, whatever the clocks and the recordings do.
THEOREM RangesWaitInOrder == Spec => []UwbInOrder
<1>1. ChainInv => UwbInOrder
  <2> SUFFICES ASSUME ChainInv PROVE UwbInOrder
    OBVIOUS
  <2>1. pending \in Seq(Measured) /\ OrderInv(pending, enqueued, added) /\ added \in Stamps
    BY Zenon DEF ChainInv, WaitingInv
  <2>2. /\ DOMAIN pending = 1..Len(pending)
        /\ \A i \in 1..Len(pending) : pending[i].stamp \in Int /\ pending[i].anchor \in Anchors
    BY <2>1, MeasuredFields
  <2>3. \A i, j \in 1..Len(pending) : i < j => pending[i].stamp <= pending[j].stamp
    BY <2>1 DEF OrderInv
  <2>4. \A i \in 1..Len(pending) : pending[i].stamp > added[pending[i].anchor]
    <3> TAKE i \in 1..Len(pending)
    <3>1. added[pending[i].anchor] < pending[i].stamp
      BY <2>1 DEF OrderInv
    <3> QED BY <2>1, <2>2, <3>1 DEF Stamps
  <2> QED BY <2>2, <2>3, <2>4 DEF UwbInOrder
<1> QED BY <1>1, ChainSafe, PTL
=============================================================================
