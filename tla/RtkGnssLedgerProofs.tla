------------------------- MODULE RtkGnssLedgerProofs -------------------------
(***************************************************************************)
(* Theorems about RtkGnssLedger, for every value of its constants.         *)
(***************************************************************************)
EXTENDS RtkGnssLedger, CameraExport, StampSets, SequenceTheorems

-----------------------------------------------------------------------------
(* Lemmas about the queues.                                                *)

LEMMA ParameterTypes ==
  /\ RawStamps \in SUBSET Nat /\ GnssStamps \in SUBSET Nat
  /\ MaxResent \in Nat /\ MaxPairs \in Nat /\ PairsToDrop \in Nat /\ PairsToDrop <= MaxPairs
  /\ MinPairs \in Nat /\ MinPairs >= 2 /\ MaxUnpaired \in Nat /\ MayThrow \in BOOLEAN
BY StampsAssumption, BoundsAssumption, ThrowAssumption

\* Where insertion puts its sample, and where the others are afterwards.
LEMMA InsertSortedAt ==
  ASSUME NEW S \in SUBSET Nat, NEW s \in Seq(S), NEW t \in S
  PROVE  LET n == Cardinality({i \in DOMAIN s : s[i] <= t})
             r == InsertSorted(s, t)
         IN  /\ n \in 0..Len(s)
             /\ r \in Seq(S) /\ Len(r) = Len(s) + 1
             /\ \A i \in 1..n : r[i] = s[i]
             /\ r[n + 1] = t
             /\ \A i \in (n + 2)..(Len(s) + 1) : r[i] = s[i - 1]
<1> DEFINE n == Cardinality({i \in DOMAIN s : s[i] <= t})
           front == SubSeq(s, 1, n)
           back == SubSeq(s, n + 1, Len(s))
<1>1. Len(s) \in Nat /\ DOMAIN s = 1..Len(s) /\ \A i \in 1..Len(s) : s[i] \in S
  OBVIOUS
<1>2. n \in Nat /\ n <= Len(s)
  <2>1. IsFiniteSet(1..Len(s)) /\ Cardinality(1..Len(s)) = Len(s)
    <3>1. 1 \in Int /\ Len(s) \in Int
      BY <1>1
    <3>2. /\ IsFiniteSet(1..Len(s))
          /\ Cardinality(1..Len(s)) = IF 1 > Len(s) THEN 0 ELSE Len(s) - 1 + 1
      BY <3>1, FS_Interval
    <3>3. QED
      BY <3>2, <1>1
  <2>2. {i \in DOMAIN s : s[i] <= t} \in SUBSET (1..Len(s))
    BY <1>1
  <2>3. QED
    BY <2>1, <2>2, FS_Subset, FS_CardinalityType
<1>5. InsertSorted(s, t) = front \o <<t>> \o back
  BY DEF InsertSorted, n
<1> HIDE DEF n
<1>3. front \in Seq(S) /\ Len(front) = n /\ \A i \in 1..n : front[i] = s[i]
  <2>1. n \in Int /\ \A i \in 1..n : s[i] \in S
    BY <1>1, <1>2
  <2>2. QED
    BY <2>1, <1>2, SubSeqProperties
<1>4. /\ back \in Seq(S) /\ Len(back) = Len(s) - n
      /\ \A i \in 1..(Len(s) - n) : back[i] = s[n + i]
  <2>1. n + 1 \in Int /\ Len(s) \in Int /\ \A i \in (n + 1)..Len(s) : s[i] \in S
    BY <1>1, <1>2
  <2>2. QED
    BY <2>1, <1>2, SubSeqProperties
<1> HIDE DEF front, back
<1> DEFINE left == front \o <<t>>
<1>6. left \in Seq(S) /\ Len(left) = n + 1
      /\ \A i \in 1..(n + 1) : left[i] = IF i <= n THEN front[i] ELSE t
  BY <1>2, <1>3
<1> HIDE DEF left
<1> DEFINE whole == left \o back
<1>7. /\ whole \in Seq(S) /\ Len(whole) = Len(s) + 1
      /\ \A i \in 1..(Len(s) + 1) :
           whole[i] = IF i <= n + 1 THEN left[i] ELSE back[i - (n + 1)]
  <2>1. /\ whole \in Seq(S) /\ Len(whole) = Len(left) + Len(back)
        /\ \A i \in 1..(Len(left) + Len(back)) :
             whole[i] = IF i <= Len(left) THEN left[i] ELSE back[i - Len(left)]
    BY <1>4, <1>6, ConcatProperties
  <2>2. Len(left) + Len(back) = Len(s) + 1
    BY <1>1, <1>2, <1>4, <1>6
  <2>3. QED
    BY <2>1, <2>2, <1>6
<1>8. InsertSorted(s, t) = whole
  BY <1>5 DEF left
<1> HIDE DEF whole
<1>9. \A i \in 1..n : whole[i] = s[i]
  BY <1>1, <1>2, <1>3, <1>6, <1>7
<1>10. whole[n + 1] = t
  BY <1>1, <1>2, <1>6, <1>7
<1>11. ASSUME NEW i \in (n + 2)..(Len(s) + 1)
       PROVE  whole[i] = s[i - 1]
  <2>1. i - (n + 1) \in 1..(Len(s) - n) /\ i > n + 1 /\ i \in 1..(Len(s) + 1)
    BY <1>1, <1>2
  <2>2. whole[i] = back[i - (n + 1)]
    BY <2>1, <1>1, <1>2, <1>7
  <2>3. back[i - (n + 1)] = s[n + (i - (n + 1))]
    BY <2>1, <1>4
  <2>4. n + (i - (n + 1)) = i - 1
    BY <1>1, <1>2
  <2>5. QED
    BY <2>2, <2>3, <2>4
<1>12. QED
  BY <1>1, <1>2, <1>7, <1>8, <1>9, <1>10, <1>11 DEF n

\* Insertion adds its sample and keeps the others.
LEMMA InsertSortedProperties ==
  ASSUME NEW S \in SUBSET Nat, NEW s \in Seq(S), NEW t \in S
  PROVE  /\ InsertSorted(s, t) \in Seq(S)
         /\ Len(InsertSorted(s, t)) = Len(s) + 1
         /\ \A i \in 1..(Len(s) + 1) :
              InsertSorted(s, t)[i] = t \/ \E j \in 1..Len(s) : InsertSorted(s, t)[i] = s[j]
<1> DEFINE n == Cardinality({i \in DOMAIN s : s[i] <= t})
           r == InsertSorted(s, t)
<1>1. /\ n \in 0..Len(s) /\ r \in Seq(S) /\ Len(r) = Len(s) + 1
      /\ \A i \in 1..n : r[i] = s[i]
      /\ r[n + 1] = t
      /\ \A i \in (n + 2)..(Len(s) + 1) : r[i] = s[i - 1]
  BY InsertSortedAt
<1>2. Len(s) \in Nat
  OBVIOUS
<1> HIDE DEF n, r
<1>3. ASSUME NEW i \in 1..(Len(s) + 1)
      PROVE  r[i] = t \/ \E j \in 1..Len(s) : r[i] = s[j]
  <2>1. CASE i <= n
    BY <1>1, <1>2, <2>1
  <2>2. CASE i = n + 1
    BY <1>1, <2>2
  <2>3. CASE i > n + 1
    <3>1. i - 1 \in 1..Len(s) /\ r[i] = s[i - 1]
      BY <1>1, <1>2, <2>3
    <3>2. QED
      BY <3>1
  <2>4. QED
    BY <1>1, <1>2, <2>1, <2>2, <2>3
<1>4. QED
  BY <1>1, <1>3 DEF r

\* The queue without its front.
LEMMA TailProperties ==
  ASSUME NEW S, NEW s \in Seq(S), s # <<>>
  PROVE  /\ Len(s) \in Nat \ {0} /\ Head(s) = s[1] /\ Head(s) \in S
         /\ Tail(s) \in Seq(S) /\ Len(Tail(s)) = Len(s) - 1
         /\ \A i \in 1..(Len(s) - 1) : Tail(s)[i] = s[i + 1]
OBVIOUS

\* Eviction removes one message, the oldest.
LEMMA OldestRemoved ==
  ASSUME NEW S \in SUBSET Nat, IsFiniteSet(S), S # {}
  PROVE  /\ IsFiniteSet(S \ Oldest(S)) /\ S \ Oldest(S) # S
         /\ Cardinality(S) \in Nat /\ Cardinality(S \ Oldest(S)) = Cardinality(S) - 1
<1> DEFINE t == CHOOSE x \in S : \A u \in S : x <= u
<1>1. t \in S
  BY LeastElement
<1>2. Oldest(S) = {t}
  BY DEF Oldest
<1>3. QED
  BY <1>1, <1>2, AddRemove

-----------------------------------------------------------------------------
(* The inductive invariant.                                                *)

\* What the place inside a callback says of the state.
Places ==
  /\ pc = "idle" <=> who = "none"
  /\ pc \in {"enqueue", "unpair"} => who = "gnss"
  /\ pc \in {"key", "prune"} => who = "raw"
  /\ who = "gnss" => pairing \in status
  /\ pc \in {"transition", "init"} => aligned
  /\ pc = "collect" => ~aligned
  /\ pc \in {"factor", "factor of node"} => pend_factor # <<>>

\* There is raw odometry wherever its last sample is read.
RawKept == aligned \/ pairs > 0 \/ who = "raw" => raw # <<>>

Shape == TypeOK /\ Places /\ RawKept /\ IsFiniteSet(status)

\* The sample a GNSS callback has already counted is also still stored as a
\* status until the callback returns.
Conserved == pc # "dead" => Delta = IF who = "gnss" /\ pc # "enqueue" THEN -1 ELSE 0

\* Stamps keep the samples of the alignment, of the factors and of the two
\* queues apart.
StampsOrdered ==
  /\ \A a \in hist.aligned :
       /\ a <= last_enq
       /\ \A f \in hist.fused : a < f
       /\ \A i \in DOMAIN pend_align : a < pend_align[i]
       /\ \A i \in DOMAIN pend_factor : a < pend_factor[i]
  /\ \A i \in DOMAIN pend_align :
       /\ pend_align[i] <= last_enq
       /\ \A j \in DOMAIN pend_align : i < j => pend_align[i] < pend_align[j]
  /\ \A f \in hist.fused : f <= last_added
  /\ ~aligned => pend_factor = <<>> /\ hist.fused = {}

HistoryCounted ==
  /\ IsFiniteSet(hist.aligned) /\ count.used = Cardinality(hist.aligned)
  /\ IsFiniteSet(hist.fused) /\ count.factors = Cardinality(hist.fused)

-----------------------------------------------------------------------------
(* Every step keeps the shape of the state.                                *)

LEMMA CountersKept ==
  ASSUME NEW c \in Counters, NEW n \in Nat
  PROVE  /\ [c EXCEPT !.rejected = @ + n] \in Counters
         /\ [c EXCEPT !.received = @ + 1] \in Counters
         /\ [c EXCEPT !.received = @ + 1, !.rejected = @ + n] \in Counters
         /\ [c EXCEPT !.odom_only = @ + 1, !.rejected = @ + 1] \in Counters
         /\ [c EXCEPT !.used = @ + 1] \in Counters
         /\ [c EXCEPT !.factors = @ + 1] \in Counters
<1> USE DEF Counters
<1>1. [c EXCEPT !.rejected = @ + n] \in Counters
  OBVIOUS
<1>2. [c EXCEPT !.received = @ + 1] \in Counters
  OBVIOUS
<1>3. [c EXCEPT !.odom_only = @ + 1] \in Counters
  OBVIOUS
<1>4. [c EXCEPT !.used = @ + 1] \in Counters
  OBVIOUS
<1>5. [c EXCEPT !.factors = @ + 1] \in Counters
  OBVIOUS
<1>6. [c EXCEPT !.received = @ + 1, !.rejected = @ + n] \in Counters
  <2> DEFINE d == [c EXCEPT !.received = @ + 1]
  <2>1. [c EXCEPT !.received = @ + 1, !.rejected = @ + n] = [d EXCEPT !.rejected = @ + n]
    OBVIOUS
  <2>2. d \in Counters
    BY <1>2
  <2> HIDE DEF d
  <2>3. [d EXCEPT !.rejected = @ + n] \in Counters
    BY <2>2
  <2>4. QED
    BY <2>1, <2>3
<1>7. [c EXCEPT !.odom_only = @ + 1, !.rejected = @ + 1] \in Counters
  <2> DEFINE d == [c EXCEPT !.odom_only = @ + 1]
  <2>1. [c EXCEPT !.odom_only = @ + 1, !.rejected = @ + 1] = [d EXCEPT !.rejected = @ + 1]
    OBVIOUS
  <2>2. d \in Counters
    BY <1>3
  <2> HIDE DEF d
  <2>3. [d EXCEPT !.rejected = @ + 1] \in Counters
    BY <2>2
  <2>4. QED
    BY <2>1, <2>3
<1> HIDE DEF Counters
<1>8. QED
  BY <1>1, <1>2, <1>4, <1>5, <1>6, <1>7

\* Rejecting one sample.
LEMMA RejectOne == count \in Counters => Reject(1) \in Counters
BY CountersKept DEF Reject

LEMMA InitShape == Init => Shape
<1> SUFFICES ASSUME Init PROVE Shape
  OBVIOUS
<1>1. count \in Counters
  BY DEF Init, Counters
<1>2. /\ sent \in [status : SUBSET GnssStamps, odom : SUBSET GnssStamps, again : 0..MaxResent]
      /\ hist \in [aligned : SUBSET GnssStamps, fused : SUBSET GnssStamps]
  BY ParameterTypes DEF Init
<1>3. /\ raw \in Seq(RawStamps) /\ pend_align \in Seq(GnssStamps)
      /\ pend_factor \in Seq(GnssStamps)
  BY DEF Init
<1>4. TypeOK
  BY <1>1, <1>2, <1>3 DEF Init, TypeOK, Times
<1>5. QED
  BY <1>4, FS_EmptySet DEF Init, Shape, Places, RawKept

LEMMA RawOdomShape ==
  ASSUME Shape, NEW t \in RawStamps, RawOdom(t)
  PROVE  Shape'
<1>1. raw' \in Seq(RawStamps) /\ raw' # <<>>
  BY DEF Shape, TypeOK, RawOdom
<1>2. TypeOK'
  BY <1>1 DEF Shape, TypeOK, RawOdom, pairVars, alignVars, graphVars
<1>3. QED
  BY <1>1, <1>2 DEF Shape, TypeOK, Places, RawKept, RawOdom, pairVars, alignVars, graphVars

LEMMA PruneShape == Shape /\ Prune => Shape'
<1> SUFFICES ASSUME Shape, Prune PROVE Shape'
  OBVIOUS
<1>1. raw' \in Seq(RawStamps) /\ raw' # <<>>
  <2>1. raw \in Seq(RawStamps) /\ raw # <<>>
    BY DEF Shape, TypeOK, Places, RawKept, Prune
  <2>2. Len(raw) > 2 => Tail(raw) \in Seq(RawStamps) /\ Tail(raw) # <<>>
    BY <2>1, TailProperties
  <2>3. QED
    BY <2>1, <2>2 DEF Prune
<1>2. TypeOK'
  BY <1>1 DEF Shape, TypeOK, Prune, pairVars, alignVars, graphVars
<1>3. QED
  BY <1>1, <1>2 DEF Shape, TypeOK, Places, RawKept, Prune, pairVars, alignVars, graphVars

LEMMA EnqueueShape == Shape /\ Enqueue => Shape'
<1> SUFFICES ASSUME Shape, Enqueue PROVE Shape'
  OBVIOUS
<1>1. /\ pairing \in GnssStamps /\ pairing \in Nat /\ who = "gnss" /\ pairing \in status
      /\ UNCHANGED <<who, pairing, inputVars, status, odom, aligned, pairs, cutoff,
                     graphVars, hist>>
  BY ParameterTypes DEF Shape, TypeOK, Places, Enqueue
<1>2. count' \in Counters
  <2>1. count' = Reject(1) \/ UNCHANGED count
    BY Zenon DEF Enqueue
  <2>2. QED
    BY <2>1, RejectOne DEF Shape, TypeOK
<1>3. pend_align' \in Seq(GnssStamps)
  <2>1. pend_align' = Append(pend_align, pairing) \/ UNCHANGED pend_align
    BY Zenon DEF Enqueue
  <2>2. pend_align \in Seq(GnssStamps)
    BY DEF Shape, TypeOK
  <2>3. QED
    BY <1>1, <2>1, <2>2
<1>4. pend_factor' \in Seq(GnssStamps)
  <2>1. pend_factor' = InsertSorted(pend_factor, pairing) \/ UNCHANGED pend_factor
    BY Zenon DEF Enqueue
  <2>2. pend_factor \in Seq(GnssStamps)
    BY DEF Shape, TypeOK
  <2>3. QED
    BY <1>1, <2>1, <2>2, InsertSortedProperties, ParameterTypes
<1>5. last_enq' = pairing \/ UNCHANGED last_enq
  BY Zenon DEF Enqueue
<1>6. pc' \in {"unpair", "process"} \/ (~aligned /\ pc' = "collect")
  BY DEF Enqueue, ProcessNow
<1>7. TypeOK'
  BY <1>1, <1>2, <1>3, <1>4, <1>5, <1>6 DEF Shape, TypeOK, Times, inputVars, graphVars
<1>8. QED
  BY <1>1, <1>6, <1>7 DEF Shape, Places, RawKept, inputVars, graphVars

LEMMA UnpairShape == Shape /\ Unpair => Shape'
<1> SUFFICES ASSUME Shape, Unpair PROVE Shape'
  OBVIOUS
<1>1. TypeOK'
  BY DEF Shape, TypeOK, Unpair, inputVars, alignVars, graphVars
<1>2. IsFiniteSet(status')
  BY AddRemove DEF Shape, Unpair
<1>3. QED
  BY <1>1, <1>2 DEF Shape, Places, RawKept, Unpair, inputVars, alignVars, graphVars

\* The messages received so far.
LEMMA SentKept ==
  ASSUME NEW s \in [status : SUBSET GnssStamps, odom : SUBSET GnssStamps, again : 0..MaxResent],
         NEW t \in GnssStamps, NEW n \in 0..MaxResent
  PROVE  /\ [s EXCEPT !.status = @ \cup {t}, !.again = n]
              \in [status : SUBSET GnssStamps, odom : SUBSET GnssStamps, again : 0..MaxResent]
         /\ [s EXCEPT !.odom = @ \cup {t}, !.again = n]
              \in [status : SUBSET GnssStamps, odom : SUBSET GnssStamps, again : 0..MaxResent]
<1> DEFINE d == [s EXCEPT !.again = n]
<1>1. d \in [status : SUBSET GnssStamps, odom : SUBSET GnssStamps, again : 0..MaxResent]
  OBVIOUS
<1>2. /\ [s EXCEPT !.status = @ \cup {t}, !.again = n] = [d EXCEPT !.status = @ \cup {t}]
      /\ [s EXCEPT !.odom = @ \cup {t}, !.again = n] = [d EXCEPT !.odom = @ \cup {t}]
  OBVIOUS
<1> HIDE DEF d
<1>3. /\ [d EXCEPT !.status = @ \cup {t}]
           \in [status : SUBSET GnssStamps, odom : SUBSET GnssStamps, again : 0..MaxResent]
      /\ [d EXCEPT !.odom = @ \cup {t}]
           \in [status : SUBSET GnssStamps, odom : SUBSET GnssStamps, again : 0..MaxResent]
  BY <1>1
<1>4. QED
  BY <1>2, <1>3

LEMMA AgainInRange ==
  ASSUME TypeOK, NEW t \in GnssStamps, NEW stamps, MaySend(t, stamps)
  PROVE  Again(t, stamps) \in 0..MaxResent
<1>1. sent.again \in 0..MaxResent
  BY DEF TypeOK
<1>2. QED
  BY <1>1, ParameterTypes DEF Again, MaySend

\* A usable status that is stored: what it does to the stored ones.
LEMMA StoredStatus ==
  ASSUME Shape, NEW t \in GnssStamps, NEW q, StatusStored(t, q)
  PROVE  /\ status' \in SUBSET GnssStamps /\ IsFiniteSet(status')
         /\ \/ /\ status' = status \cup {t} /\ count' = [count EXCEPT !.received = @ + 1]
               /\ pc' = "enqueue" /\ who' = "gnss" /\ pairing' = t
            \/ /\ status' = status \cup {t}
               /\ count' = [count EXCEPT !.received = @ + 1, !.rejected = @ + 0]
               /\ UNCHANGED <<pc, who, pairing>>
            \/ /\ Cardinality(status') = Cardinality(status)
               /\ count' = [count EXCEPT !.received = @ + 1, !.rejected = @ + 1]
               /\ UNCHANGED <<pc, who, pairing>>
         /\ t \notin status
<1> DEFINE grown == status \cup {t}
<1>1. /\ grown \in SUBSET GnssStamps /\ IsFiniteSet(grown) /\ grown # {} /\ t \notin status
      /\ Cardinality(grown) = Cardinality(status) + 1 /\ Cardinality(status) \in Nat
  BY AddRemove DEF Shape, TypeOK, StatusStored
<1>2. CASE t \in OdomStamps
  <2>1. /\ status' = grown /\ count' = [count EXCEPT !.received = @ + 1]
        /\ pc' = "enqueue" /\ who' = "gnss" /\ pairing' = t
    BY <1>2 DEF StatusStored
  <2>2. QED
    BY <1>1, <2>1
<1>3. CASE t \notin OdomStamps
  <2>1. /\ status' = Kept(grown, Oldest(grown))
        /\ count' = [count EXCEPT !.received = @ + 1,
                                  !.rejected = @ + (IF status' = grown THEN 0 ELSE 1)]
        /\ UNCHANGED <<pc, who, pairing>>
    BY <1>3 DEF StatusStored
  <2>2. CASE status' = grown
    BY <1>1, <2>1, <2>2
  <2>3. CASE status' # grown
    <3>1. status' = grown \ Oldest(grown)
      BY <2>1, <2>3 DEF Kept
    <3>2. /\ status' \in SUBSET GnssStamps /\ IsFiniteSet(status')
          /\ Cardinality(status') = Cardinality(grown) - 1
      BY <1>1, <3>1, OldestRemoved, ParameterTypes
    <3>3. Cardinality(status') = Cardinality(status)
      BY <1>1, <3>2
    <3>4. QED
      BY <1>1, <2>1, <2>3, <3>2, <3>3
  <2>4. QED
    BY <2>2, <2>3
<1>4. QED
  BY <1>2, <1>3

LEMMA GnssStatusShape ==
  ASSUME Shape, NEW t \in GnssStamps, NEW q \in Qualities, GnssStatus(t, q)
  PROVE  Shape'
<1>1. /\ UNCHANGED <<raw, last_raw, odom, last_enq, pend_factor, graphVars, hist>>
      /\ pc = "idle" /\ who = "none"
  BY DEF GnssStatus, Shape, Places
<1>2. sent' \in [status : SUBSET GnssStamps, odom : SUBSET GnssStamps, again : 0..MaxResent]
  BY AgainInRange, SentKept DEF GnssStatus, Shape, TypeOK
<1>3. count \in Counters /\ pend_align \in Seq(GnssStamps)
  BY DEF Shape, TypeOK
<1>4. CASE StatusUnusable(q)
  <2>1. /\ UNCHANGED <<pc, who, pairing, status, aligned>>
        /\ \/ UNCHANGED <<pairs, cutoff, pend_align>>
           \/ pairs' = 0 /\ cutoff' = Unset /\ pend_align' = <<>>
    BY <1>4 DEF StatusUnusable
  <2>2. count' \in Counters
    <3>1. 1 + Len(pend_align) \in Nat
      BY <1>3
    <3>2. \/ count' = [count EXCEPT !.received = @ + 1, !.rejected = @ + 1]
          \/ count' = [count EXCEPT !.received = @ + 1, !.rejected = @ + 1 + Len(pend_align)]
      BY <1>4 DEF StatusUnusable, ResetRejects
    <3>3. count.rejected + 1 + Len(pend_align) = count.rejected + (1 + Len(pend_align))
      BY <1>3 DEF Counters
    <3>4. QED
      BY ZenonT(40), <1>3, <3>1, <3>2, <3>3, CountersKept
  <2>3. pairs' \in Nat /\ cutoff' \in Times /\ pend_align' \in Seq(GnssStamps)
    <3>1. pairs \in Nat /\ cutoff \in Times
      BY DEF Shape, TypeOK
    <3>2. <<>> \in Seq(GnssStamps)
      OBVIOUS
    <3>3. Unset \in Times
      BY DEF Times
    <3>4. CASE UNCHANGED <<pairs, cutoff, pend_align>>
      BY <1>3, <3>1, <3>4
    <3>5. CASE pairs' = 0 /\ cutoff' = Unset /\ pend_align' = <<>>
      BY <3>2, <3>3, <3>5
    <3>6. QED
      BY <2>1, <3>4, <3>5
  <2>4. TypeOK'
    BY <1>1, <1>2, <2>1, <2>2, <2>3 DEF Shape, TypeOK, graphVars
  <2>5. QED
    BY <1>1, <2>1, <2>4 DEF Shape, Places, RawKept, graphVars
<1>5. CASE StatusDuplicate(t, q)
  <2>1. count' \in Counters
    BY <1>3, <1>5, CountersKept DEF StatusDuplicate
  <2>2. TypeOK'
    BY <1>1, <1>2, <1>5, <2>1 DEF Shape, TypeOK, graphVars, StatusDuplicate, alignVars
  <2>3. QED
    BY <1>1, <1>5, <2>2 DEF Shape, Places, RawKept, graphVars, StatusDuplicate, alignVars
<1>6. CASE StatusStored(t, q)
  <2>1. UNCHANGED alignVars
    BY <1>6 DEF StatusStored
  <2>2. /\ status' \in SUBSET GnssStamps /\ IsFiniteSet(status')
        /\ \/ pc' = "enqueue" /\ who' = "gnss" /\ pairing' = t /\ t \in status'
           \/ UNCHANGED <<pc, who, pairing>>
    BY <1>6, StoredStatus
  <2>3. count' \in Counters
    BY <1>3, <1>6, StoredStatus, CountersKept
  <2>4. TypeOK'
    BY <1>1, <1>2, <2>1, <2>2, <2>3 DEF Shape, TypeOK, graphVars, alignVars
  <2>5. QED
    BY <1>1, <2>1, <2>2, <2>4 DEF Shape, Places, RawKept, graphVars, alignVars
<1>7. QED
  BY <1>4, <1>5, <1>6 DEF GnssStatus

LEMMA GnssOdomShape ==
  ASSUME Shape, NEW t \in GnssStamps, NEW good \in BOOLEAN, GnssOdom(t, good)
  PROVE  Shape'
<1> DEFINE grown == odom \cup {[t |-> t, good |-> good]}
<1>1. /\ UNCHANGED <<raw, last_raw, status, last_enq, alignVars, pend_factor, graphVars, hist>>
      /\ pc = "idle" /\ who = "none"
  BY DEF GnssOdom, Shape, Places
<1>2. sent' \in [status : SUBSET GnssStamps, odom : SUBSET GnssStamps, again : 0..MaxResent]
  BY AgainInRange, SentKept DEF GnssOdom, Shape, TypeOK
<1>3. count' \in Counters
  <2>1. \/ UNCHANGED count
        \/ count' = [count EXCEPT !.odom_only = @ + 1, !.rejected = @ + 1]
    BY DEF GnssOdom
  <2>2. QED
    BY <2>1, CountersKept DEF Shape, TypeOK
<1>4. odom' \in SUBSET [t : GnssStamps, good : BOOLEAN]
  <2>1. grown \in SUBSET [t : GnssStamps, good : BOOLEAN]
    <3>1. odom \in SUBSET [t : GnssStamps, good : BOOLEAN]
      BY DEF Shape, TypeOK
    <3>2. [t |-> t, good |-> good] \in [t : GnssStamps, good : BOOLEAN]
      OBVIOUS
    <3>3. QED
      BY <3>1, <3>2
  <2>2. odom' = odom \/ odom' = grown \/ odom' = Kept(grown, OldestOdom(grown))
    BY DEF GnssOdom
  <2>3. QED
    BY <2>1, <2>2 DEF Kept
<1>5. \/ UNCHANGED <<pc, who, pairing>>
      \/ pc' = "enqueue" /\ who' = "gnss" /\ pairing' = t /\ t \in status
  BY DEF GnssOdom
<1>6. TypeOK'
  BY <1>1, <1>2, <1>3, <1>4, <1>5 DEF Shape, TypeOK, alignVars, graphVars
<1>7. QED
  BY <1>1, <1>5, <1>6 DEF Shape, Places, RawKept, alignVars, graphVars

LEMMA CollectShape == Shape /\ Collect => Shape'
<1> SUFFICES ASSUME Shape, Collect PROVE Shape'
  OBVIOUS
<1> DEFINE m == Head(pend_align)
<1>1. /\ UNCHANGED <<pc, who, pairing, inputVars, pairVars, aligned, pend_factor, graphVars>>
      /\ pend_align # <<>> /\ pend_align' = Tail(pend_align) /\ raw # <<>>
  BY DEF Collect, Waiting
<1>2. m \in GnssStamps /\ pend_align' \in Seq(GnssStamps)
  <2>1. pend_align \in Seq(GnssStamps)
    BY DEF Shape, TypeOK
  <2>2. QED
    BY <1>1, <2>1, TailProperties
<1>3. /\ count' \in Counters /\ pairs' \in Nat /\ cutoff' \in Times
      /\ hist' \in [aligned : SUBSET GnssStamps, fused : SUBSET GnssStamps]
  <2>1. /\ count \in Counters /\ pairs \in Nat /\ cutoff \in Times
        /\ hist \in [aligned : SUBSET GnssStamps, fused : SUBSET GnssStamps]
    BY DEF Shape, TypeOK
  <2>2. CASE Pairable(m)
    <3>1. /\ pairs' = GrownPairs /\ cutoff' = m /\ count' = [count EXCEPT !.used = @ + 1]
          /\ hist' = [hist EXCEPT !.aligned = @ \cup {m}]
      BY <2>2 DEF Collect
    <3>2. GrownPairs \in Nat
      BY <2>1, ParameterTypes DEF GrownPairs
    <3>3. m \in Nat
      BY <1>2, ParameterTypes
    <3>4. count' \in Counters
      BY <2>1, <3>1, CountersKept
    <3>5. hist' \in [aligned : SUBSET GnssStamps, fused : SUBSET GnssStamps]
      BY <1>2, <2>1, <3>1
    <3>6. QED
      BY <3>1, <3>2, <3>3, <3>4, <3>5 DEF Times
  <2>3. CASE ~Pairable(m)
    <3>1. count' = Reject(1) /\ UNCHANGED <<pairs, cutoff, hist>>
      BY <2>3 DEF Collect
    <3>2. QED
      BY <2>1, <3>1, RejectOne
  <2>4. QED
    BY <2>2, <2>3
<1>4. TypeOK'
  BY <1>1, <1>2, <1>3 DEF Shape, TypeOK, inputVars, pairVars, graphVars
<1>5. QED
  BY <1>1, <1>4 DEF Shape, Places, RawKept, inputVars, pairVars, graphVars

LEMMA AlignShape ==
  ASSUME Shape, NEW solved \in BOOLEAN, Align(solved)
  PROVE  Shape'
<1>1. /\ UNCHANGED <<pairing, inputVars, pairVars, pairs, cutoff, pend_align, pend_factor,
                     graphVars, count, hist>>
      /\ UNCHANGED who /\ pc = "collect" /\ aligned' = solved
      /\ pc' = IF solved THEN "transition" ELSE Return
      /\ solved => pairs >= MinPairs
  BY DEF Align
<1>2. TypeOK'
  BY <1>1 DEF Shape, TypeOK, inputVars, pairVars, graphVars, Return
<1>3. Places'
  BY <1>1 DEF Shape, TypeOK, Places, pairVars, Return
<1>4. aligned' => pairs > 0
  BY <1>1, ParameterTypes DEF Shape, TypeOK
<1>5. QED
  BY <1>1, <1>2, <1>3, <1>4 DEF Shape, RawKept, inputVars, pairVars

LEMMA TransitionShape == Shape /\ Transition => Shape'
<1> SUFFICES ASSUME Shape, Transition PROVE Shape'
  OBVIOUS
<1>1. /\ UNCHANGED <<who, pairing, inputVars, pairVars, aligned, pairs, cutoff, graphVars, hist>>
      /\ pc = "transition" /\ pc' \in {"transition", "init"}
  BY DEF Transition
<1>2. pend_align' \in Seq(GnssStamps) /\ pend_factor' \in Seq(GnssStamps) /\ count' \in Counters
  <2>1. /\ pend_align \in Seq(GnssStamps) /\ pend_factor \in Seq(GnssStamps)
        /\ count \in Counters
    BY DEF Shape, TypeOK
  <2>2. \/ UNCHANGED <<pend_align, pend_factor, count>>
        \/ /\ pend_align # <<>> /\ pend_align' = Tail(pend_align)
           /\ \/ pend_factor' = InsertSorted(pend_factor, Head(pend_align)) /\ UNCHANGED count
              \/ count' = Reject(1) /\ UNCHANGED pend_factor
    BY DEF Transition
  <2>3. CASE UNCHANGED <<pend_align, pend_factor, count>>
    BY <2>1, <2>3
  <2>4. CASE pend_align # <<>>
    <3>1. Head(pend_align) \in GnssStamps /\ Tail(pend_align) \in Seq(GnssStamps)
      BY <2>1, <2>4, TailProperties
    <3>2. InsertSorted(pend_factor, Head(pend_align)) \in Seq(GnssStamps)
      BY <2>1, <3>1, InsertSortedProperties, ParameterTypes
    <3>3. Reject(1) \in Counters
      BY <2>1, RejectOne
    <3>4. QED
      BY <2>1, <2>2, <3>1, <3>2, <3>3
  <2>5. QED
    BY <2>2, <2>3, <2>4
<1>3. TypeOK'
  BY <1>1, <1>2 DEF Shape, TypeOK, inputVars, pairVars, graphVars
<1>4. QED
  BY <1>1, <1>3 DEF Shape, Places, RawKept, inputVars, pairVars, graphVars

\* The end of the raw odometry where a node may be added to the graph.
LEMMA LastRaw ==
  ASSUME Shape, raw # <<>>
  PROVE  Last(raw) \in Nat
<1>1. raw \in Seq(RawStamps)
  BY DEF Shape, TypeOK
<1>2. Len(raw) \in 1..Len(raw)
  BY <1>1
<1>3. raw[Len(raw)] \in RawStamps
  BY <1>1, <1>2
<1>4. QED
  BY <1>3, ParameterTypes DEF Last

LEMMA FrontFactor ==
  ASSUME Shape, pend_factor # <<>>
  PROVE  /\ Head(pend_factor) \in GnssStamps /\ Head(pend_factor) \in Nat
         /\ Tail(pend_factor) \in Seq(GnssStamps)
         /\ Len(pend_factor) \in Nat /\ Len(Tail(pend_factor)) = Len(pend_factor) - 1
<1>1. pend_factor \in Seq(GnssStamps)
  BY DEF Shape, TypeOK
<1>2. QED
  BY <1>1, TailProperties, ParameterTypes

LEMMA AddNodeTypes ==
  ASSUME Shape, NEW t \in Nat, NEW throws \in BOOLEAN, AddNode(t, throws)
  PROVE  keyframes' \in SUBSET Nat /\ halted' \in BOOLEAN
<1>1. keyframes' \in SUBSET Nat
  BY DEF AddNode, Refreshed, Shape, TypeOK
<1>2. halted' \in BOOLEAN
  BY DEF AddNode
<1>3. QED
  BY <1>1, <1>2

\* An exception, or the normal continuation.
LEMMA ThrowShape ==
  ASSUME Shape, Throw, pc # "idle", UNCHANGED <<pairing, status, raw, aligned, pairs>>
  PROVE  /\ pc' \in {"idle", "dead"} /\ who' \in {"none", "raw", "gnss"}
         /\ Places' /\ RawKept'
BY DEF Shape, TypeOK, Places, RawKept, Throw

LEMMA InitializeGraphShape ==
  ASSUME Shape, NEW solved \in BOOLEAN, NEW throws \in BOOLEAN, InitializeGraph(solved, throws)
  PROVE  Shape'
<1>1. /\ UNCHANGED <<pairing, inputVars, pairVars, alignVars, pend_factor, last_node,
                     last_added, count, hist>>
      /\ pc = "init"
  BY DEF InitializeGraph
<1>2. Last(raw) \in Nat
  BY <1>1, LastRaw DEF Shape, Places, RawKept
<1>3. initialized' \in BOOLEAN /\ halted' \in BOOLEAN /\ keyframes' \in SUBSET Nat
  <2>1. CASE UNCHANGED <<initialized, keyframes, halted>>
    BY <2>1 DEF Shape, TypeOK
  <2>2. CASE initialized' = TRUE /\ AddNode(Last(raw), throws)
    BY <1>2, <2>2, AddNodeTypes
  <2>3. CASE halted' = TRUE /\ UNCHANGED <<initialized, keyframes>>
    BY <2>3 DEF Shape, TypeOK
  <2>4. QED
    BY <2>1, <2>2, <2>3 DEF InitializeGraph
<1>4. /\ pc' \in {"idle", "dead", "process", "prune", "unpair"} /\ who' \in {"none", "raw", "gnss"}
      /\ Places' /\ RawKept'
  <2>1. CASE Throw
    BY <1>1, <2>1, ThrowShape DEF alignVars, pairVars, inputVars
  <2>2. CASE pc' \in {"process", Return} /\ UNCHANGED who
    BY <1>1, <2>2 DEF Shape, TypeOK, Places, RawKept, Return, alignVars, pairVars, inputVars
  <2>3. QED
    BY <2>1, <2>2 DEF InitializeGraph
<1>5. TypeOK'
  BY <1>1, <1>3, <1>4 DEF Shape, TypeOK, inputVars, pairVars, alignVars
<1>6. QED
  BY <1>1, <1>4, <1>5 DEF Shape, pairVars

LEMMA RejectPendingShape ==
  ASSUME Shape, NEW limited \in BOOLEAN, RejectPending(limited)
  PROVE  Shape'
<1>1. /\ UNCHANGED <<pc, who, pairing, inputVars, pairVars, alignVars, graphVars, hist>>
      /\ pc = "process" /\ pend_factor # <<>> /\ pend_factor' = Tail(pend_factor)
      /\ count' = Reject(1)
  BY DEF RejectPending, InProcess
<1>2. pend_factor' \in Seq(GnssStamps)
  BY <1>1, FrontFactor
<1>3. count' \in Counters
  BY <1>1, RejectOne DEF Shape, TypeOK
<1>4. TypeOK'
  BY <1>1, <1>2, <1>3 DEF Shape, TypeOK, inputVars, pairVars, alignVars, graphVars
<1>5. QED
  BY <1>1, <1>4 DEF Shape, Places, RawKept, inputVars, pairVars, alignVars

LEMMA CreateNodeShape ==
  ASSUME Shape, NEW solved \in BOOLEAN, NEW throws \in BOOLEAN, CreateNode(solved, throws)
  PROVE  Shape'
<1>1. /\ UNCHANGED <<pairing, inputVars, pairVars, alignVars, initialized, last_added, hist>>
      /\ pc = "process" /\ pend_factor # <<>>
  BY DEF CreateNode, InProcess
<1>2. /\ Head(pend_factor) \in Nat /\ pend_factor \in Seq(GnssStamps)
      /\ Tail(pend_factor) \in Seq(GnssStamps)
  BY <1>1, FrontFactor DEF Shape, TypeOK
<1>3. CASE solved
  <2>1. /\ AddNode(Head(pend_factor), throws)
        /\ last_node' = IF throws THEN last_node ELSE Head(pend_factor)
        /\ UNCHANGED <<pend_factor, count>>
        /\ Throw \/ (pc' = "factor of node" /\ UNCHANGED who)
    BY <1>3 DEF CreateNode
  <2>2. halted' \in BOOLEAN /\ keyframes' \in SUBSET Nat /\ last_node' \in Times
    BY <1>2, <2>1, AddNodeTypes DEF Shape, TypeOK, Times
  <2>3. /\ pc' \in {"idle", "dead", "factor of node"} /\ who' \in {"none", "raw", "gnss"}
        /\ Places' /\ RawKept'
    <3>1. CASE Throw
      BY <1>1, <3>1, ThrowShape DEF alignVars, pairVars, inputVars
    <3>2. CASE pc' = "factor of node" /\ UNCHANGED who
      BY <1>1, <2>1, <3>2 DEF Shape, TypeOK, Places, RawKept, alignVars, pairVars, inputVars
    <3>3. QED
      BY <2>1, <3>1, <3>2
  <2>4. TypeOK'
    BY <1>1, <2>1, <2>2, <2>3 DEF Shape, TypeOK, inputVars, pairVars, alignVars
  <2>5. QED
    BY <1>1, <2>3, <2>4 DEF Shape, pairVars
<1>4. CASE ~solved
  <2>1. /\ halted' = TRUE /\ count' = Reject(1) /\ pend_factor' = Tail(pend_factor)
        /\ UNCHANGED <<keyframes, last_node, pc, who>>
    BY <1>4 DEF CreateNode
  <2>2. count' \in Counters
    BY <2>1, RejectOne DEF Shape, TypeOK
  <2>3. TypeOK'
    BY <1>1, <1>2, <2>1, <2>2 DEF Shape, TypeOK, inputVars, pairVars, alignVars
  <2>4. QED
    BY <1>1, <2>1, <2>3 DEF Shape, Places, RawKept, inputVars, pairVars, alignVars
<1>5. QED
  BY <1>3, <1>4

LEMMA ReuseNodeShape == Shape /\ ReuseNode => Shape'
<1> SUFFICES ASSUME Shape, ReuseNode PROVE Shape'
  OBVIOUS
<1>1. /\ UNCHANGED <<who, pairing, inputVars, pairVars, alignVars, pend_factor, graphVars,
                     count, hist>>
      /\ pc = "process" /\ pend_factor # <<>> /\ pc' = "factor"
  BY DEF ReuseNode, InProcess
<1>2. TypeOK'
  BY <1>1 DEF Shape, TypeOK, inputVars, pairVars, alignVars, graphVars
<1>3. QED
  BY <1>1, <1>2 DEF Shape, Places, RawKept, inputVars, pairVars, alignVars

\* What counting a tried factor leaves.
LEMMA CountFactorTypes ==
  ASSUME Shape, pend_factor # <<>>, NEW gate \in Gates, CountFactor(gate)
  PROVE  /\ count' \in Counters /\ last_added' \in Times /\ halted' \in BOOLEAN
         /\ hist' \in [aligned : SUBSET GnssStamps, fused : SUBSET GnssStamps]
<1>1. /\ count \in Counters /\ last_added \in Times /\ halted \in BOOLEAN
      /\ hist \in [aligned : SUBSET GnssStamps, fused : SUBSET GnssStamps]
  BY DEF Shape, TypeOK
<1>2. Head(pend_factor) \in GnssStamps /\ Head(pend_factor) \in Times
  BY FrontFactor DEF Times
<1>3. CASE Accepted(gate)
  <2>1. /\ count' = [count EXCEPT !.factors = @ + 1] /\ last_added' = Head(pend_factor)
        /\ hist' = [hist EXCEPT !.fused = @ \cup {Head(pend_factor)}] /\ UNCHANGED halted
    BY <1>3 DEF CountFactor
  <2>2. count' \in Counters
    BY <1>1, <2>1, CountersKept
  <2>3. hist' \in [aligned : SUBSET GnssStamps, fused : SUBSET GnssStamps]
    BY <1>1, <1>2, <2>1
  <2>4. QED
    BY <1>1, <1>2, <2>1, <2>2, <2>3
<1>4. CASE ~Accepted(gate)
  <2>1. count' = Reject(1) /\ UNCHANGED <<last_added, hist>>
    BY <1>4 DEF CountFactor
  <2>2. halted' = (halted \/ (Later(Head(pend_factor)) /\ gate = "failed"))
    BY <1>4 DEF CountFactor
  <2>3. halted' \in BOOLEAN
    BY Zenon, <2>2
  <2>4. QED
    BY <1>1, <2>1, <2>3, RejectOne
<1>5. QED
  BY <1>3, <1>4

LEMMA AddFactorShape ==
  ASSUME Shape, NEW gate \in Gates, AddFactor(gate)
  PROVE  Shape'
<1>1. /\ UNCHANGED <<who, pairing, inputVars, pairVars, alignVars, initialized, keyframes,
                     last_node>>
      /\ CountFactor(gate) /\ pc \in {"factor", "factor of node"} /\ pend_factor # <<>>
      /\ pc' = "process" /\ pend_factor' = Tail(pend_factor)
  BY DEF AddFactor, Shape, Places
<1>2. pend_factor' \in Seq(GnssStamps)
  BY <1>1, FrontFactor
<1>3. /\ count' \in Counters /\ last_added' \in Times /\ halted' \in BOOLEAN
      /\ hist' \in [aligned : SUBSET GnssStamps, fused : SUBSET GnssStamps]
  BY <1>1, CountFactorTypes
<1>4. TypeOK'
  BY <1>1, <1>2, <1>3 DEF Shape, TypeOK, inputVars, pairVars, alignVars
<1>5. QED
  BY <1>1, <1>4 DEF Shape, Places, RawKept, inputVars, pairVars, alignVars

LEMMA FactorThrowsShape ==
  ASSUME Shape, NEW gate \in Gates, NEW early \in BOOLEAN, FactorThrows(gate, early)
  PROVE  Shape'
<1>1. /\ UNCHANGED <<pairing, inputVars, pairVars, alignVars, pend_factor, initialized,
                     keyframes, last_node>>
      /\ pc \in {"factor", "factor of node"} /\ pend_factor # <<>> /\ Throw
      /\ CountFactor(gate) \/ UNCHANGED <<count, last_added, hist, halted>>
  BY DEF FactorThrows, Shape, Places
<1>2. /\ count' \in Counters /\ last_added' \in Times /\ halted' \in BOOLEAN
      /\ hist' \in [aligned : SUBSET GnssStamps, fused : SUBSET GnssStamps]
  <2>1. CASE CountFactor(gate)
    BY <1>1, <2>1, CountFactorTypes
  <2>2. CASE UNCHANGED <<count, last_added, hist, halted>>
    BY <2>2 DEF Shape, TypeOK
  <2>3. QED
    BY <1>1, <2>1, <2>2
<1>3. pc' \in {"idle", "dead"} /\ who' \in {"none", "raw", "gnss"} /\ Places' /\ RawKept'
  BY <1>1, ThrowShape DEF alignVars, pairVars, inputVars
<1>4. TypeOK'
  BY <1>1, <1>2, <1>3 DEF Shape, TypeOK, inputVars, pairVars, alignVars
<1>5. QED
  BY <1>1, <1>3, <1>4 DEF Shape, pairVars

LEMMA TrimShape == Shape /\ Trim => Shape'
<1> SUFFICES ASSUME Shape, Trim PROVE Shape'
  OBVIOUS
<1>1. /\ UNCHANGED <<who, pairing, inputVars, pairVars, alignVars, graphVars, hist>>
      /\ pc = "process"
      /\ pc' \in {"process", IF who = "raw" THEN "key" ELSE Return}
  BY DEF Trim
<1>2. pend_factor' \in Seq(GnssStamps) /\ count' \in Counters
  <2>1. pend_factor \in Seq(GnssStamps) /\ count \in Counters /\ MaxPending \in Nat
    BY BoundsAssumption DEF Shape, TypeOK
  <2>2. \/ Len(pend_factor) > MaxPending /\ pend_factor' = Tail(pend_factor) /\ count' = Reject(1)
        \/ UNCHANGED <<pend_factor, count>>
    BY DEF Trim
  <2>3. Len(pend_factor) > MaxPending => pend_factor # <<>>
    BY <2>1
  <2>4. QED
    BY <2>1, <2>2, <2>3, FrontFactor, RejectOne
<1>3. TypeOK'
  BY <1>1, <1>2 DEF Shape, TypeOK, inputVars, pairVars, alignVars, graphVars, Return
<1>4. QED
  BY <1>1, <1>3 DEF Shape, TypeOK, Places, RawKept, inputVars, pairVars, alignVars, Return

LEMMA MaybeAddKeyframeShape ==
  ASSUME Shape, NEW moved \in BOOLEAN, NEW solved \in BOOLEAN, NEW throws \in BOOLEAN,
         MaybeAddKeyframe(moved, solved, throws)
  PROVE  Shape'
<1>1. /\ UNCHANGED <<pairing, inputVars, pairVars, alignVars, pend_factor, initialized,
                     last_node, last_added, count, hist>>
      /\ pc = "key" /\ who = "raw" /\ raw # <<>>
  BY DEF MaybeAddKeyframe, Shape, Places, RawKept
<1>2. halted' \in BOOLEAN /\ keyframes' \in SUBSET Nat
  <2>1. CASE UNCHANGED keyframes /\ (UNCHANGED halted \/ halted' = TRUE)
    BY <2>1 DEF Shape, TypeOK
  <2>2. CASE AddNode(Last(raw), throws)
    BY <1>1, <2>2, LastRaw, AddNodeTypes
  <2>3. QED
    BY <2>1, <2>2 DEF MaybeAddKeyframe
<1>3. /\ pc' \in {"idle", "dead", "prune"} /\ who' \in {"none", "raw", "gnss"}
      /\ Places' /\ RawKept'
  <2>1. CASE Throw
    BY <1>1, <2>1, ThrowShape DEF alignVars, pairVars, inputVars
  <2>2. CASE pc' = "prune" /\ UNCHANGED who
    BY <1>1, <2>2 DEF Shape, TypeOK, Places, RawKept, alignVars, pairVars, inputVars
  <2>3. QED
    BY <2>1, <2>2 DEF MaybeAddKeyframe
<1>4. TypeOK'
  BY <1>1, <1>2, <1>3 DEF Shape, TypeOK, inputVars, pairVars, alignVars
<1>5. QED
  BY <1>1, <1>3, <1>4 DEF Shape, pairVars

LEMMA NextShape == Shape /\ [Next]_vars => Shape'
<1> SUFFICES ASSUME Shape, [Next]_vars PROVE Shape'
  OBVIOUS
<1>1. CASE Receive
  BY <1>1, RawOdomShape, GnssStatusShape, GnssOdomShape DEF Receive
<1>2. CASE Step
  BY <1>2, PruneShape, EnqueueShape, UnpairShape, CollectShape, TransitionShape, AlignShape,
     InitializeGraphShape, RejectPendingShape, CreateNodeShape, ReuseNodeShape,
     AddFactorShape, FactorThrowsShape, TrimShape, MaybeAddKeyframeShape DEF Step
<1>3. CASE UNCHANGED vars
  <2>1. TypeOK'
    BY ZenonT(40), <1>3 DEF Shape, TypeOK, vars, inputVars, pairVars, alignVars, graphVars
  <2>2. Places' /\ RawKept' /\ status' = status
    BY <1>3 DEF Shape, Places, RawKept, vars, inputVars, pairVars, alignVars
  <2>3. QED
    BY <2>1, <2>2 DEF Shape
<1>4. QED
  BY <1>1, <1>2, <1>3 DEF Next

LEMMA ShapeHolds == Spec => []Shape
<1>1. QED
  BY InitShape, NextShape, PTL DEF Spec

\* Every reachable state is well typed, whatever the streams of the sensors,
\* the limits and the outcomes of the solver are.
THEOREM TypeCorrect == Spec => []TypeOK
<1>1. Shape => TypeOK
  BY DEF Shape
<1>2. QED
  BY <1>1, ShapeHolds, PTL

-----------------------------------------------------------------------------
(* A halted backend.                                                       *)

LEMMA HaltedStep ==
  ASSUME Shape, halted, [Next]_vars
  PROVE  count'.factors = count.factors /\ keyframes' = keyframes
<1>1. count \in Counters
  BY DEF Shape, TypeOK
<1>2. Reject(1).factors = count.factors
  BY <1>1 DEF Reject, Counters
<1>3. CASE Receive
  <2>1. keyframes' = keyframes
    BY <1>3 DEF Receive, RawOdom, GnssStatus, GnssOdom, graphVars
  <2>2. count'.factors = count.factors
    BY <1>1, <1>3 DEF Receive, RawOdom, GnssStatus, GnssOdom, StatusUnusable, StatusDuplicate,
       StatusStored, ResetRejects, Counters
  <2>3. QED
    BY <2>1, <2>2
<1>4. CASE Prune \/ Enqueue \/ Unpair \/ Transition \/ \E solved \in BOOLEAN : Align(solved)
  BY <1>2, <1>4 DEF Prune, Enqueue, Unpair, Transition, Align, graphVars
<1>5. CASE Collect
  BY <1>1, <1>2, <1>5 DEF Collect, graphVars, Counters
<1>6. ASSUME NEW solved \in BOOLEAN, NEW throws \in BOOLEAN, InitializeGraph(solved, throws)
      PROVE  count'.factors = count.factors /\ keyframes' = keyframes
  BY <1>6 DEF InitializeGraph, Solves
<1>7. CASE \/ \E limited \in BOOLEAN : RejectPending(limited)
           \/ ReuseNode \/ Trim
  BY <1>2, <1>7 DEF RejectPending, ReuseNode, Trim, graphVars
<1>8. ASSUME NEW solved \in BOOLEAN, NEW throws \in BOOLEAN, CreateNode(solved, throws)
      PROVE  count'.factors = count.factors /\ keyframes' = keyframes
  BY <1>2, <1>8 DEF CreateNode, Solves
<1>9. ASSUME NEW gate \in Gates, CountFactor(gate)
      PROVE  count'.factors = count.factors
  BY <1>2, <1>9 DEF CountFactor, Accepted, Solves
<1>10. ASSUME NEW gate \in Gates, AddFactor(gate)
       PROVE  count'.factors = count.factors /\ keyframes' = keyframes
  BY <1>9, <1>10 DEF AddFactor
<1>11. ASSUME NEW gate \in Gates, NEW early \in BOOLEAN, FactorThrows(gate, early)
       PROVE  count'.factors = count.factors /\ keyframes' = keyframes
  BY <1>9, <1>11 DEF FactorThrows
<1>12. ASSUME NEW moved \in BOOLEAN, NEW solved \in BOOLEAN, NEW throws \in BOOLEAN,
              MaybeAddKeyframe(moved, solved, throws)
       PROVE  count'.factors = count.factors /\ keyframes' = keyframes
  BY <1>12 DEF MaybeAddKeyframe
<1>13. CASE UNCHANGED vars
  BY <1>13 DEF vars, graphVars
<1>14. QED
  BY <1>3, <1>4, <1>5, <1>6, <1>7, <1>8, <1>10, <1>11, <1>12, <1>13 DEF Next, Step

\* Once the backend has halted, no step adds a state or a factor to the graph,
\* not even the rest of the callback in which it halted.
THEOREM HaltedGraphStaysFrozen == Spec => HaltedGraphFrozen
<1>1. Shape /\ [Next]_vars =>
        [halted => count'.factors = count.factors /\ keyframes' = keyframes]_vars
  BY HaltedStep
<1>2. QED
  BY <1>1, ShapeHolds, PTL DEF Spec, HaltedGraphFrozen

-----------------------------------------------------------------------------
(* Conservation of the samples, when the smoother's estimate never throws.   *)

\* What the counters have not accounted for yet.
Balance(c) == c.received - ((c.rejected - c.odom_only) + c.used + c.factors)

LEMMA BalanceChange ==
  ASSUME NEW c \in Counters, NEW n \in Nat
  PROVE  /\ Balance(c) \in Int
         /\ Balance([c EXCEPT !.rejected = @ + n]) = Balance(c) - n
         /\ Balance([c EXCEPT !.received = @ + 1]) = Balance(c) + 1
         /\ Balance([c EXCEPT !.received = @ + 1, !.rejected = @ + n]) = (Balance(c) + 1) - n
         /\ Balance([c EXCEPT !.odom_only = @ + 1, !.rejected = @ + 1]) = Balance(c)
         /\ Balance([c EXCEPT !.used = @ + 1]) = Balance(c) - 1
         /\ Balance([c EXCEPT !.factors = @ + 1]) = Balance(c) - 1
<1> USE DEF Counters, Balance
<1>1. Balance(c) \in Int
  OBVIOUS
<1>2. Balance([c EXCEPT !.rejected = @ + n]) = Balance(c) - n
  OBVIOUS
<1>3. Balance([c EXCEPT !.received = @ + 1]) = Balance(c) + 1
  OBVIOUS
<1>4. Balance([c EXCEPT !.received = @ + 1, !.rejected = @ + n]) = (Balance(c) + 1) - n
  OBVIOUS
<1>5. Balance([c EXCEPT !.odom_only = @ + 1, !.rejected = @ + 1]) = Balance(c)
  OBVIOUS
<1>6. Balance([c EXCEPT !.used = @ + 1]) = Balance(c) - 1
  OBVIOUS
<1>7. Balance([c EXCEPT !.factors = @ + 1]) = Balance(c) - 1
  OBVIOUS
<1> HIDE DEF Counters, Balance
<1>8. QED
  BY <1>1, <1>2, <1>3, <1>4, <1>5, <1>6, <1>7

LEMMA BalanceAndStored ==
  ASSUME NEW c \in Counters, NEW i \in Nat, NEW j \in Nat, NEW k \in Nat
  PROVE  c.received - ((c.rejected - c.odom_only) + c.used + c.factors + i + j + k)
           = Balance(c) - (i + j + k)
BY DEF Counters, Balance

\* The parts of the balance are integers.
LEMMA BalanceTypes ==
  ASSUME Shape
  PROVE  /\ count \in Counters /\ Balance(count) \in Int /\ Cardinality(status) \in Nat
         /\ pend_align \in Seq(GnssStamps) /\ pend_factor \in Seq(GnssStamps)
         /\ Len(pend_align) \in Nat /\ Len(pend_factor) \in Nat
<1>1. count \in Counters /\ pend_align \in Seq(GnssStamps) /\ pend_factor \in Seq(GnssStamps)
  BY DEF Shape, TypeOK
<1>2. Balance(count) \in Int
  BY <1>1 DEF Counters, Balance
<1>3. Cardinality(status) \in Nat
  BY FS_CardinalityType DEF Shape
<1>4. QED
  BY <1>1, <1>2, <1>3

LEMMA DeltaIsBalance ==
  ASSUME Shape
  PROVE  Delta = Balance(count) - (Cardinality(status) + Len(pend_align) + Len(pend_factor))
BY BalanceTypes, BalanceAndStored DEF Delta

LEMMA NextDeltaIsBalance ==
  ASSUME Shape'
  PROVE  Delta' = Balance(count')
                    - (Cardinality(status') + Len(pend_align') + Len(pend_factor'))
<1>1. count' \in Counters /\ pend_align' \in Seq(GnssStamps) /\ pend_factor' \in Seq(GnssStamps)
  BY DEF Shape, TypeOK
<1>2. Cardinality(status') \in Nat /\ Len(pend_align') \in Nat /\ Len(pend_factor') \in Nat
  BY <1>1, FS_CardinalityType DEF Shape
<1>3. Delta' = count'.received - ((count'.rejected - count'.odom_only) + count'.used
                 + count'.factors + Cardinality(status') + Len(pend_align') + Len(pend_factor'))
  BY DEF Delta
<1>4. QED
  BY <1>1, <1>2, <1>3, BalanceAndStored

LEMMA DeltaKept ==
  UNCHANGED <<count, status, pend_align, pend_factor>> => Delta' = Delta
BY DEF Delta

LEMMA ReceiveConserved ==
  ASSUME Shape, Conserved, Receive
  PROVE  Conserved'
<1> DEFINE stored == Cardinality(status) + Len(pend_align) + Len(pend_factor)
<1>0. /\ Delta = Balance(count) - stored /\ Delta' = Balance(count') - stored'
      /\ pc = "idle" /\ who = "none" /\ Delta = 0
  <2>1. Shape' /\ pc = "idle"
    BY NextShape DEF Next, Receive, RawOdom, GnssStatus, GnssOdom
  <2>2. QED
    BY <2>1, DeltaIsBalance, NextDeltaIsBalance DEF Conserved, Shape, Places
<1>1. ASSUME NEW t \in RawStamps, RawOdom(t)
      PROVE  Conserved'
  BY <1>0, <1>1, DeltaKept DEF RawOdom, Conserved, pairVars, alignVars
<1>2. ASSUME NEW t \in GnssStamps, NEW q \in Qualities, GnssStatus(t, q)
      PROVE  Conserved'
  <2>1. UNCHANGED pend_factor
    BY <1>2 DEF GnssStatus
  <2>2. CASE StatusUnusable(q)
    <3>1. UNCHANGED <<pc, who, status>>
      BY <2>2 DEF StatusUnusable
    <3>2. CASE q = "disabled" /\ ~aligned
      <4>1. count' = ResetRejects /\ pend_align' = <<>>
        BY <2>2, <3>2 DEF StatusUnusable
      <4>2. /\ 1 + Len(pend_align) \in Nat
            /\ count.rejected + 1 + Len(pend_align) = count.rejected + (1 + Len(pend_align))
        <5>1. count \in Counters /\ Len(pend_align) \in Nat
          BY BalanceTypes
        <5>2. count.rejected \in Nat
          BY <5>1 DEF Counters
        <5>3. QED
          BY <5>1, <5>2
      <4>3. Balance(count') = (Balance(count) + 1) - (1 + Len(pend_align))
        <5>1. count' = [count EXCEPT !.received = @ + 1, !.rejected = @ + (1 + Len(pend_align))]
          BY <4>1, <4>2 DEF ResetRejects
        <5> DEFINE n == 1 + Len(pend_align)
        <5>2. n \in Nat /\ count' = [count EXCEPT !.received = @ + 1, !.rejected = @ + n]
          BY <4>2, <5>1
        <5> HIDE DEF n
        <5>3. Balance(count') = (Balance(count) + 1) - n
          BY <5>2, BalanceTypes, BalanceChange
        <5>4. QED
          BY <5>3 DEF n
      <4>4. Len(pend_align') = 0
        BY <4>1
      <4>5. Delta' = 0
        BY <1>0, <2>1, <3>1, <4>3, <4>4, BalanceTypes
      <4>6. QED
        BY <1>0, <3>1, <4>5 DEF Conserved
    <3>3. CASE ~(q = "disabled" /\ ~aligned)
      <4>1. /\ count' = [count EXCEPT !.received = @ + 1, !.rejected = @ + 1]
            /\ UNCHANGED pend_align
        BY <2>2, <3>3 DEF StatusUnusable
      <4>2. Balance(count') = (Balance(count) + 1) - 1
        BY <4>1, BalanceTypes, BalanceChange
      <4>3. Delta' = 0
        BY <1>0, <2>1, <3>1, <4>1, <4>2, BalanceTypes
      <4>4. QED
        BY <1>0, <3>1, <4>3 DEF Conserved
    <3>4. QED
      BY <3>2, <3>3
  <2>3. CASE StatusDuplicate(t, q)
    <3>1. /\ UNCHANGED <<pc, who, status, pend_align>>
          /\ count' = [count EXCEPT !.received = @ + 1, !.rejected = @ + 1]
      BY <2>3 DEF StatusDuplicate, alignVars
    <3>2. Balance(count') = (Balance(count) + 1) - 1
      BY <3>1, BalanceTypes, BalanceChange
    <3>3. Delta' = 0
      BY <1>0, <2>1, <3>1, <3>2, BalanceTypes
    <3>4. QED
      BY <1>0, <3>1, <3>3 DEF Conserved
  <2>4. CASE StatusStored(t, q)
    <3>1. UNCHANGED pend_align
      BY <2>4 DEF StatusStored, alignVars
    <3>2. Cardinality(status \cup {t}) = Cardinality(status) + 1
      BY <2>4, StoredStatus, AddRemove DEF Shape
    <3>3. CASE /\ status' = status \cup {t} /\ count' = [count EXCEPT !.received = @ + 1]
               /\ pc' = "enqueue" /\ who' = "gnss" /\ pairing' = t
      <4>1. Balance(count') = Balance(count) + 1
        BY <3>3, BalanceTypes, BalanceChange
      <4>2. Delta' = 0
        BY <1>0, <2>1, <3>1, <3>2, <3>3, <4>1, BalanceTypes
      <4>3. QED
        BY <3>3, <4>2 DEF Conserved
    <3>4. CASE /\ status' = status \cup {t}
               /\ count' = [count EXCEPT !.received = @ + 1, !.rejected = @ + 0]
               /\ UNCHANGED <<pc, who, pairing>>
      <4>1. Balance(count') = (Balance(count) + 1) - 0
        BY <3>4, BalanceTypes, BalanceChange
      <4>2. Delta' = 0
        BY <1>0, <2>1, <3>1, <3>2, <3>4, <4>1, BalanceTypes
      <4>3. QED
        BY <1>0, <3>4, <4>2 DEF Conserved
    <3>5. CASE /\ Cardinality(status') = Cardinality(status)
               /\ count' = [count EXCEPT !.received = @ + 1, !.rejected = @ + 1]
               /\ UNCHANGED <<pc, who, pairing>>
      <4>1. Balance(count') = (Balance(count) + 1) - 1
        BY <3>5, BalanceTypes, BalanceChange
      <4>2. Delta' = 0
        BY <1>0, <2>1, <3>1, <3>5, <4>1, BalanceTypes
      <4>3. QED
        BY <1>0, <3>5, <4>2 DEF Conserved
    <3>6. QED
      BY <2>4, <3>3, <3>4, <3>5, StoredStatus
  <2>5. QED
    BY <1>2, <2>2, <2>3, <2>4 DEF GnssStatus
<1>3. ASSUME NEW t \in GnssStamps, NEW good \in BOOLEAN, GnssOdom(t, good)
      PROVE  Conserved'
  <2>1. /\ UNCHANGED <<status, pend_align, pend_factor>>
        /\ \/ UNCHANGED <<pc, who>>
           \/ pc' = "enqueue" /\ who' = "gnss"
        /\ \/ UNCHANGED count
           \/ count' = [count EXCEPT !.odom_only = @ + 1, !.rejected = @ + 1]
    BY <1>3 DEF GnssOdom, alignVars
  <2>2. Balance(count') = Balance(count)
    BY <2>1, BalanceTypes, BalanceChange
  <2>3. Delta' = Delta
    BY <1>0, <2>1, <2>2
  <2>4. QED
    BY <1>0, <2>1, <2>3 DEF Conserved
<1>4. QED
  BY <1>1, <1>2, <1>3 DEF Receive

LEMMA RejectBalance ==
  ASSUME Shape
  PROVE  Balance(Reject(1)) = Balance(count) - 1
BY BalanceTypes, BalanceChange DEF Reject

LEMMA StepConserved ==
  ASSUME Shape, Conserved, Step, ~MayThrow
  PROVE  Conserved'
<1> DEFINE stored == Cardinality(status) + Len(pend_align) + Len(pend_factor)
<1>0. Delta = Balance(count) - stored /\ Delta' = Balance(count') - stored'
  BY NextShape, DeltaIsBalance, NextDeltaIsBalance DEF Next
<1>1. CASE Prune
  BY <1>1, DeltaKept DEF Prune, Conserved, Shape, Places, pairVars, alignVars
<1>2. CASE Enqueue
  <2>1. /\ UNCHANGED <<who, status>> /\ pc = "enqueue" /\ who = "gnss"
        /\ pc' \in {"unpair", "process", "collect"} /\ pairing \in GnssStamps
    BY <1>2 DEF Enqueue, ProcessNow, Shape, TypeOK, Places
  <2>2. CASE count' = Reject(1) /\ UNCHANGED <<last_enq, pend_align, pend_factor>>
    BY <1>0, <2>1, <2>2, RejectBalance, BalanceTypes DEF Conserved
  <2>3. CASE /\ UNCHANGED <<count, pend_align>>
             /\ pend_factor' = InsertSorted(pend_factor, pairing)
    <3>1. Len(pend_factor') = Len(pend_factor) + 1
      BY <2>1, <2>3, InsertSortedProperties, ParameterTypes, BalanceTypes
    <3>2. QED
      BY <1>0, <2>1, <2>3, <3>1, BalanceTypes DEF Conserved
  <2>4. CASE UNCHANGED <<count, pend_factor>> /\ pend_align' = Append(pend_align, pairing)
    <3>1. Len(pend_align') = Len(pend_align) + 1
      BY <2>1, <2>4, BalanceTypes
    <3>2. QED
      BY <1>0, <2>1, <2>4, <3>1, BalanceTypes DEF Conserved
  <2>5. QED
    BY <1>2, <2>2, <2>3, <2>4 DEF Enqueue
<1>3. CASE Unpair
  <2>1. /\ UNCHANGED <<count, pend_align, pend_factor>> /\ status' = status \ {pairing}
        /\ pc = "unpair" /\ who = "gnss" /\ pairing \in status
        /\ pc' = "idle" /\ who' = "none"
    BY <1>3 DEF Unpair, alignVars, Shape, Places
  <2>2. Cardinality(status') = Cardinality(status) - 1
    BY <2>1, AddRemove DEF Shape
  <2>3. QED
    BY <1>0, <2>1, <2>2, BalanceTypes DEF Conserved
<1>4. CASE Collect
  <2>1. /\ UNCHANGED <<pc, who, status, pend_factor>> /\ pc = "collect"
        /\ pend_align # <<>> /\ pend_align' = Tail(pend_align)
        /\ count' = Reject(1) \/ count' = [count EXCEPT !.used = @ + 1]
    BY <1>4 DEF Collect, pairVars
  <2>2. Len(pend_align') = Len(pend_align) - 1
    BY <2>1, TailProperties, BalanceTypes
  <2>3. Balance(count') = Balance(count) - 1
    BY <2>1, RejectBalance, BalanceTypes, BalanceChange
  <2>4. Delta' = Delta
    BY <1>0, <2>1, <2>2, <2>3, BalanceTypes
  <2>5. QED
    BY <2>1, <2>4 DEF Conserved
<1>5. ASSUME NEW solved \in BOOLEAN, Align(solved)
      PROVE  Conserved'
  BY <1>5, DeltaKept DEF Align, Conserved, pairVars, Return
<1>6. CASE Transition
  <2>1. /\ UNCHANGED <<who, status>> /\ pc = "transition" /\ pc' \in {"transition", "init"}
    BY <1>6 DEF Transition, pairVars
  <2>2. Delta' = Delta
    <3>1. CASE UNCHANGED <<pend_align, pend_factor, count>>
      BY <2>1, <3>1, DeltaKept
    <3>2. CASE pend_align # <<>> /\ pend_align' = Tail(pend_align)
      <4>1. /\ Len(pend_align') = Len(pend_align) - 1 /\ Head(pend_align) \in GnssStamps
        BY <3>2, TailProperties, BalanceTypes
      <4>2. CASE UNCHANGED count /\ pend_factor' = InsertSorted(pend_factor, Head(pend_align))
        <5>1. Len(pend_factor') = Len(pend_factor) + 1
          BY <4>1, <4>2, InsertSortedProperties, ParameterTypes, BalanceTypes
        <5>2. QED
          BY SMTT(30), <1>0, <2>1, <4>1, <4>2, <5>1, BalanceTypes
      <4>3. CASE count' = Reject(1) /\ UNCHANGED pend_factor
        BY <1>0, <2>1, <4>1, <4>3, RejectBalance, BalanceTypes
      <4>4. QED
        BY <1>6, <3>2, <4>2, <4>3 DEF Transition
    <3>3. QED
      BY <1>6, <3>1, <3>2 DEF Transition
  <2>3. QED
    BY <2>1, <2>2 DEF Conserved
<1>7. ASSUME NEW solved \in BOOLEAN, NEW throws \in BOOLEAN, InitializeGraph(solved, throws)
      PROVE  Conserved'
  BY <1>7, DeltaKept DEF InitializeGraph, Conserved, pairVars, alignVars, Return
<1>8. ASSUME pc = "process", pend_factor # <<>>, pend_factor' = Tail(pend_factor),
             count' = Reject(1), UNCHANGED <<pc, who, status, pend_align>>
      PROVE  Conserved'
  <2>1. Len(pend_factor') = Len(pend_factor) - 1
    BY <1>8, FrontFactor
  <2>2. Delta' = Delta
    BY <1>0, <1>8, <2>1, RejectBalance, BalanceTypes
  <2>3. QED
    BY <1>8, <2>2 DEF Conserved
<1>9. ASSUME NEW limited \in BOOLEAN, RejectPending(limited)
      PROVE  Conserved'
  BY <1>8, <1>9 DEF RejectPending, InProcess, pairVars, alignVars
<1>10. ASSUME NEW solved \in BOOLEAN, NEW throws \in BOOLEAN, CreateNode(solved, throws)
       PROVE  Conserved'
  <2>1. /\ pc = "process" /\ pend_factor # <<>> /\ UNCHANGED <<status, pend_align>>
    BY <1>10 DEF CreateNode, InProcess, pairVars, alignVars
  <2>2. CASE solved
    <3>1. /\ UNCHANGED <<who, pend_factor, count>> /\ pc' = "factor of node"
      BY <1>10, <2>2 DEF CreateNode
    <3>2. QED
      BY <2>1, <3>1, DeltaKept DEF Conserved
  <2>3. CASE ~solved
    BY <1>8, <1>10, <2>1, <2>3 DEF CreateNode
  <2>4. QED
    BY <2>2, <2>3
<1>11. CASE ReuseNode
  BY <1>11, DeltaKept DEF ReuseNode, InProcess, Conserved, pairVars, alignVars
<1>12. ASSUME NEW gate \in Gates, AddFactor(gate)
       PROVE  Conserved'
  <2>1. /\ UNCHANGED <<who, status, pend_align>> /\ CountFactor(gate)
        /\ pc \in {"factor", "factor of node"} /\ pend_factor # <<>>
        /\ pc' = "process" /\ pend_factor' = Tail(pend_factor)
    BY <1>12 DEF AddFactor, Shape, Places, pairVars, alignVars
  <2>2. Balance(count') = Balance(count) - 1
    <3>1. count' = Reject(1) \/ count' = [count EXCEPT !.factors = @ + 1]
      BY <2>1 DEF CountFactor
    <3>2. QED
      BY <3>1, RejectBalance, BalanceTypes, BalanceChange
  <2>3. Len(pend_factor') = Len(pend_factor) - 1
    BY <2>1, FrontFactor
  <2>4. Delta' = Delta
    <3>1. UNCHANGED <<status, pend_align>>
      BY <2>1
    <3>2. QED
      BY <1>0, <2>2, <2>3, <3>1, BalanceTypes
  <2>5. QED
    BY <2>1, <2>4 DEF Conserved
<1>13. CASE Trim
  <2>1. /\ pc = "process" /\ UNCHANGED <<who, status, pend_align>>
    BY <1>13 DEF Trim, pairVars, alignVars
  <2>2. CASE /\ Len(pend_factor) > MaxPending
             /\ pend_factor' = Tail(pend_factor) /\ count' = Reject(1) /\ UNCHANGED pc
    <3>1. pend_factor # <<>>
      <4>1. MaxPending \in Nat /\ Len(pend_factor) \in Nat
        BY BoundsAssumption, BalanceTypes
      <4>2. QED
        BY <2>2, <4>1
    <3>2. QED
      BY <1>8, <2>1, <2>2, <3>1
  <2>3. CASE /\ pc' = (IF who = "raw" THEN "key" ELSE Return)
             /\ UNCHANGED <<pend_factor, count>>
    BY <2>1, <2>3, DeltaKept DEF Conserved, Return
  <2>4. QED
    BY <1>13, <2>2, <2>3 DEF Trim
<1>14. ASSUME NEW moved \in BOOLEAN, NEW solved \in BOOLEAN, NEW throws \in BOOLEAN,
              MaybeAddKeyframe(moved, solved, throws)
       PROVE  Conserved'
  BY <1>14, DeltaKept DEF MaybeAddKeyframe, Conserved, pairVars, alignVars
<1>15. QED
  BY <1>1, <1>2, <1>3, <1>4, <1>5, <1>6, <1>7, <1>9, <1>10, <1>11, <1>12, <1>13, <1>14
     DEF Step, FactorThrows

\* When the smoother's estimate never throws, no GNSS sample is dropped
\* silently or counted twice: between callbacks every received status is
\* rejected, an alignment pair, a factor, or waiting.
THEOREM SamplesConserved ==
  ASSUME ~MayThrow
  PROVE  Spec => []Conservation
<1>1. Init => Conserved
  <2>1. ASSUME Init PROVE Delta = 0
    <3>1. /\ Cardinality(status) = 0 /\ Len(pend_align) = 0 /\ Len(pend_factor) = 0
          /\ count.received = 0 /\ count.rejected = 0 /\ count.odom_only = 0
          /\ count.used = 0 /\ count.factors = 0
      BY <2>1, FS_EmptySet DEF Init
    <3>2. QED
      BY <3>1 DEF Delta
  <2>2. QED
    BY <2>1 DEF Init, Conserved
<1>2. Shape /\ Conserved /\ [Next]_vars => Conserved'
  <2> SUFFICES ASSUME Shape, Conserved, [Next]_vars PROVE Conserved'
    OBVIOUS
  <2>1. CASE UNCHANGED vars
    <3>1. UNCHANGED <<count, status, pend_align, pend_factor, pc, who>>
      BY <2>1 DEF vars, pairVars, alignVars
    <3>2. QED
      BY <3>1, DeltaKept DEF Conserved
  <2>2. QED
    BY <2>1, ReceiveConserved, StepConserved DEF Next
<1>3. Shape /\ Conserved => Conservation
  BY DEF Conserved, Conservation, Shape, Places
<1>4. QED
  BY <1>1, <1>2, <1>3, ShapeHolds, PTL DEF Spec

-----------------------------------------------------------------------------
(* No sample is used twice.                                                *)

UsedOnce == StampsOrdered /\ HistoryCounted

\* The stamps that are compared are numbers.
LEMMA StampTypes ==
  ASSUME Shape
  PROVE  /\ hist.aligned \in SUBSET Nat /\ hist.fused \in SUBSET Nat
         /\ last_enq \in Int /\ last_added \in Int
         /\ pend_align \in Seq(GnssStamps) /\ pend_factor \in Seq(GnssStamps)
         /\ \A i \in DOMAIN pend_align : pend_align[i] \in Nat
         /\ \A i \in DOMAIN pend_factor : pend_factor[i] \in Nat
<1>1. hist.aligned \in SUBSET Nat /\ hist.fused \in SUBSET Nat
  BY ParameterTypes DEF Shape, TypeOK
<1>2. last_enq \in Int /\ last_added \in Int
  <2>1. last_enq \in Times /\ last_added \in Times
    BY DEF Shape, TypeOK
  <2>2. QED
    BY <2>1 DEF Times, Unset
<1>3. pend_align \in Seq(GnssStamps) /\ pend_factor \in Seq(GnssStamps)
  BY DEF Shape, TypeOK
<1>4. ASSUME NEW s \in Seq(GnssStamps), NEW i \in DOMAIN s
      PROVE  s[i] \in Nat
  <2>1. s[i] \in GnssStamps
    BY <1>4
  <2>2. QED
    BY <2>1, ParameterTypes
<1>5. QED
  BY <1>1, <1>2, <1>3, <1>4

\* The history and the counters that go with it do not change.
LEMMA HistoryKept ==
  ASSUME HistoryCounted, UNCHANGED hist,
         count'.used = count.used, count'.factors = count.factors
  PROVE  HistoryCounted'
BY DEF HistoryCounted

\* Steps that at most take a sample out of the factor queue.
LEMMA FrontRemoved ==
  ASSUME Shape, StampsOrdered, UNCHANGED <<hist, last_enq, last_added, pend_align>>,
         aligned' \/ ~aligned,
         \/ UNCHANGED pend_factor
         \/ pend_factor # <<>> /\ pend_factor' = Tail(pend_factor)
  PROVE  StampsOrdered'
<1>1. ~aligned' => pend_factor' = <<>> /\ hist'.fused = {}
  BY DEF StampsOrdered
<1>2. ASSUME NEW a \in hist.aligned, NEW i \in DOMAIN pend_factor'
      PROVE  a < pend_factor'[i]
  <2>1. CASE UNCHANGED pend_factor
    BY <1>2, <2>1 DEF StampsOrdered
  <2>2. CASE pend_factor # <<>> /\ pend_factor' = Tail(pend_factor)
    <3>1. i + 1 \in DOMAIN pend_factor /\ pend_factor'[i] = pend_factor[i + 1]
      BY <1>2, <2>2, TailProperties, StampTypes
    <3>2. QED
      BY <1>2, <3>1 DEF StampsOrdered
  <2>3. QED
    BY <2>1, <2>2
<1>3. QED
  BY <1>1, <1>2 DEF StampsOrdered

\* What the counters of used samples become.
LEMMA UseCounters ==
  ASSUME NEW c \in Counters, NEW n \in Nat
  PROVE  /\ [c EXCEPT !.rejected = @ + n].used = c.used
         /\ [c EXCEPT !.rejected = @ + n].factors = c.factors
         /\ [c EXCEPT !.received = @ + 1].used = c.used
         /\ [c EXCEPT !.received = @ + 1].factors = c.factors
         /\ [c EXCEPT !.received = @ + 1, !.rejected = @ + n].used = c.used
         /\ [c EXCEPT !.received = @ + 1, !.rejected = @ + n].factors = c.factors
         /\ [c EXCEPT !.odom_only = @ + 1, !.rejected = @ + 1].used = c.used
         /\ [c EXCEPT !.odom_only = @ + 1, !.rejected = @ + 1].factors = c.factors
         /\ [c EXCEPT !.used = @ + 1].used = c.used + 1
         /\ [c EXCEPT !.used = @ + 1].factors = c.factors
         /\ [c EXCEPT !.factors = @ + 1].used = c.used
         /\ [c EXCEPT !.factors = @ + 1].factors = c.factors + 1
BY DEF Counters

LEMMA RejectUses ==
  ASSUME Shape
  PROVE  Reject(1).used = count.used /\ Reject(1).factors = count.factors
BY UseCounters DEF Reject, Shape, TypeOK

LEMMA RawOdomUses ==
  ASSUME Shape, UsedOnce, NEW t \in RawStamps, RawOdom(t)
  PROVE  UsedOnce'
<1>1. UNCHANGED <<hist, last_enq, last_added, pend_align, aligned, pend_factor, count>>
  BY DEF RawOdom, pairVars, alignVars, graphVars
<1>2. QED
  BY <1>1, FrontRemoved, HistoryKept DEF UsedOnce

LEMMA GnssStatusUses ==
  ASSUME Shape, UsedOnce, NEW t \in GnssStamps, NEW q \in Qualities, GnssStatus(t, q)
  PROVE  UsedOnce'
<1>1. UNCHANGED <<hist, last_enq, last_added, pend_factor>>
  BY DEF GnssStatus, graphVars
<1>2. UNCHANGED aligned /\ (UNCHANGED pend_align \/ pend_align' = <<>>)
  BY DEF GnssStatus, StatusUnusable, StatusDuplicate, StatusStored, alignVars
<1>3. count'.used = count.used /\ count'.factors = count.factors
  <2>1. count \in Counters
    BY DEF Shape, TypeOK
  <2>2. QED
    BY <2>1 DEF GnssStatus, StatusUnusable, StatusDuplicate, StatusStored, ResetRejects, Counters
<1>4. StampsOrdered'
  <2>1. CASE UNCHANGED pend_align
    BY <1>1, <1>2, <2>1, FrontRemoved DEF UsedOnce
  <2>2. CASE pend_align' = <<>>
    <3>1. DOMAIN pend_align' = {}
      BY <2>2
    <3>2. QED
      BY <1>1, <1>2, <3>1 DEF UsedOnce, StampsOrdered
  <2>3. QED
    BY <1>2, <2>1, <2>2
<1>5. QED
  BY <1>1, <1>3, <1>4, HistoryKept DEF UsedOnce

LEMMA GnssOdomUses ==
  ASSUME Shape, UsedOnce, NEW t \in GnssStamps, NEW good \in BOOLEAN, GnssOdom(t, good)
  PROVE  UsedOnce'
<1>1. UNCHANGED <<hist, last_enq, last_added, pend_align, aligned, pend_factor>>
  BY DEF GnssOdom, alignVars, graphVars
<1>2. count'.used = count.used /\ count'.factors = count.factors
  <2>1. \/ UNCHANGED count
        \/ count' = [count EXCEPT !.odom_only = @ + 1, !.rejected = @ + 1]
    BY DEF GnssOdom
  <2>2. QED
    BY <2>1 DEF Shape, TypeOK, Counters
<1>3. QED
  BY <1>1, <1>2, FrontRemoved, HistoryKept DEF UsedOnce

\* The steps that use no sample and put none into a queue.
LEMMA IdleUses ==
  ASSUME Shape, UsedOnce,
         \/ Prune \/ Unpair \/ ReuseNode \/ Trim
         \/ \E solved \in BOOLEAN : Align(solved)
         \/ \E limited \in BOOLEAN : RejectPending(limited)
         \/ \E solved, throws \in BOOLEAN :
              InitializeGraph(solved, throws) \/ CreateNode(solved, throws)
         \/ \E moved, solved, throws \in BOOLEAN : MaybeAddKeyframe(moved, solved, throws)
  PROVE  UsedOnce'
<1>1. UNCHANGED <<hist, last_enq, last_added, pend_align>>
  BY DEF Prune, Unpair, ReuseNode, Trim, Align, RejectPending, InitializeGraph, CreateNode,
     MaybeAddKeyframe, pairVars, alignVars, graphVars
<1>2. aligned' \/ ~aligned
  BY DEF Prune, Unpair, ReuseNode, Trim, Align, RejectPending, InitializeGraph, CreateNode,
     MaybeAddKeyframe, alignVars, Shape, Places
<1>3. UNCHANGED count \/ count' = Reject(1)
  BY DEF Prune, Unpair, ReuseNode, Trim, Align, RejectPending, InitializeGraph, CreateNode,
     MaybeAddKeyframe
<1>4. \/ UNCHANGED pend_factor
      \/ pend_factor # <<>> /\ pend_factor' = Tail(pend_factor)
  <2>1. CASE Trim
    <3>1. MaxPending \in Nat
      BY BoundsAssumption
    <3>2. Len(pend_factor) > MaxPending => pend_factor # <<>>
      BY <3>1
    <3>3. QED
      BY <2>1, <3>2 DEF Trim
  <2>2. CASE ~Trim
    BY <2>2 DEF Prune, Unpair, ReuseNode, Align, RejectPending, InitializeGraph, CreateNode,
       MaybeAddKeyframe, InProcess
  <2>3. QED
    BY <2>1, <2>2
<1>5. count'.used = count.used /\ count'.factors = count.factors
  BY <1>3, RejectUses
<1>6. QED
  BY <1>1, <1>2, <1>4, <1>5, FrontRemoved, HistoryKept DEF UsedOnce

\* A sample inserted into the factor queue is newer than the aligned ones.
LEMMA InsertedAfter ==
  ASSUME Shape, StampsOrdered, NEW m \in GnssStamps, \A a \in hist.aligned : a < m,
         pend_factor' = InsertSorted(pend_factor, m),
         NEW a \in hist.aligned, NEW i \in DOMAIN pend_factor'
  PROVE  a < pend_factor'[i]
<1>1. pend_factor \in Seq(GnssStamps) /\ GnssStamps \in SUBSET Nat
  BY StampTypes, ParameterTypes
<1>2. /\ pend_factor' \in Seq(GnssStamps) /\ Len(pend_factor') = Len(pend_factor) + 1
      /\ \A k \in 1..(Len(pend_factor) + 1) :
           \/ pend_factor'[k] = m
           \/ \E j \in 1..Len(pend_factor) : pend_factor'[k] = pend_factor[j]
  BY <1>1, InsertSortedProperties
<1>3. i \in 1..(Len(pend_factor) + 1) /\ DOMAIN pend_factor = 1..Len(pend_factor)
  BY <1>1, <1>2
<1>4. CASE pend_factor'[i] = m
  BY <1>4
<1>5. ASSUME NEW j \in 1..Len(pend_factor), pend_factor'[i] = pend_factor[j]
      PROVE  a < pend_factor'[i]
  BY <1>3, <1>5 DEF StampsOrdered
<1>6. QED
  BY <1>2, <1>3, <1>4, <1>5

LEMMA EnqueueUses == Shape /\ UsedOnce /\ Enqueue => UsedOnce'
<1> SUFFICES ASSUME Shape, UsedOnce, Enqueue PROVE UsedOnce'
  OBVIOUS
<1>1. /\ UNCHANGED <<hist, last_added, aligned>> /\ pairing \in GnssStamps /\ pairing \in Nat
  BY ParameterTypes DEF Enqueue, alignVars, graphVars, Shape, TypeOK, Places
<1>2. count'.used = count.used /\ count'.factors = count.factors
  BY RejectUses DEF Enqueue
<1>3. CASE UNCHANGED <<last_enq, pend_align, pend_factor>>
  BY <1>1, <1>2, <1>3, FrontRemoved, HistoryKept DEF UsedOnce
<1>4. ASSUME Newer(pairing), last_enq' = pairing,
             \/ /\ aligned /\ pend_factor' = InsertSorted(pend_factor, pairing)
                /\ UNCHANGED pend_align
             \/ /\ ~aligned /\ pend_align' = Append(pend_align, pairing)
                /\ UNCHANGED pend_factor
      PROVE  UsedOnce'
  <2>1. last_enq < pairing
    BY <1>1, <1>4, StampTypes DEF Newer
  <2>2. \A a \in hist.aligned : a < pairing
    BY <1>1, <2>1, StampTypes DEF UsedOnce, StampsOrdered
  <2>3. \A i \in DOMAIN pend_align : pend_align[i] < pairing
    BY <1>1, <2>1, StampTypes DEF UsedOnce, StampsOrdered
  <2>4. CASE /\ aligned /\ pend_factor' = InsertSorted(pend_factor, pairing)
             /\ UNCHANGED pend_align
    <3>1. \A a \in hist.aligned : \A i \in DOMAIN pend_factor' : a < pend_factor'[i]
      BY <1>1, <2>2, <2>4, InsertedAfter DEF UsedOnce
    <3>2. \A a \in hist.aligned : a <= last_enq'
      BY <1>1, <1>4, <2>2, StampTypes
    <3>3. \A i \in DOMAIN pend_align' : pend_align'[i] <= last_enq'
      BY <1>1, <1>4, <2>3, <2>4, StampTypes
    <3>4. StampsOrdered'
      BY <1>1, <2>4, <3>1, <3>2, <3>3 DEF UsedOnce, StampsOrdered
    <3>5. QED
      BY <1>1, <1>2, <3>4, HistoryKept DEF UsedOnce
  <2>5. CASE ~aligned /\ pend_align' = Append(pend_align, pairing) /\ UNCHANGED pend_factor
    <3>1. /\ DOMAIN pend_align' = 1..(Len(pend_align) + 1) /\ Len(pend_align) \in Nat
          /\ DOMAIN pend_align = 1..Len(pend_align)
          /\ pend_align'[Len(pend_align) + 1] = pairing
          /\ \A i \in DOMAIN pend_align : pend_align'[i] = pend_align[i]
      BY <1>1, <2>5, StampTypes
    <3>2. \A a \in hist.aligned : a <= last_enq'
      BY <1>1, <1>4, <2>2, StampTypes
    <3>3. ASSUME NEW i \in DOMAIN pend_align'
          PROVE  /\ pend_align'[i] <= last_enq'
                 /\ \A a \in hist.aligned : a < pend_align'[i]
      <4>1. CASE i \in DOMAIN pend_align
        BY <1>1, <1>4, <2>3, <3>1, <4>1, StampTypes DEF UsedOnce, StampsOrdered
      <4>2. CASE i = Len(pend_align) + 1
        BY <1>1, <1>4, <2>2, <3>1, <4>2
      <4>3. QED
        BY <3>1, <4>1, <4>2
    <3>4. ASSUME NEW i \in DOMAIN pend_align', NEW j \in DOMAIN pend_align', i < j
          PROVE  pend_align'[i] < pend_align'[j]
      <4>1. i \in DOMAIN pend_align
        BY <3>1, <3>4
      <4>2. CASE j \in DOMAIN pend_align
        BY <3>1, <3>4, <4>1, <4>2 DEF UsedOnce, StampsOrdered
      <4>3. CASE j = Len(pend_align) + 1
        BY <2>3, <3>1, <4>1, <4>3
      <4>4. QED
        BY <3>1, <4>2, <4>3
    <3>5. StampsOrdered'
      BY <1>1, <2>5, <3>2, <3>3, <3>4 DEF UsedOnce, StampsOrdered
    <3>6. QED
      BY <1>1, <1>2, <3>5, HistoryKept DEF UsedOnce
  <2>6. QED
    BY <1>4, <2>4, <2>5
<1>5. QED
  BY <1>3, <1>4 DEF Enqueue

\* The first of the samples that wait for the alignment, and the rest.
LEMMA FrontAligned ==
  ASSUME Shape, StampsOrdered, pend_align # <<>>, pend_align' = Tail(pend_align)
  PROVE  /\ Head(pend_align) \in GnssStamps /\ Head(pend_align) \in Nat
         /\ Head(pend_align) <= last_enq
         /\ \A a \in hist.aligned : a < Head(pend_align)
         /\ \A i \in DOMAIN pend_align' :
              /\ Head(pend_align) < pend_align'[i] /\ pend_align'[i] <= last_enq
              /\ \A a \in hist.aligned : a < pend_align'[i]
              /\ \A j \in DOMAIN pend_align' : i < j => pend_align'[i] < pend_align'[j]
<1>1. /\ pend_align \in Seq(GnssStamps) /\ GnssStamps \in SUBSET Nat
  BY StampTypes, ParameterTypes
<1>2. /\ Head(pend_align) = pend_align[1] /\ Len(pend_align) \in Nat \ {0}
      /\ Head(pend_align) \in GnssStamps /\ DOMAIN pend_align = 1..Len(pend_align)
      /\ DOMAIN pend_align' = 1..(Len(pend_align) - 1)
      /\ \A i \in 1..(Len(pend_align) - 1) : pend_align'[i] = pend_align[i + 1]
  BY <1>1, TailProperties
<1>3. 1 \in DOMAIN pend_align
  BY <1>2
<1>4. /\ Head(pend_align) <= last_enq /\ \A a \in hist.aligned : a < Head(pend_align)
  BY <1>2, <1>3 DEF StampsOrdered
<1>5. ASSUME NEW i \in DOMAIN pend_align'
      PROVE  /\ Head(pend_align) < pend_align'[i] /\ pend_align'[i] <= last_enq
             /\ \A a \in hist.aligned : a < pend_align'[i]
             /\ \A j \in DOMAIN pend_align' : i < j => pend_align'[i] < pend_align'[j]
  <2>1. i + 1 \in DOMAIN pend_align /\ 1 < i + 1 /\ pend_align'[i] = pend_align[i + 1]
    BY <1>2
  <2>2. /\ pend_align[1] < pend_align[i + 1] /\ pend_align[i + 1] <= last_enq
        /\ \A a \in hist.aligned : a < pend_align[i + 1]
    BY <1>3, <2>1 DEF StampsOrdered
  <2>3. ASSUME NEW j \in DOMAIN pend_align', i < j
        PROVE  pend_align'[i] < pend_align'[j]
    <3>1. j + 1 \in DOMAIN pend_align /\ i + 1 < j + 1 /\ pend_align'[j] = pend_align[j + 1]
      BY <1>2, <2>3
    <3>2. pend_align[i + 1] < pend_align[j + 1]
      BY <2>1, <3>1 DEF StampsOrdered
    <3>3. QED
      BY <2>1, <3>1, <3>2
  <2>4. QED
    BY <1>2, <2>1, <2>2, <2>3
<1>6. QED
  BY <1>1, <1>2, <1>4, <1>5

LEMMA CollectUses == Shape /\ UsedOnce /\ Collect => UsedOnce'
<1> SUFFICES ASSUME Shape, UsedOnce, Collect PROVE UsedOnce'
  OBVIOUS
<1> DEFINE m == Head(pend_align)
<1>1. /\ UNCHANGED <<last_enq, last_added, aligned, pend_factor>> /\ ~aligned
      /\ pend_align # <<>> /\ pend_align' = Tail(pend_align)
  BY DEF Collect, pairVars, graphVars, Shape, Places
<1>2. pend_factor = <<>> /\ hist.fused = {}
  BY <1>1 DEF UsedOnce, StampsOrdered
<1>3. /\ m \in Nat /\ m <= last_enq /\ \A a \in hist.aligned : a < m
      /\ \A i \in DOMAIN pend_align' :
           /\ m < pend_align'[i] /\ pend_align'[i] <= last_enq
           /\ \A a \in hist.aligned : a < pend_align'[i]
           /\ \A j \in DOMAIN pend_align' : i < j => pend_align'[i] < pend_align'[j]
  BY <1>1, FrontAligned DEF UsedOnce
<1>4. CASE Pairable(m)
  <2>1. hist.aligned' = hist.aligned \cup {m} /\ hist.fused' = {}
    <3>1. hist' = [hist EXCEPT !.aligned = @ \cup {m}]
      BY <1>4 DEF Collect
    <3>2. QED
      BY <1>2, <3>1 DEF Shape, TypeOK
  <2>2. count'.used = count.used + 1 /\ count'.factors = count.factors
    BY <1>4, UseCounters DEF Collect, Shape, TypeOK
  <2>3. m \notin hist.aligned
    BY <1>3, StampTypes
  <2>4. HistoryCounted'
    <3>1. /\ IsFiniteSet(hist.aligned) /\ count.used = Cardinality(hist.aligned)
          /\ count.factors = Cardinality({}) /\ IsFiniteSet({})
      BY <1>2 DEF UsedOnce, HistoryCounted
    <3>2. /\ IsFiniteSet(hist.aligned \cup {m})
          /\ Cardinality(hist.aligned \cup {m}) = Cardinality(hist.aligned) + 1
      BY <2>3, <3>1, AddRemove
    <3>3. QED
      BY <2>1, <2>2, <3>1, <3>2 DEF HistoryCounted
  <2>5. DOMAIN pend_factor' = {}
    BY <1>1, <1>2
  <2>6. ASSUME NEW a \in hist.aligned'
        PROVE  a <= last_enq' /\ \A i \in DOMAIN pend_align' : a < pend_align'[i]
    BY <1>1, <1>3, <2>1, <2>6 DEF UsedOnce, StampsOrdered
  <2>7. StampsOrdered'
    BY <1>1, <1>2, <1>3, <2>1, <2>5, <2>6 DEF StampsOrdered
  <2>8. QED
    BY <2>4, <2>7 DEF UsedOnce
<1>5. CASE ~Pairable(m)
  <2>1. UNCHANGED hist /\ count' = Reject(1)
    BY <1>5 DEF Collect
  <2>2. StampsOrdered'
    BY <1>1, <1>2, <1>3, <2>1 DEF UsedOnce, StampsOrdered
  <2>3. QED
    BY <2>1, <2>2, RejectUses, HistoryKept DEF UsedOnce
<1>6. QED
  BY <1>4, <1>5

LEMMA TransitionUses == Shape /\ UsedOnce /\ Transition => UsedOnce'
<1> SUFFICES ASSUME Shape, UsedOnce, Transition PROVE UsedOnce'
  OBVIOUS
<1>1. UNCHANGED <<hist, last_enq, last_added, aligned>> /\ aligned
  BY DEF Transition, pairVars, graphVars, Shape, Places
<1>2. count'.used = count.used /\ count'.factors = count.factors
  BY RejectUses DEF Transition
<1>3. CASE UNCHANGED <<pend_align, pend_factor>>
  BY <1>1, <1>2, <1>3, FrontRemoved, HistoryKept DEF UsedOnce
<1>4. CASE pend_align # <<>> /\ pend_align' = Tail(pend_align)
  <2>1. /\ Head(pend_align) \in GnssStamps /\ \A a \in hist.aligned : a < Head(pend_align)
        /\ \A i \in DOMAIN pend_align' :
             /\ pend_align'[i] <= last_enq
             /\ \A a \in hist.aligned : a < pend_align'[i]
             /\ \A j \in DOMAIN pend_align' : i < j => pend_align'[i] < pend_align'[j]
    BY <1>4, FrontAligned DEF UsedOnce
  <2>2. \A a \in hist.aligned : \A i \in DOMAIN pend_factor' : a < pend_factor'[i]
    <3>1. CASE UNCHANGED pend_factor
      BY <3>1 DEF UsedOnce, StampsOrdered
    <3>2. CASE pend_factor' = InsertSorted(pend_factor, Head(pend_align))
      BY <2>1, <3>2, InsertedAfter DEF UsedOnce
    <3>3. QED
      BY <1>4, <3>1, <3>2 DEF Transition
  <2>3. StampsOrdered'
    BY <1>1, <2>1, <2>2 DEF UsedOnce, StampsOrdered
  <2>4. QED
    BY <1>1, <1>2, <2>3, HistoryKept DEF UsedOnce
<1>5. QED
  BY <1>3, <1>4 DEF Transition

\* A factor: its sample is newer than those of the alignment and than the
\* factors before it.
LEMMA FactorUses ==
  ASSUME Shape, UsedOnce, NEW gate \in Gates, CountFactor(gate), pend_factor # <<>>,
         UNCHANGED <<last_enq, pend_align, aligned>>,
         pend_factor' \in {pend_factor, Tail(pend_factor)}
  PROVE  UsedOnce'
<1> DEFINE m == Head(pend_factor)
<1>1. CASE Accepted(gate)
  <2>1. /\ count' = [count EXCEPT !.factors = @ + 1] /\ last_added' = m
        /\ hist' = [hist EXCEPT !.fused = @ \cup {m}] /\ Later(m)
    BY <1>1 DEF CountFactor, Accepted
  <2>2. /\ hist'.aligned = hist.aligned /\ hist'.fused = hist.fused \cup {m}
    BY <2>1 DEF Shape, TypeOK
  <2>3. count'.used = count.used /\ count'.factors = count.factors + 1
    BY <2>1, UseCounters DEF Shape, TypeOK
  <2>4. m \in Nat /\ m > last_added /\ \A a \in hist.aligned : a < m
    <3>1. 1 \in DOMAIN pend_factor /\ m = pend_factor[1]
      BY StampTypes
    <3>2. QED
      BY <2>1, <3>1, StampTypes DEF Later, UsedOnce, StampsOrdered
  <2>5. m \notin hist.fused /\ \A f \in hist.fused \cup {m} : f <= m
    BY <2>4, StampTypes DEF UsedOnce, StampsOrdered
  <2>6. HistoryCounted'
    BY <2>2, <2>3, <2>5, AddRemove DEF UsedOnce, HistoryCounted
  <2>7. ~(~aligned)
    BY DEF UsedOnce, StampsOrdered
  <2>8. \A a \in hist.aligned : \A i \in DOMAIN pend_factor' : a < pend_factor'[i]
    <3>1. CASE UNCHANGED pend_factor
      BY <3>1 DEF UsedOnce, StampsOrdered
    <3>2. CASE pend_factor' = Tail(pend_factor)
      <4>1. /\ DOMAIN pend_factor = 1..Len(pend_factor) /\ Len(pend_factor) \in Nat \ {0}
            /\ DOMAIN pend_factor' = 1..(Len(pend_factor) - 1)
            /\ \A i \in 1..(Len(pend_factor) - 1) : pend_factor'[i] = pend_factor[i + 1]
        BY <3>2, StampTypes, TailProperties
      <4>2. ASSUME NEW i \in DOMAIN pend_factor'
            PROVE  i + 1 \in DOMAIN pend_factor /\ pend_factor'[i] = pend_factor[i + 1]
        BY <4>1
      <4>3. QED
        BY <4>2 DEF UsedOnce, StampsOrdered
    <3>3. QED
      BY <3>1, <3>2
  <2>9. StampsOrdered'
    BY <2>1, <2>2, <2>4, <2>5, <2>7, <2>8 DEF UsedOnce, StampsOrdered
  <2>10. QED
    BY <2>6, <2>9 DEF UsedOnce
<1>2. CASE ~Accepted(gate)
  <2>1. count' = Reject(1) /\ UNCHANGED <<last_added, hist>>
    BY <1>2 DEF CountFactor
  <2>2. QED
    BY <2>1, RejectUses, FrontRemoved, HistoryKept DEF UsedOnce
<1>3. QED
  BY <1>1, <1>2

LEMMA AddFactorUses ==
  ASSUME Shape, UsedOnce, NEW gate \in Gates, AddFactor(gate)
  PROVE  UsedOnce'
<1>1. /\ CountFactor(gate) /\ pend_factor # <<>> /\ pend_factor' = Tail(pend_factor)
      /\ UNCHANGED <<last_enq, pend_align, aligned>>
  BY DEF AddFactor, Shape, Places, pairVars, alignVars
<1>2. QED
  BY <1>1, FactorUses

LEMMA FactorThrowsUses ==
  ASSUME Shape, UsedOnce, NEW gate \in Gates, NEW early \in BOOLEAN, FactorThrows(gate, early)
  PROVE  UsedOnce'
<1>1. /\ pend_factor # <<>> /\ UNCHANGED <<last_enq, pend_align, aligned, pend_factor>>
      /\ CountFactor(gate) \/ UNCHANGED <<count, last_added, hist, halted>>
  BY DEF FactorThrows, Shape, Places, pairVars, alignVars
<1>2. CASE CountFactor(gate)
  BY <1>1, <1>2, FactorUses
<1>3. CASE UNCHANGED <<count, last_added, hist, halted>>
  BY <1>1, <1>3, FrontRemoved, HistoryKept DEF UsedOnce
<1>4. QED
  BY <1>1, <1>2, <1>3

LEMMA InitUses == Init => UsedOnce
<1> SUFFICES ASSUME Init PROVE UsedOnce
  OBVIOUS
<1>1. StampsOrdered
  BY DEF Init, StampsOrdered
<1>2. HistoryCounted
  BY FS_EmptySet DEF Init, HistoryCounted
<1>3. QED
  BY <1>1, <1>2 DEF UsedOnce

LEMMA UsedOnceHolds == Spec => []UsedOnce
<1>1. Shape /\ UsedOnce /\ [Next]_vars => UsedOnce'
  <2> SUFFICES ASSUME Shape, UsedOnce, [Next]_vars PROVE UsedOnce'
    OBVIOUS
  <2>1. CASE Receive
    BY <2>1, RawOdomUses, GnssStatusUses, GnssOdomUses DEF Receive
  <2>2. CASE Step
    BY <2>2, IdleUses, EnqueueUses, CollectUses, TransitionUses, AddFactorUses, FactorThrowsUses
       DEF Step
  <2>3. CASE UNCHANGED vars
    <3>1. UNCHANGED <<hist, last_enq, last_added, pend_align, aligned, pend_factor, count>>
      BY <2>3 DEF vars, pairVars, alignVars, graphVars
    <3>2. QED
      BY <3>1, FrontRemoved, HistoryKept DEF UsedOnce
  <2>4. QED
    BY <2>1, <2>2, <2>3 DEF Next
<1>2. QED
  BY <1>1, InitUses, ShapeHolds, PTL DEF Spec

\* A GNSS sample is used once, even when messages are sent again and when the
\* smoother throws: what aligned the frames is not fused again as a factor, no
\* sample is two pairs or two factors.
THEOREM SamplesUsedOnce == Spec => []SampleUsedOnce
<1>1. UsedOnce => SampleUsedOnce
  BY DEF UsedOnce, StampsOrdered, HistoryCounted, SampleUsedOnce
<1>2. QED
  BY <1>1, UsedOnceHolds, PTL

-----------------------------------------------------------------------------
(* Nothing is left waiting, when the smoother's estimate never throws.       *)

Ascending(s) == \A i, j \in DOMAIN s : i < j => s[i] <= s[j]
AllWaiting(s) == \A i \in DOMAIN s : Waiting(s[i])

\* A status and its odometry are together only while their callback runs.
PairsTaken == \A t \in status \cap OdomStamps : who = "gnss" /\ t = pairing

\* Outside its loop the queue of the alignment holds samples that wait for
\* odometry, and none once the frames are aligned.
AlignWaiting ==
  /\ aligned /\ pc # "transition" => pend_align = <<>>
  /\ pc \notin {"collect", "transition", "dead"} => AllWaiting(pend_align)

\* The same of the queue of the factors, which is kept sorted.
FactorWaiting ==
  /\ Ascending(pend_factor)
  /\ ~halted /\ pc \in {"idle", "enqueue", "unpair", "key", "prune"} => AllWaiting(pend_factor)

\* In a sorted queue the stamps up to t are a front part of it.
LEMMA FrontPart ==
  ASSUME NEW S \in SUBSET Nat, NEW s \in Seq(S), NEW t \in Nat, Ascending(s)
  PROVE  LET n == Cardinality({i \in DOMAIN s : s[i] <= t}) IN
         n \in 0..Len(s) /\ \A i \in DOMAIN s : s[i] <= t <=> i <= n
<1> DEFINE part == {i \in DOMAIN s : s[i] <= t}
           rest == {i \in 1..(Len(s) + 1) : i = Len(s) + 1 \/ t < s[i]}
<1>1. /\ Len(s) \in Nat /\ DOMAIN s = 1..Len(s)
      /\ \A i \in 1..Len(s) : s[i] \in Nat
  <2>1. Len(s) \in Nat /\ DOMAIN s = 1..Len(s) /\ \A i \in 1..Len(s) : s[i] \in S
    OBVIOUS
  <2>2. QED
    BY <2>1
<1>2. rest \in SUBSET Nat /\ Len(s) + 1 \in rest
  BY <1>1
<1>3. PICK k \in rest : \A i \in rest : k <= i
  BY <1>2, LeastElement
<1>4. k \in 1..(Len(s) + 1) /\ (k = Len(s) + 1 \/ t < s[k])
  BY <1>3
<1>5. ASSUME NEW i \in 1..Len(s)
      PROVE  s[i] <= t <=> i <= k - 1
  <2>1. CASE i < k
    <3>1. i \notin rest
      BY <1>1, <1>2, <1>3, <2>1
    <3>2. QED
      BY <1>1, <1>4, <2>1, <3>1
  <2>2. CASE i >= k
    <3>1. k \in DOMAIN s /\ t < s[k]
      BY <1>1, <1>4, <2>2
    <3>2. s[k] <= s[i]
      BY <1>1, <2>2, <3>1 DEF Ascending
    <3>3. QED
      BY <1>1, <1>4, <2>2, <3>1, <3>2
  <2>3. QED
    BY <1>1, <1>4, <2>1, <2>2
<1>6. part = 1..(k - 1)
  BY <1>1, <1>4, <1>5
<1>7. Cardinality(1..(k - 1)) = k - 1
  <2>1. 1 \in Int /\ k - 1 \in Int
    BY <1>1, <1>4
  <2>2. Cardinality(1..(k - 1)) = IF 1 > k - 1 THEN 0 ELSE k - 1 - 1 + 1
    BY <2>1, FS_Interval
  <2>3. QED
    BY <1>1, <1>4, <2>2
<1>8. Cardinality(part) = k - 1
  BY <1>6, <1>7
<1> HIDE DEF part, rest
<1>9. Cardinality(part) \in 0..Len(s) /\ \A i \in DOMAIN s : s[i] <= t <=> i <= Cardinality(part)
  BY <1>1, <1>4, <1>5, <1>8
<1>10. QED
  BY <1>9 DEF part

\* Insertion keeps a queue sorted.
LEMMA InsertSortedAscending ==
  ASSUME NEW S \in SUBSET Nat, NEW s \in Seq(S), NEW t \in S, Ascending(s)
  PROVE  Ascending(InsertSorted(s, t))
<1> DEFINE n == Cardinality({i \in DOMAIN s : s[i] <= t})
           r == InsertSorted(s, t)
<1>1. /\ n \in 0..Len(s) /\ r \in Seq(S) /\ Len(r) = Len(s) + 1
      /\ \A i \in 1..n : r[i] = s[i]
      /\ r[n + 1] = t
      /\ \A i \in (n + 2)..(Len(s) + 1) : r[i] = s[i - 1]
  BY InsertSortedAt
<1>2. t \in Nat /\ \A i \in DOMAIN s : s[i] <= t <=> i <= n
  BY FrontPart
<1>3. Len(s) \in Nat /\ DOMAIN s = 1..Len(s) /\ \A i \in 1..Len(s) : s[i] \in Nat
  <2>1. Len(s) \in Nat /\ DOMAIN s = 1..Len(s) /\ \A i \in 1..Len(s) : s[i] \in S
    OBVIOUS
  <2>2. QED
    BY <2>1
<1>4. DOMAIN r = 1..(Len(s) + 1)
  BY <1>1
<1> HIDE DEF n, r
<1>5. ASSUME NEW i \in 1..(Len(s) + 1), NEW j \in 1..(Len(s) + 1), i < j
      PROVE  r[i] <= r[j]
  <2>1. CASE j <= n
    <3>1. i \in DOMAIN s /\ j \in DOMAIN s /\ i \in 1..n /\ j \in 1..n
      BY <1>1, <1>3, <1>5, <2>1
    <3>2. s[i] <= s[j]
      BY <1>5, <3>1 DEF Ascending
    <3>3. r[i] = s[i] /\ r[j] = s[j]
      BY <1>1, <3>1
    <3>4. QED
      BY <3>2, <3>3
  <2>2. CASE i <= n /\ j = n + 1
    <3>1. i \in DOMAIN s /\ i \in 1..n
      BY <1>1, <1>3, <2>2
    <3>2. s[i] <= t
      BY <1>2, <2>2, <3>1
    <3>3. r[i] = s[i] /\ r[j] = t
      BY <1>1, <2>2, <3>1
    <3>4. QED
      BY <3>2, <3>3
  <2>3. CASE i <= n /\ j > n + 1
    <3>1. i \in DOMAIN s /\ j - 1 \in DOMAIN s /\ i < j - 1
      BY <1>1, <1>3, <2>3
    <3>2. s[i] <= s[j - 1]
      BY <3>1 DEF Ascending
    <3>3. r[i] = s[i] /\ r[j] = s[j - 1]
      BY <1>1, <2>3
    <3>4. QED
      BY <3>2, <3>3
  <2>4. CASE i = n + 1
    <3>1. j - 1 \in DOMAIN s /\ ~(j - 1 <= n) /\ r[j] = s[j - 1] /\ r[i] = t
      BY <1>1, <1>3, <1>5, <2>4
    <3>2. ~(s[j - 1] <= t) /\ s[j - 1] \in Nat
      BY <1>2, <1>3, <3>1
    <3>3. QED
      BY <1>2, <3>1, <3>2
  <2>5. CASE i > n + 1
    <3>1. i - 1 \in DOMAIN s /\ j - 1 \in DOMAIN s /\ i - 1 < j - 1
      BY <1>1, <1>3, <1>5, <2>5
    <3>2. s[i - 1] <= s[j - 1]
      BY <3>1 DEF Ascending
    <3>3. r[i] = s[i - 1] /\ r[j] = s[j - 1]
      BY <1>1, <1>5, <2>5
    <3>4. QED
      BY <3>2, <3>3
  <2>6. QED
    BY <1>1, <1>3, <1>5, <2>1, <2>2, <2>3, <2>4, <2>5
<1>6. QED
  BY <1>4, <1>5 DEF r, Ascending


\* The rest of a sorted queue is sorted, and its front is the oldest.
LEMMA TailAscending ==
  ASSUME NEW S, NEW s \in Seq(S), s # <<>>, Ascending(s)
  PROVE  Ascending(Tail(s)) /\ \A i \in DOMAIN s : Head(s) <= s[i] \/ i = 1
<1>1. /\ Len(s) \in Nat \ {0} /\ Head(s) = s[1] /\ DOMAIN s = 1..Len(s)
      /\ DOMAIN Tail(s) = 1..(Len(s) - 1)
      /\ \A i \in 1..(Len(s) - 1) : Tail(s)[i] = s[i + 1]
  BY TailProperties
<1>2. ASSUME NEW i \in DOMAIN Tail(s), NEW j \in DOMAIN Tail(s), i < j
      PROVE  Tail(s)[i] <= Tail(s)[j]
  <2>1. i + 1 \in DOMAIN s /\ j + 1 \in DOMAIN s /\ i + 1 < j + 1
    BY <1>1, <1>2
  <2>2. s[i + 1] <= s[j + 1]
    BY <2>1 DEF Ascending
  <2>3. QED
    BY <1>1, <2>2
<1>3. \A i \in DOMAIN s : Head(s) <= s[i] \/ i = 1
  BY <1>1 DEF Ascending
<1>4. QED
  BY <1>2, <1>3 DEF Ascending

\* Where the front of a sorted queue waits, all of it waits.
LEMMA FrontWaiting ==
  ASSUME Shape, NEW s \in Seq(GnssStamps), Ascending(s), s # <<>> => Waiting(Head(s))
  PROVE  AllWaiting(s)
<1> SUFFICES ASSUME NEW i \in DOMAIN s PROVE Waiting(s[i])
  BY DEF AllWaiting
<1>1. /\ Len(s) \in Nat /\ DOMAIN s = 1..Len(s) /\ s # <<>> /\ Head(s) = s[1]
      /\ s[i] \in GnssStamps /\ Head(s) \in GnssStamps
  <2>1. s # <<>>
    OBVIOUS
  <2>2. s[i] \in GnssStamps /\ DOMAIN s = 1..Len(s)
    OBVIOUS
  <2>3. QED
    BY <2>1, <2>2, TailProperties
<1>2. s[i] \in Nat /\ Head(s) \in Nat
  BY <1>1, ParameterTypes
<1>3. CASE raw = <<>>
  BY <1>3 DEF Waiting
<1>4. CASE raw # <<>>
  <2>1. Head(s) > Last(raw) /\ Last(raw) \in Nat
    BY <1>1, <1>4, LastRaw DEF Waiting
  <2>2. Head(s) <= s[i]
    BY <1>1, <1>2, TailAscending
  <2>3. QED
    BY <1>2, <1>4, <2>1, <2>2 DEF Waiting
<1>5. QED
  BY <1>3, <1>4

\* What waits goes on waiting while the raw odometry ends where it did.
RawEndKept == UNCHANGED raw \/ (raw # <<>> /\ raw' # <<>> /\ Last(raw') = Last(raw))

LEMMA WaitingKept ==
  ASSUME RawEndKept
  PROVE  /\ AllWaiting(pend_align) /\ UNCHANGED pend_align => AllWaiting(pend_align)'
         /\ AllWaiting(pend_factor) /\ UNCHANGED pend_factor => AllWaiting(pend_factor)'
<1>1. ASSUME NEW m
      PROVE  Waiting(m) => IF raw' = <<>> THEN TRUE ELSE m > Last(raw')
  BY DEF Waiting, RawEndKept
<1>2. QED
  BY <1>1 DEF AllWaiting, Waiting, Last

LEMMA PruneKeepsEnd == Shape /\ Prune => RawEndKept
<1> SUFFICES ASSUME Shape, Prune PROVE RawEndKept
  OBVIOUS
<1>1. raw \in Seq(RawStamps) /\ raw # <<>>
  BY DEF Prune, Shape, TypeOK, Places, RawKept
<1>2. CASE Len(raw) > 2 /\ raw' = Tail(raw)
  <2>1. /\ Len(raw) \in Nat /\ Len(raw') = Len(raw) - 1
        /\ \A i \in 1..(Len(raw) - 1) : raw'[i] = raw[i + 1]
    BY <1>1, <1>2, TailProperties
  <2>2. Len(raw) - 1 \in 1..(Len(raw) - 1) /\ Len(raw) - 1 + 1 = Len(raw)
    BY <1>2, <2>1
  <2>3. Last(raw') = Last(raw)
    BY <2>1, <2>2 DEF Last
  <2>4. raw' # <<>>
    BY <1>2, <2>1
  <2>5. QED
    BY <1>1, <2>3, <2>4 DEF RawEndKept
<1>3. QED
  BY <1>2 DEF Prune, RawEndKept

LEMMA PairsTakenStep == Shape /\ PairsTaken /\ [Next]_vars => PairsTaken'
<1> SUFFICES ASSUME Shape, PairsTaken, [Next]_vars PROVE PairsTaken'
  OBVIOUS
<1>0. who # "gnss" => status \cap OdomStamps = {}
  BY DEF PairsTaken
<1>1. CASE UNCHANGED <<status, odom>> /\ (UNCHANGED <<who, pairing>> \/ who # "gnss")
  <2>1. (status \cap OdomStamps)' = status \cap OdomStamps
    BY <1>1 DEF OdomStamps
  <2>2. QED
    BY <1>0, <1>1, <2>1 DEF PairsTaken
<1>2. ASSUME NEW t \in GnssStamps, NEW q \in Qualities, GnssStatus(t, q)
      PROVE  PairsTaken'
  <2>1. who # "gnss" /\ UNCHANGED odom
    BY <1>2 DEF GnssStatus, Shape, Places
  <2>2. OdomStamps' = OdomStamps
    BY <2>1 DEF OdomStamps
  <2>3. CASE StatusUnusable(q) \/ StatusDuplicate(t, q)
    BY <1>1, <2>1, <2>3 DEF StatusUnusable, StatusDuplicate
  <2>4. CASE StatusStored(t, q)
    <3>1. \/ status' = status \cup {t} /\ who' = "gnss" /\ pairing' = t
          \/ status' \subseteq status \cup {t} /\ t \notin OdomStamps
      BY <2>4 DEF StatusStored, Kept
    <3>2. QED
      BY <1>0, <2>1, <2>2, <3>1 DEF PairsTaken
  <2>5. QED
    BY <1>2, <2>3, <2>4 DEF GnssStatus
<1>3. ASSUME NEW t \in GnssStamps, NEW good \in BOOLEAN, GnssOdom(t, good)
      PROVE  PairsTaken'
  <2>1. who # "gnss" /\ UNCHANGED status
    BY <1>3 DEF GnssOdom, Shape, Places
  <2>2. CASE UNCHANGED odom
    BY <1>1, <2>1, <2>2
  <2>3. CASE odom' \subseteq odom \cup {[t |-> t, good |-> good]}
             /\ (t \notin status \/ (who' = "gnss" /\ pairing' = t))
    <3>1. OdomStamps' \subseteq OdomStamps \cup {t}
      BY <2>3 DEF OdomStamps
    <3>2. QED
      BY <1>0, <2>1, <2>3, <3>1 DEF PairsTaken
  <2>4. QED
    BY <1>3, <2>2, <2>3 DEF GnssOdom, Kept, OldestOdom
<1>4. CASE Unpair
  <2>1. status' = status \ {pairing} /\ OdomStamps' \subseteq OdomStamps
    BY <1>4 DEF Unpair, OdomStamps
  <2>2. QED
    BY <2>1 DEF PairsTaken
<1>5. CASE \E t \in RawStamps : RawOdom(t)
  BY <1>1, <1>5 DEF RawOdom, pairVars, Shape, Places
<1>6. CASE Prune
  BY <1>1, <1>6 DEF Prune, pairVars, Shape, Places
<1>7. CASE \/ Enqueue \/ Collect \/ Transition \/ ReuseNode \/ Trim
           \/ \E solved \in BOOLEAN : Align(solved)
           \/ \E limited \in BOOLEAN : RejectPending(limited)
           \/ \E gate \in Gates : AddFactor(gate)
  <2>1. UNCHANGED <<status, odom, who, pairing>>
    BY <1>7 DEF Enqueue, Collect, Transition, ReuseNode, Trim, Align, RejectPending, AddFactor,
       pairVars
  <2>2. QED
    BY <1>1, <2>1
<1>8. CASE \/ \E solved, throws \in BOOLEAN : InitializeGraph(solved, throws)
           \/ \E solved, throws \in BOOLEAN : CreateNode(solved, throws)
           \/ \E gate \in Gates, early \in BOOLEAN : FactorThrows(gate, early)
           \/ \E moved, solved, throws \in BOOLEAN : MaybeAddKeyframe(moved, solved, throws)
  <2>1. UNCHANGED <<status, odom, pairing>> /\ (UNCHANGED who \/ Throw)
    BY <1>8 DEF InitializeGraph, CreateNode, FactorThrows, MaybeAddKeyframe, pairVars
  <2>2. UNCHANGED who \/ who # "gnss"
    BY <2>1 DEF Throw
  <2>3. QED
    BY <1>1, <2>1, <2>2
<1>9. CASE UNCHANGED vars
  BY <1>1, <1>9 DEF vars, pairVars
<1>10. QED
  BY <1>2, <1>3, <1>4, <1>5, <1>6, <1>7, <1>8, <1>9 DEF Next, Receive, Step

LEMMA AlignWaitingStep ==
  ASSUME Shape, StampsOrdered, AlignWaiting, [Next]_vars
  PROVE  AlignWaiting'
<1>0. AllWaiting(<<>>) /\ AllWaiting(<<>>)'
  BY DEF AllWaiting
<1>1. CASE /\ UNCHANGED <<aligned, pend_align>> /\ RawEndKept
           /\ pc \notin {"collect", "transition"}
           /\ pc' \notin {"collect", "transition"} /\ (pc = "dead" => pc' = "dead")
  BY <1>1, WaitingKept DEF AlignWaiting
<1>2. ASSUME NEW t \in RawStamps, RawOdom(t)
      PROVE  AlignWaiting'
  <2>1. UNCHANGED <<aligned, pend_align>> /\ pc = "idle" /\ pc' = IF aligned THEN "init" ELSE "collect"
    BY <1>2 DEF RawOdom, alignVars
  <2>2. aligned => pend_align = <<>>
    BY <2>1 DEF AlignWaiting
  <2>3. QED
    BY <1>0, <2>1, <2>2 DEF AlignWaiting
<1>3. CASE Prune
  BY <1>1, <1>3, PruneKeepsEnd DEF Prune, alignVars
<1>4. ASSUME NEW t \in GnssStamps, NEW q \in Qualities, GnssStatus(t, q)
      PROVE  AlignWaiting'
  <2>1. UNCHANGED <<raw, aligned>> /\ pc = "idle" /\ pc' \in {"idle", "enqueue"}
        /\ (UNCHANGED pend_align \/ pend_align' = <<>>)
    BY <1>4 DEF GnssStatus, StatusUnusable, StatusDuplicate, StatusStored, alignVars
  <2>2. CASE UNCHANGED pend_align
    BY <1>1, <2>1, <2>2 DEF RawEndKept
  <2>3. CASE pend_align' = <<>>
    BY <1>0, <2>3 DEF AlignWaiting
  <2>4. QED
    BY <2>1, <2>2, <2>3
<1>5. ASSUME NEW t \in GnssStamps, NEW good \in BOOLEAN, GnssOdom(t, good)
      PROVE  AlignWaiting'
  BY <1>1, <1>5 DEF GnssOdom, RawEndKept, alignVars
<1>6. CASE Enqueue
  <2>1. CASE UNCHANGED pend_align
    BY <1>1, <1>6, <2>1 DEF Enqueue, RawEndKept, inputVars, ProcessNow, AlignWaiting
  <2>2. CASE ~aligned /\ pc' = "collect"
    BY <1>6, <2>2 DEF Enqueue, AlignWaiting
  <2>3. QED
    BY <1>6, <2>1, <2>2 DEF Enqueue
<1>7. CASE Unpair \/ ReuseNode \/ Trim
           \/ \E limited \in BOOLEAN : RejectPending(limited)
           \/ \E gate \in Gates : AddFactor(gate)
  <2>1. /\ UNCHANGED <<aligned, pend_align, raw>>
        /\ pc \notin {"collect", "transition", "dead"}
        /\ pc' \notin {"collect", "transition", "dead"}
    BY <1>7 DEF Unpair, ReuseNode, Trim, RejectPending, AddFactor, InProcess, Return, inputVars,
       alignVars
  <2>2. QED
    BY <1>1, <2>1 DEF RawEndKept
<1>8. CASE \/ \E solved, throws \in BOOLEAN : InitializeGraph(solved, throws)
           \/ \E solved, throws \in BOOLEAN : CreateNode(solved, throws)
           \/ \E gate \in Gates, early \in BOOLEAN : FactorThrows(gate, early)
           \/ \E moved, solved, throws \in BOOLEAN : MaybeAddKeyframe(moved, solved, throws)
  <2>1. UNCHANGED <<aligned, pend_align, raw>> /\ pc \notin {"collect", "transition", "dead"}
    BY <1>8 DEF InitializeGraph, CreateNode, FactorThrows, MaybeAddKeyframe, InProcess,
       inputVars, alignVars
  <2>2. pc' \notin {"collect", "transition"}
    BY <1>8 DEF InitializeGraph, CreateNode, FactorThrows, MaybeAddKeyframe, InProcess, Throw,
       Return
  <2>3. QED
    BY <1>1, <2>1, <2>2 DEF RawEndKept
<1>9. CASE Collect
  BY <1>9 DEF Collect, Shape, Places, AlignWaiting
<1>10. ASSUME NEW solved \in BOOLEAN, Align(solved)
       PROVE  AlignWaiting'
  <2>1. /\ UNCHANGED <<raw, pend_align>> /\ aligned' = solved
        /\ pc' = IF solved THEN "transition" ELSE Return
        /\ pend_align # <<>> => Waiting(Head(pend_align))
    BY <1>10 DEF Align, inputVars
  <2>2. Ascending(pend_align) /\ pend_align \in Seq(GnssStamps)
    BY StampTypes DEF StampsOrdered, Ascending
  <2>3. AllWaiting(pend_align)
    BY <2>1, <2>2, FrontWaiting
  <2>4. AllWaiting(pend_align)'
    BY <2>1, <2>3, WaitingKept DEF RawEndKept
  <2>5. QED
    BY <2>1, <2>4 DEF AlignWaiting
<1>11. CASE Transition
  <2>1. \/ pend_align = <<>> /\ pend_align' = <<>>
        \/ pc' = "transition"
    BY <1>11 DEF Transition
  <2>2. QED
    BY <1>0, <2>1 DEF AlignWaiting
<1>12. CASE UNCHANGED vars
  <2>1. UNCHANGED <<aligned, pend_align, raw, pc>>
    BY <1>12 DEF vars, alignVars, inputVars
  <2>2. QED
    BY <2>1, WaitingKept DEF AlignWaiting, RawEndKept
<1>13. QED
  BY <1>2, <1>3, <1>4, <1>5, <1>6, <1>7, <1>8, <1>9, <1>10, <1>11, <1>12
     DEF Next, Receive, Step

LEMMA FactorWaitingStep ==
  ASSUME ~MayThrow, Shape, StampsOrdered, FactorWaiting, [Next]_vars
  PROVE  FactorWaiting'
<1> DEFINE Settled == {"idle", "enqueue", "unpair", "key", "prune"}
<1>0. /\ pend_factor \in Seq(GnssStamps) /\ GnssStamps \in SUBSET Nat
      /\ Ascending(pend_factor)
  BY StampTypes, ParameterTypes DEF FactorWaiting
<1>1. CASE /\ UNCHANGED pend_factor
           /\ \/ pc' \notin Settled \/ halted'
              \/ ~halted /\ pc \in Settled /\ RawEndKept
  BY <1>1, WaitingKept DEF FactorWaiting, Ascending
<1>2. CASE pc' = "process" /\ pend_factor # <<>> /\ pend_factor' = Tail(pend_factor)
  BY <1>0, <1>2, TailAscending DEF FactorWaiting
<1>3. ASSUME NEW t \in RawStamps, RawOdom(t)
      PROVE  FactorWaiting'
  BY <1>1, <1>3 DEF RawOdom
<1>4. CASE Prune
  BY <1>1, <1>4, PruneKeepsEnd DEF Prune, graphVars
<1>5. ASSUME NEW t \in GnssStamps, NEW q \in Qualities, GnssStatus(t, q)
      PROVE  FactorWaiting'
  BY <1>1, <1>5 DEF GnssStatus, RawEndKept, graphVars
<1>6. ASSUME NEW t \in GnssStamps, NEW good \in BOOLEAN, GnssOdom(t, good)
      PROVE  FactorWaiting'
  BY <1>1, <1>6 DEF GnssOdom, RawEndKept, graphVars
<1>7. CASE Enqueue
  <2>1. UNCHANGED <<halted, raw>> /\ pc = "enqueue" /\ pairing \in GnssStamps
    BY <1>7, ParameterTypes DEF Enqueue, graphVars, inputVars, Shape, TypeOK, Places
  <2>2. CASE UNCHANGED pend_factor
    BY <1>1, <2>1, <2>2 DEF RawEndKept
  <2>3. CASE pend_factor' = InsertSorted(pend_factor, pairing) /\ pc' = ProcessNow
    <3>1. Ascending(InsertSorted(pend_factor, pairing))
      BY <1>0, <2>1, InsertSortedAscending
    <3>2. Ascending(pend_factor')
      BY <2>3, <3>1
    <3>3. halted' \/ pc' \notin Settled
      BY <2>1, <2>3 DEF ProcessNow
    <3>4. QED
      BY <3>2, <3>3 DEF FactorWaiting, Ascending
  <2>4. QED
    BY <1>7, <2>2, <2>3 DEF Enqueue
<1>8. CASE Unpair
  BY <1>1, <1>8 DEF Unpair, RawEndKept, inputVars, graphVars
<1>9. CASE Collect
  BY <1>1, <1>9 DEF Collect
<1>10. ASSUME NEW solved \in BOOLEAN, Align(solved)
       PROVE  FactorWaiting'
  <2>1. pend_factor = <<>> /\ UNCHANGED pend_factor
    BY <1>10 DEF Align, Shape, Places, StampsOrdered
  <2>2. QED
    BY <2>1 DEF FactorWaiting, Ascending, AllWaiting
<1>11. CASE Transition
  <2>1. pc' \in {"transition", "init"}
    BY <1>11 DEF Transition
  <2>2. CASE UNCHANGED pend_factor
    BY <1>1, <2>1, <2>2
  <2>3. CASE pend_align # <<>> /\ pend_factor' = InsertSorted(pend_factor, Head(pend_align))
    <3>1. Head(pend_align) \in GnssStamps
      BY <2>3, StampTypes, TailProperties
    <3>2. Ascending(InsertSorted(pend_factor, Head(pend_align)))
      BY <1>0, <3>1, InsertSortedAscending
    <3>3. Ascending(pend_factor')
      BY <2>3, <3>2
    <3>4. QED
      BY <2>1, <3>3 DEF FactorWaiting, Ascending
  <2>4. QED
    BY <1>11, <2>2, <2>3 DEF Transition
<1>12. ASSUME NEW solved \in BOOLEAN, NEW throws \in BOOLEAN, InitializeGraph(solved, throws)
       PROVE  FactorWaiting'
  <2>1. UNCHANGED pend_factor /\ (pc' = "process" \/ halted')
    BY <1>12 DEF InitializeGraph
  <2>2. QED
    BY <1>1, <2>1
<1>13. ASSUME NEW limited \in BOOLEAN, RejectPending(limited)
       PROVE  FactorWaiting'
  BY <1>2, <1>13 DEF RejectPending, InProcess
<1>14. ASSUME NEW solved \in BOOLEAN, NEW throws \in BOOLEAN, CreateNode(solved, throws)
       PROVE  FactorWaiting'
  <2>1. CASE solved
    BY <1>1, <1>14, <2>1 DEF CreateNode
  <2>2. CASE ~solved
    BY <1>2, <1>14, <2>2 DEF CreateNode, InProcess
  <2>3. QED
    BY <2>1, <2>2
<1>15. CASE ReuseNode
  BY <1>1, <1>15 DEF ReuseNode
<1>16. ASSUME NEW gate \in Gates, AddFactor(gate)
       PROVE  FactorWaiting'
  BY <1>2, <1>16 DEF AddFactor, Shape, Places
<1>17. CASE Trim
  <2>1. CASE Len(pend_factor) > MaxPending
    <3>1. pend_factor # <<>>
      <4>1. MaxPending \in Nat
        BY BoundsAssumption
      <4>2. QED
        BY <2>1, <4>1
    <3>2. QED
      BY <1>2, <1>17, <2>1, <3>1 DEF Trim
  <2>2. CASE ~(Len(pend_factor) > MaxPending)
    <3>1. UNCHANGED <<pend_factor, raw>> /\ (pend_factor # <<>> => Waiting(Head(pend_factor)))
      BY <1>17, <2>2 DEF Trim, inputVars
    <3>2. AllWaiting(pend_factor)
      BY <1>0, <3>1, FrontWaiting
    <3>3. QED
      BY <3>1, <3>2, WaitingKept DEF FactorWaiting, RawEndKept, Ascending
  <2>3. QED
    BY <2>1, <2>2
<1>18. ASSUME NEW moved \in BOOLEAN, NEW solved \in BOOLEAN, NEW throws \in BOOLEAN,
              MaybeAddKeyframe(moved, solved, throws)
       PROVE  FactorWaiting'
  <2>1. /\ UNCHANGED <<pend_factor, raw>> /\ pc = "key" /\ pc' = "prune" /\ (halted => halted')
    BY <1>18 DEF MaybeAddKeyframe, AddNode, inputVars
  <2>2. QED
    BY <1>1, <2>1 DEF RawEndKept
<1>19. CASE UNCHANGED vars
  <2>1. UNCHANGED <<pend_factor, raw, pc, halted>>
    BY <1>19 DEF vars, inputVars, graphVars
  <2>2. QED
    BY <2>1, WaitingKept DEF FactorWaiting, RawEndKept, Ascending
<1>20. QED
  BY <1>3, <1>4, <1>5, <1>6, <1>7, <1>8, <1>9, <1>10, <1>11, <1>12, <1>13, <1>14, <1>15,
     <1>16, <1>17, <1>18, <1>19 DEF Next, Receive, Step, FactorThrows

\* When the smoother's estimate never throws, nothing waits for what is already
\* there: between callbacks no pair is left unprocessed, and every waiting
\* sample is newer than the raw odometry (tryPairGnssMessages,
\* tryCollectAlignmentPairs, processPendingGnss).
THEOREM NothingStaysOverdue ==
  ASSUME ~MayThrow
  PROVE  Spec => []NothingOverdue
<1>1. Init => PairsTaken /\ AlignWaiting /\ FactorWaiting
  BY DEF Init, PairsTaken, AlignWaiting, FactorWaiting, AllWaiting, Ascending
<1>2. /\ Shape /\ UsedOnce /\ PairsTaken /\ AlignWaiting /\ FactorWaiting /\ [Next]_vars
      => PairsTaken' /\ AlignWaiting' /\ FactorWaiting'
  BY PairsTakenStep, AlignWaitingStep, FactorWaitingStep DEF UsedOnce
<1>3. Shape /\ PairsTaken /\ AlignWaiting /\ FactorWaiting => NothingOverdue
  BY DEF Shape, Places, PairsTaken, AlignWaiting, FactorWaiting, AllWaiting, NothingOverdue
<1>4. QED
  BY <1>1, <1>2, <1>3, UsedOnceHolds, ShapeHolds, PTL DEF Spec

-----------------------------------------------------------------------------
(* The export: what was pruned would not have changed a row.                *)

LEMMA LatestOf ==
  ASSUME NEW S \in SUBSET Nat, S # {}, NEW b \in Nat, \A x \in S : x <= b
  PROVE  Max(S) \in S /\ Max(S) <= b /\ \A x \in S : x <= Max(S)
<1> DEFINE bounds == {c \in Nat : \A x \in S : x <= c}
<1>1. PICK c \in bounds : \A d \in bounds : c <= d
  BY LeastElement
<1>2. c \in Nat /\ \A x \in S : x <= c
  BY <1>1
<1>3. c \in S
  <2> SUFFICES ASSUME c \notin S PROVE FALSE
    OBVIOUS
  <2>1. \A x \in S : x <= c - 1 /\ c - 1 \in Nat
    BY <1>2
  <2>2. c - 1 \in bounds
    BY <2>1
  <2>3. QED
    BY <1>1, <1>2, <2>2
<1>4. \E x \in S : \A y \in S : x >= y
  BY <1>2, <1>3
<1>5. Max(S) \in S /\ \A y \in S : Max(S) >= y
  BY Zenon, <1>4 DEF Max
<1>6. \A x \in S : x \in Nat
  OBVIOUS
<1>7. QED
  BY <1>5, <1>6

LEMMA EarliestOf ==
  ASSUME NEW S \in SUBSET Nat, S # {}
  PROVE  Min(S) \in S /\ \A x \in S : Min(S) <= x
<1>1. \E x \in S : \A y \in S : x <= y
  BY LeastElement
<1>2. QED
  BY Zenon, <1>1 DEF Min

\* What is kept of the poses received: the newer ones, and always one before
\* the window.
Remembers(got, poses) ==
  /\ got \in SUBSET Nat /\ poses \subseteq got
  /\ got # {} => poses # {}
  /\ \A p \in got \ poses :
       /\ \A q \in poses : p < q
       /\ \E q, m \in poses : q < m - BufferSpan

LEMMA StillRemembers ==
  ASSUME NEW got, NEW poses, Remembers(got, poses), NEW t \in Nat, \A p \in got : p < t
  PROVE  Remembers(got \union {t}, Pruned(poses \union {t}))
<1> DEFINE S == poses \union {t}
           kept == Pruned(S)
           old == {q \in S : q < t - BufferSpan}
<1> USE ExportAssumption
<1>1. /\ got \in SUBSET Nat /\ poses \in SUBSET got /\ S \in SUBSET Nat /\ t \in S
      /\ \A x \in S : x <= t
  BY DEF Remembers
<1>2. Max(S) = t
  <2>1. Max(S) \in S /\ Max(S) <= t /\ t <= Max(S)
    BY <1>1, LatestOf
  <2>2. PICK m : m = Max(S)
    OBVIOUS
  <2>3. m \in Nat /\ m <= t /\ t <= m
    BY Zenon, <1>1, <2>1, <2>2
  <2>4. m = t
    BY <2>3
  <2>5. QED
    BY Zenon, <2>2, <2>4
<1>3. kept = {p \in S : ~\E q \in S : p < q /\ q < t - BufferSpan}
  BY <1>2 DEF Pruned
<1> HIDE DEF kept, S
<1>4. t \in kept
  BY <1>1, <1>3
<1>5. ASSUME NEW q0 \in S, q0 < t - BufferSpan
      PROVE  \E q \in kept : q < t - BufferSpan
  <2>1. old \in SUBSET Nat /\ old # {} /\ \A x \in old : x <= t
    BY <1>1, <1>5
  <2>2. Max(old) \in old /\ \A x \in old : x <= Max(old)
    BY <1>1, <2>1, LatestOf
  <2>3. PICK q : q = Max(old)
    OBVIOUS
  <2>4. q \in S /\ q < t - BufferSpan /\ \A x \in S : x < t - BufferSpan => x <= q
    BY <2>2, <2>3
  <2>5. q \in kept
    BY <1>1, <1>3, <2>4
  <2>6. QED
    BY <2>4, <2>5
<1>6. ASSUME NEW p \in (got \union {t}) \ kept
      PROVE  (\A q \in kept : p < q) /\ \E q, m \in kept : q < m - BufferSpan
  <2>1. p \in got /\ p < t
    BY <1>4, <1>6
  <2>2. CASE p \in S
    <3>1. PICK q0 \in S : p < q0 /\ q0 < t - BufferSpan
      BY <1>3, <1>6, <2>2
    <3>2. \A k \in kept : p < k
      <4> TAKE k \in kept
      <4>1. k \in S /\ ~(k < q0 /\ q0 < t - BufferSpan)
        BY <1>3, <3>1
      <4>2. k \in Nat /\ q0 \in Nat /\ p \in Nat
        BY <1>1, <2>2, <3>1, <4>1
      <4>3. QED
        BY <3>1, <4>1, <4>2
    <3>3. QED
      BY <1>4, <1>5, <3>1, <3>2
  <2>3. CASE p \notin S
    <3>1. p \in got \ poses
      BY <2>1, <2>3 DEF S
    <3>2. (\A q \in poses : p < q) /\ \E q, m \in poses : q < m - BufferSpan
      BY <3>1 DEF Remembers
    <3>3. \A k \in kept : p < k
      BY <1>3, <2>1, <3>2 DEF S
    <3>4. PICK q, m \in poses : q < m - BufferSpan
      BY <3>2
    <3>5. q \in S /\ q < t - BufferSpan
      <4>1. q \in Nat /\ m \in Nat /\ m < t
        BY <1>1, <3>4
      <4>2. QED
        BY <3>4, <4>1 DEF S
    <3>6. QED
      BY <1>4, <1>5, <3>3, <3>5
  <2>4. QED
    BY <2>2, <2>3
<1>7. kept \subseteq got \union {t}
  BY <1>1, <1>3 DEF S
<1>8. Remembers(got \union {t}, kept)
  BY <1>1, <1>4, <1>6, <1>7 DEF Remembers
<1>9. QED
  BY <1>8 DEF kept, S

\* The latest pose up to a stamp is the latest of all that were received, if
\* one is kept at all.
LEMMA LatestKept ==
  ASSUME NEW got, NEW poses, Remembers(got, poses), NEW s \in Nat, UpTo(poses, s) # {}
  PROVE  LET q == Max(UpTo(poses, s))
         IN  q \in poses /\ q <= s /\ \A p \in got : p <= s => p <= q
<1> DEFINE q == Max(UpTo(poses, s))
<1>1. /\ got \in SUBSET Nat /\ poses \in SUBSET Nat
      /\ \A p \in got \ poses : \A k \in poses : p < k
  BY DEF Remembers
<1>2. UpTo(poses, s) \in SUBSET Nat /\ \A p \in UpTo(poses, s) : p <= s
  BY <1>1 DEF UpTo
<1>3. q \in UpTo(poses, s) /\ \A p \in UpTo(poses, s) : p <= q
  BY <1>2, LatestOf
<1> HIDE DEF q
<1>4. q \in poses /\ q <= s /\ \A p \in poses : p <= s => p <= q
  BY <1>3 DEF UpTo
<1>5. ASSUME NEW p \in got, p <= s PROVE p <= q
  <2>1. CASE p \in poses
    BY <1>4, <1>5, <2>1
  <2>2. CASE p \notin poses
    <3>1. p < q /\ p \in Nat /\ q \in Nat
      BY <1>1, <1>4, <2>2
    <3>2. QED
      BY <3>1
  <2>3. QED
    BY <2>1, <2>2
<1>6. QED
  BY <1>4, <1>5 DEF q

\* So is the earliest from a stamp on, if one is kept before it.
LEMMA EarliestKept ==
  ASSUME NEW got, NEW poses, Remembers(got, poses), NEW s \in Nat,
         UpTo(poses, s) # {}, NotBefore(poses, s) # {}
  PROVE  LET q == Min(NotBefore(poses, s))
         IN  q \in poses /\ q >= s /\ \A p \in got : p >= s => p >= q
<1> DEFINE q == Min(NotBefore(poses, s))
<1>1. /\ got \in SUBSET Nat /\ poses \in SUBSET Nat
      /\ \A p \in got \ poses : \A k \in poses : p < k
  BY DEF Remembers
<1>2. NotBefore(poses, s) \in SUBSET Nat
  BY <1>1 DEF NotBefore
<1>3. q \in NotBefore(poses, s) /\ \A p \in NotBefore(poses, s) : q <= p
  BY <1>2, EarliestOf
<1> HIDE DEF q
<1>4. q \in poses /\ q >= s /\ \A p \in poses : p >= s => q <= p
  BY <1>3 DEF NotBefore
<1>5. PICK b \in poses : b <= s
  BY DEF UpTo
<1>6. ASSUME NEW p \in got, p >= s PROVE p >= q
  <2>1. CASE p \in poses
    <3>1. q <= p /\ q \in Nat /\ p \in Nat
      BY <1>1, <1>4, <1>6, <2>1
    <3>2. QED
      BY <3>1
  <2>2. CASE p \notin poses
    <3>1. p < b /\ p \in Nat /\ b \in Nat
      BY <1>1, <2>2
    <3>2. QED
      BY <1>5, <1>6, <3>1
  <2>3. QED
    BY <2>1, <2>2
<1>7. QED
  BY <1>4, <1>6 DEF q

\* What the buffer does not reach back to came too late.
LEMMA ForgottenIsLate ==
  ASSUME NEW got, NEW poses, Remembers(got, poses), NEW s \in Nat,
         UpTo(poses, s) = {}, NEW p \in got, p <= s
  PROVE  \E m \in got : s < m - BufferSpan
<1> USE ExportAssumption
<1>1. got \in SUBSET Nat /\ poses \in SUBSET got
  BY DEF Remembers
<1>2. p \notin poses /\ \A q \in poses : ~(q <= s)
  BY DEF UpTo
<1>3. PICK q, m \in poses : q < m - BufferSpan
  BY <1>2 DEF Remembers
<1>4. q \in Nat /\ m \in Nat /\ m \in got /\ ~(q <= s)
  BY <1>1, <1>2, <1>3
<1>5. s < m - BufferSpan
  BY <1>3, <1>4
<1>6. QED
  BY <1>4, <1>5

RowSet ==
  [stamp : Nat, valid : {FALSE}] \union
  [stamp : Nat, valid : {TRUE}, before : Nat, after : Nat, corr : Nat]

LEMMA InvalidIsTrue ==
  ASSUME NEW got, NEW s \in Nat, Exportable(s, got) => Late(s, got)
  PROVE  InvalidRow(s) \in RowSet /\ RowTrue(InvalidRow(s), got)
<1> DEFINE r == [stamp |-> s, valid |-> FALSE]
<1>1. r \in RowSet /\ r.stamp = s /\ ~r.valid
  BY DEF RowSet
<1> HIDE DEF r
<1>2. RowTrue(r, got)
  BY Zenon, <1>1 DEF RowTrue
<1>3. QED
  BY Zenon, <1>1, <1>2 DEF InvalidRow, r

LEMMA RowIsTrue ==
  ASSUME NEW got, NEW poses, NEW fixes, Remembers(got.raw, poses), Remembers(got.corr, fixes),
         NEW s \in Nat
  PROVE  RowOf(s, poses, fixes) \in RowSet /\ RowTrue(RowOf(s, poses, fixes), got)
<1> DEFINE before == Max(UpTo(poses, s))
           after  == Min(NotBefore(poses, s))
           c      == Max(UpTo(fixes, s))
           r      == RowOf(s, poses, fixes)
<1> USE ExportAssumption
<1>1. /\ got.raw \in SUBSET Nat /\ poses \in SUBSET got.raw
      /\ got.corr \in SUBSET Nat /\ fixes \in SUBSET got.corr
  BY DEF Remembers
<1>2. CASE UpTo(fixes, s) = {}
  <2>1. r = InvalidRow(s)
    BY <1>2 DEF RowOf
  <2>2. ASSUME Exportable(s, got) PROVE Late(s, got)
    <3>1. PICK p \in got.corr : p <= s
      BY <2>2 DEF Exportable
    <3>2. \E m \in got.corr : s < m - BufferSpan
      BY <1>2, <3>1, ForgottenIsLate
    <3>3. QED
      BY <3>2 DEF Late
  <2>3. QED
    BY Zenon, <2>1, <2>2, InvalidIsTrue DEF r
<1>3. CASE UpTo(fixes, s) # {} /\ UpTo(poses, s) = {}
  <2>1. r = InvalidRow(s)
    BY <1>3 DEF RowOf
  <2>2. ASSUME Exportable(s, got) PROVE Late(s, got)
    <3>1. PICK p \in got.raw : p <= s
      BY <2>2 DEF Exportable, UpTo
    <3>2. \E m \in got.raw : s < m - BufferSpan
      BY <1>3, <3>1, ForgottenIsLate
    <3>3. QED
      BY <3>2 DEF Late
  <2>3. QED
    BY Zenon, <2>1, <2>2, InvalidIsTrue DEF r
<1>4. CASE UpTo(poses, s) # {} /\ NotBefore(poses, s) = {}
  <2>1. r = InvalidRow(s)
    BY <1>4 DEF RowOf
  <2>2. ASSUME Exportable(s, got) PROVE FALSE
    <3>1. PICK a \in got.raw : a >= s
      BY <2>2 DEF Exportable, NotBefore
    <3>2. PICK b \in poses : b <= s
      BY <1>4 DEF UpTo
    <3>3. a \notin poses
      BY <1>4, <3>1 DEF NotBefore
    <3>4. a < b /\ a \in Nat /\ b \in Nat
      BY <1>1, <3>3 DEF Remembers
    <3>5. QED
      BY <3>1, <3>2, <3>4
  <2>3. QED
    BY Zenon, <2>1, <2>2, InvalidIsTrue DEF r
<1>5. CASE UpTo(fixes, s) # {} /\ UpTo(poses, s) # {} /\ NotBefore(poses, s) # {}
  <2>1. before \in poses /\ before <= s /\ \A p \in got.raw : p <= s => p <= before
    BY <1>5, LatestKept
  <2>2. after \in poses /\ after >= s /\ \A p \in got.raw : p >= s => p >= after
    BY <1>5, EarliestKept
  <2>3. c \in fixes /\ c <= s /\ \A p \in got.corr : p <= s => p <= c
    BY <1>5, LatestKept
  <2>4. r = IF after - before <= MaxSpan THEN ValidRow(s, before, after, c) ELSE InvalidRow(s)
    BY <1>5 DEF RowOf, LatestCausal
  <2> HIDE DEF before, after, c, r
  <2>5. CASE after - before <= MaxSpan
    <3>1. r = [stamp |-> s, valid |-> TRUE, before |-> before, after |-> after, corr |-> c]
      BY <2>4, <2>5 DEF ValidRow
    <3>2. /\ before \in Nat /\ after \in Nat /\ c \in Nat
          /\ before \in got.raw /\ after \in got.raw /\ c \in got.corr
      BY <1>1, <2>1, <2>2, <2>3
    <3>3. ~\E p \in got.raw : before < p /\ p < after
      <4> SUFFICES ASSUME NEW p \in got.raw, before < p, p < after PROVE FALSE
        OBVIOUS
      <4>1. p \in Nat
        BY <1>1
      <4>2. (p <= s => p <= before) /\ (p >= s => p >= after)
        BY <2>1, <2>2
      <4>3. QED
        BY <3>2, <4>1, <4>2
    <3>4. ~\E p \in got.corr : c < p /\ p <= s
      <4> SUFFICES ASSUME NEW p \in got.corr, c < p, p <= s PROVE FALSE
        OBVIOUS
      <4>1. p \in Nat /\ p <= c
        BY <1>1, <2>3
      <4>2. QED
        BY <3>2, <4>1
    <3>5. r \in RowSet
      BY <3>1, <3>2 DEF RowSet
    <3>6. /\ r.valid /\ r.stamp = s /\ r.before = before /\ r.after = after /\ r.corr = c
      BY <3>1
    <3>7. QED
      BY <2>1, <2>2, <2>3, <2>5, <3>2, <3>3, <3>4, <3>5, <3>6 DEF RowTrue, r
  <2>6. CASE ~(after - before <= MaxSpan)
    <3>1. r = InvalidRow(s)
      BY <2>4, <2>6
    <3>2. ASSUME Exportable(s, got) PROVE FALSE
      <4>1. PICK b \in UpTo(got.raw, s), a \in NotBefore(got.raw, s) : a - b <= MaxSpan
        BY <3>2 DEF Exportable
      <4>2. b \in got.raw /\ b <= s /\ a \in got.raw /\ a >= s
        BY <4>1 DEF UpTo, NotBefore
      <4>3. b <= before /\ a >= after
        BY <2>1, <2>2, <4>2
      <4>4. b \in Nat /\ a \in Nat /\ before \in Nat /\ after \in Nat
        BY <1>1, <2>1, <2>2, <4>2
      <4>5. QED
        BY <2>6, <4>1, <4>3, <4>4
    <3>3. QED
      BY Zenon, <3>1, <3>2, InvalidIsTrue DEF r
  <2>7. QED
    BY <2>5, <2>6
<1>6. QED
  BY <1>2, <1>3, <1>4, <1>5

\* What keeps an image waiting keeps the images behind it waiting as well.
LEMMA StillWaits ==
  ASSUME NEW got, NEW poses, NEW fixes, Remembers(got.raw, poses), Remembers(got.corr, fixes),
         NEW word, NEW s0 \in Nat, NEW s \in Nat, s0 <= s, ~Decided(s0, poses, fixes, word)
  PROVE  StillOpen(s, got, word)
<1>1. /\ got.raw \in SUBSET Nat /\ poses \in SUBSET got.raw
      /\ got.corr \in SUBSET Nat /\ fixes \in SUBSET got.corr
  BY DEF Remembers
<1>2. CASE fixes = {}
  <2>1. got.corr = {} /\ word # "unaligned"
    BY <1>2 DEF Remembers, Decided
  <2>2. QED
    BY <2>1 DEF StillOpen
<1>3. CASE fixes # {}
  <2>1. UpTo(fixes, s0) # {} /\ NotBefore(poses, s0) = {}
    BY <1>3 DEF Decided
  <2>2. PICK c \in got.corr : c <= s0
    BY <1>1, <2>1 DEF UpTo
  <2>3. c \in Nat /\ c <= s
    BY <1>1, <2>2
  <2>4. \A p \in poses : p < s0
    <3>1. \A p \in poses : ~(p >= s0) /\ p \in Nat
      BY <1>1, <2>1 DEF NotBefore
    <3>2. QED
      BY <3>1
  <2>5. ASSUME NEW p \in got.raw PROVE p < s
    <3>1. p \in Nat
      BY <1>1
    <3>2. CASE p \in poses
      BY <2>4, <3>1, <3>2
    <3>3. CASE p \notin poses
      <4>1. PICK q \in poses : p < q
        BY <3>3 DEF Remembers
      <4>2. q \in Nat /\ q < s0
        BY <1>1, <2>4, <4>1
      <4>3. QED
        BY <3>1, <4>1, <4>2
    <3>4. QED
      BY <3>2, <3>3
  <2>6. got.corr # {}
    BY <2>2
  <2>7. QED
    BY <2>2, <2>3, <2>5, <2>6 DEF StillOpen
<1>4. QED
  BY <1>2, <1>3

Drained(images, got, word) ==
  /\ rows' \in Seq(RowSet) /\ pending_camera_stamps' \in Seq(Nat)
  /\ Ascending(pending_camera_stamps')
  /\ \A i \in DOMAIN rows' \ DOMAIN rows : RowTrue(rows'[i], got)
  /\ \A i \in DOMAIN pending_camera_stamps' : StillOpen(pending_camera_stamps'[i], got, word)

LEMMA RestOf ==
  ASSUME NEW s \in Seq(Nat), NEW n \in 0..Len(s)
  PROVE  /\ SubSeq(s, n + 1, Len(s)) \in Seq(Nat)
         /\ Len(SubSeq(s, n + 1, Len(s))) = Len(s) - n
         /\ \A i \in 1..(Len(s) - n) : SubSeq(s, n + 1, Len(s))[i] = s[n + i]
<1>1. /\ n + 1 \in Int /\ Len(s) \in Int /\ \A i \in (n + 1)..Len(s) : s[i] \in Nat
  OBVIOUS
<1>2. QED
  BY <1>1, SubSeqProperties

LEMMA DrainStep ==
  ASSUME NEW images \in Seq(Nat), Ascending(images), rows \in Seq(RowSet),
         NEW got, NEW poses, NEW fixes, Remembers(got.raw, poses), Remembers(got.corr, fixes),
         NEW word, NEW force, Drain(images, poses, fixes, word, force)
  PROVE  Drained(images, got, word)
<1> DEFINE first == {i \in DOMAIN images : ~force /\ ~Decided(images[i], poses, fixes, word)}
           n == IF first = {} THEN Len(images) ELSE Min(first) - 1
           new == [i \in 1..n |-> RowOf(images[i], poses, fixes)]
           rest == SubSeq(images, n + 1, Len(images))
<1>1. Len(images) \in Nat /\ DOMAIN images = 1..Len(images) /\ \A i \in 1..Len(images) : images[i] \in Nat
  OBVIOUS
<1>2. /\ n \in 0..Len(images)
      /\ n < Len(images) => ~Decided(images[n + 1], poses, fixes, word)
  <2>1. CASE first = {}
    BY <1>1, <2>1
  <2>2. CASE first # {}
    <3>1. first \in SUBSET Nat
      BY <1>1
    <3>2. Min(first) \in first
      BY <2>2, <3>1, EarliestOf
    <3>3. PICK k : k = Min(first)
      OBVIOUS
    <3>4. k \in 1..Len(images) /\ ~Decided(images[k], poses, fixes, word)
      BY Zenon, <1>1, <3>2, <3>3
    <3>5. n = k - 1
      BY Zenon, <2>2, <3>3
    <3>6. n \in 0..Len(images) /\ n + 1 = k
      BY <1>1, <3>4, <3>5
    <3>7. QED
      BY Zenon, <3>4, <3>6
  <2>3. QED
    BY <2>1, <2>2
<1>3. rows' = rows \o new /\ pending_camera_stamps' = rest
  BY DEF Drain
<1> HIDE DEF n
<1>4. new \in Seq(RowSet) /\ Len(new) = n /\ \A i \in 1..n : RowTrue(new[i], got)
  <2>1. \A i \in 1..n : images[i] \in Nat
    BY <1>1, <1>2
  <2>2. \A i \in 1..n : /\ RowOf(images[i], poses, fixes) \in RowSet
                        /\ RowTrue(RowOf(images[i], poses, fixes), got)
    BY <2>1, RowIsTrue
  <2>3. n \in Nat
    BY <1>1, <1>2
  <2>4. new \in [1..n -> RowSet] /\ \A i \in 1..n : new[i] = RowOf(images[i], poses, fixes)
    BY Zenon, <2>2
  <2> HIDE DEF new
  <2>5. new \in Seq(RowSet) /\ Len(new) = n
    BY <2>3, <2>4
  <2>6. QED
    BY Zenon, <2>2, <2>4, <2>5
<1> HIDE DEF new
<1>5. /\ rows' \in Seq(RowSet) /\ Len(rows') = Len(rows) + n
      /\ \A i \in 1..(Len(rows) + n) :
           rows'[i] = IF i <= Len(rows) THEN rows[i] ELSE new[i - Len(rows)]
  BY <1>3, <1>4, ConcatProperties
<1>6. ASSUME NEW i \in DOMAIN rows' \ DOMAIN rows PROVE RowTrue(rows'[i], got)
  <2>1. DOMAIN rows = 1..Len(rows) /\ DOMAIN rows' = 1..(Len(rows) + n) /\ Len(rows) \in Nat
    BY <1>5
  <2>2. i - Len(rows) \in 1..n /\ i \in 1..(Len(rows) + n) /\ ~(i <= Len(rows))
    BY <1>1, <1>2, <2>1
  <2>3. rows'[i] = new[i - Len(rows)]
    BY <1>5, <2>2
  <2>4. QED
    BY Zenon, <1>4, <2>2, <2>3
<1>7. /\ rest \in Seq(Nat) /\ Len(rest) = Len(images) - n
      /\ \A i \in 1..(Len(images) - n) : rest[i] = images[n + i]
  BY <1>1, <1>2, RestOf
<1> HIDE DEF rest
<1>8. DOMAIN rest = 1..(Len(images) - n)
  BY <1>7
<1>9. Ascending(rest)
  <2> SUFFICES ASSUME NEW i \in DOMAIN rest, NEW j \in DOMAIN rest, i < j
               PROVE  rest[i] <= rest[j]
    BY DEF Ascending
  <2>1. i \in 1..(Len(images) - n) /\ j \in 1..(Len(images) - n) /\ i < j
    BY Zenon, <1>8
  <2>2. \A l \in Nat : \A k \in 0..l : \A a, b \in 1..(l - k) :
          a < b => k + a \in 1..l /\ k + b \in 1..l /\ k + a < k + b
    OBVIOUS
  <2>3. n + i \in 1..Len(images) /\ n + j \in 1..Len(images) /\ n + i < n + j
    BY Zenon, <1>1, <1>2, <2>1, <2>2
  <2>4. images[n + i] <= images[n + j]
    BY Zenon, <1>1, <2>3 DEF Ascending
  <2>5. QED
    BY Zenon, <1>7, <2>1, <2>4
<1>10. ASSUME NEW i \in DOMAIN rest PROVE StillOpen(rest[i], got, word)
  <2>1. n + i \in 1..Len(images) /\ n + 1 \in 1..Len(images) /\ n < Len(images) /\ n + 1 <= n + i
    BY SMTT(30), <1>1, <1>2, <1>8
  <2>2. images[n + 1] <= images[n + i]
    <3>1. CASE i = 1
      <4>1. images[n + 1] \in Nat
        BY <1>1, <2>1
      <4>2. QED
        BY <3>1, <4>1
    <3>2. CASE i # 1
      <4>1. n + 1 < n + i /\ n + 1 \in DOMAIN images /\ n + i \in DOMAIN images
        BY <1>1, <1>2, <1>8, <2>1, <3>2
      <4>2. QED
        BY <4>1 DEF Ascending
    <3>3. QED
      BY <3>1, <3>2
  <2>3. images[n + 1] \in Nat /\ images[n + i] \in Nat
    BY <1>1, <2>1
  <2>4. StillOpen(images[n + i], got, word)
    BY <1>2, <2>1, <2>2, <2>3, StillWaits
  <2>5. QED
    BY <1>7, <1>8, <2>4
<1>11. QED
  BY Zenon, <1>3, <1>5, <1>6, <1>7, <1>9, <1>10 DEF Drained

\* The images wait in the order of their stamps, and of both streams enough
\* is kept.
ExportInv ==
  /\ pending_camera_stamps \in Seq(Nat) /\ Ascending(pending_camera_stamps)
  /\ rows \in Seq(RowSet)
  /\ heard \in [raw : SUBSET Nat, corr : SUBSET Nat]
  /\ Remembers(heard.raw, raw_poses) /\ Remembers(heard.corr, map_to_odom_poses)

LEMMA ExportInvInit == ExportInit => ExportInv
BY DEF ExportInit, ExportInv, Remembers, Ascending

LEMMA AfterDrain ==
  ASSUME NEW images, Drained(images, heard', backend_status'),
         heard' \in [raw : SUBSET Nat, corr : SUBSET Nat],
         Remembers(heard'.raw, raw_poses'), Remembers(heard'.corr, map_to_odom_poses')
  PROVE  /\ ExportInv'
         /\ \A i \in DOMAIN rows' \ DOMAIN rows : RowTrue(rows'[i], heard')
         /\ \A i \in DOMAIN pending_camera_stamps' :
              StillOpen(pending_camera_stamps'[i], heard', backend_status')
BY Zenon DEF Drained, ExportInv, Ascending, Remembers

RowsTrueAndPromptStep ==
  /\ \A i \in DOMAIN rows' \ DOMAIN rows : RowTrue(rows'[i], heard')
  /\ \A i \in DOMAIN pending_camera_stamps' :
       StillOpen(pending_camera_stamps'[i], heard', backend_status')

LEMMA ImageStep ==
  ASSUME ExportInv, NEW s \in ImageTicks, ImageCallback(s)
  PROVE  ExportInv' /\ RowsTrueAndPromptStep
<1> DEFINE images == Placed(pending_camera_stamps, s)
<1>1. s \in Nat /\ pending_camera_stamps \in Seq(Nat) /\ Ascending(pending_camera_stamps)
  BY ExportAssumption DEF ExportInv
<1>2. images = InsertSorted(pending_camera_stamps, s)
  BY Zenon DEF Placed, InsertSorted
<1>3. images \in Seq(Nat) /\ Ascending(images)
  BY <1>1, <1>2, InsertSortedProperties, InsertSortedAscending
<1>4. /\ Drain(images, raw_poses, map_to_odom_poses, backend_status, FALSE)
      /\ UNCHANGED <<raw_poses, map_to_odom_poses, backend_status, heard>>
  BY Zenon DEF ImageCallback
<1> HIDE DEF images
<1>5. Drained(images, heard, backend_status)
  BY <1>3, <1>4, DrainStep DEF ExportInv
<1>6. QED
  BY Zenon, <1>4, <1>5, AfterDrain DEF ExportInv, RowsTrueAndPromptStep

LEMMA RawStep ==
  ASSUME ExportInv, NEW t \in RawTicks, RawOdomCallback(t)
  PROVE  ExportInv' /\ RowsTrueAndPromptStep
<1>1. /\ t \in Nat /\ \A p \in heard.raw : p < t
      /\ raw_poses' = Pruned(raw_poses \union {t})
      /\ Drain(pending_camera_stamps, raw_poses', map_to_odom_poses, backend_status, FALSE)
      /\ UNCHANGED <<map_to_odom_poses, backend_status>>
  BY ExportAssumption DEF RawOdomCallback
<1>2. /\ heard' \in [raw : SUBSET Nat, corr : SUBSET Nat]
      /\ heard'.raw = heard.raw \union {t} /\ heard'.corr = heard.corr
  BY <1>1 DEF RawOdomCallback, ExportInv
<1>3. Remembers(heard'.raw, raw_poses')
  <2>1. Remembers(heard.raw \union {t}, Pruned(raw_poses \union {t}))
    BY Zenon, <1>1, StillRemembers DEF ExportInv
  <2>2. QED
    BY Zenon, <1>1, <1>2, <2>1
<1>4. Remembers(heard'.corr, map_to_odom_poses)
  BY Zenon, <1>2 DEF ExportInv
<1>5. Drained(pending_camera_stamps, heard', backend_status)
  BY <1>1, <1>3, <1>4, DrainStep DEF ExportInv
<1>6. QED
  BY Zenon, <1>1, <1>2, <1>3, <1>4, <1>5, AfterDrain DEF RowsTrueAndPromptStep

LEMMA CorrectionStep ==
  ASSUME ExportInv, NEW t \in CorrTicks, MapToOdomCallback(t)
  PROVE  ExportInv' /\ RowsTrueAndPromptStep
<1>1. /\ t \in Nat /\ \A p \in heard.corr : p < t
      /\ map_to_odom_poses' = Pruned(map_to_odom_poses \union {t})
      /\ Drain(pending_camera_stamps, raw_poses, map_to_odom_poses', backend_status, FALSE)
      /\ UNCHANGED <<raw_poses, backend_status>>
  BY ExportAssumption DEF MapToOdomCallback
<1>2. /\ heard' \in [raw : SUBSET Nat, corr : SUBSET Nat]
      /\ heard'.corr = heard.corr \union {t} /\ heard'.raw = heard.raw
  BY <1>1 DEF MapToOdomCallback, ExportInv
<1>3. Remembers(heard'.corr, map_to_odom_poses')
  <2>1. Remembers(heard.corr \union {t}, Pruned(map_to_odom_poses \union {t}))
    BY Zenon, <1>1, StillRemembers DEF ExportInv
  <2>2. QED
    BY Zenon, <1>1, <1>2, <2>1
<1>4. Remembers(heard'.raw, raw_poses)
  BY Zenon, <1>2 DEF ExportInv
<1>5. Drained(pending_camera_stamps, heard', backend_status)
  BY <1>1, <1>3, <1>4, DrainStep DEF ExportInv
<1>6. QED
  BY Zenon, <1>1, <1>2, <1>3, <1>4, <1>5, AfterDrain DEF RowsTrueAndPromptStep

LEMMA ExportStep ==
  ASSUME ExportInv, [ExportNext]_exportVars
  PROVE  ExportInv' /\ [RowsTrueAndPromptStep]_exportVars
<1>1. CASE \E s \in ImageTicks : ImageCallback(s)
  BY Zenon, <1>1, ImageStep
<1>2. CASE \E t \in RawTicks : RawOdomCallback(t)
  BY Zenon, <1>2, RawStep
<1>3. CASE \E t \in CorrTicks : MapToOdomCallback(t)
  BY Zenon, <1>3, CorrectionStep
<1>4. ASSUME NEW word, NEW force,
             Drain(pending_camera_stamps, raw_poses, map_to_odom_poses, word, force),
             backend_status' = word, UNCHANGED <<raw_poses, map_to_odom_poses, heard>>
      PROVE  ExportInv' /\ RowsTrueAndPromptStep
  <2>1. Drained(pending_camera_stamps, heard, word)
    BY <1>4, DrainStep DEF ExportInv
  <2>2. QED
    BY Zenon, <1>4, <2>1, AfterDrain DEF ExportInv, RowsTrueAndPromptStep
<1>5. CASE \E ready \in {"unaligned", "aligned"} : StatusCallback(ready)
  BY Zenon, <1>4, <1>5 DEF StatusCallback
<1>6. CASE StopExport
  BY Zenon, <1>4, <1>6 DEF StopExport
<1>7. CASE UNCHANGED exportVars
  BY Zenon, <1>7 DEF exportVars, ExportInv, Remembers, Ascending
<1>8. QED
  BY Zenon, <1>1, <1>2, <1>3, <1>5, <1>6, <1>7 DEF ExportNext

\* A row is what all that was received says of its image, whatever the order
\* of the topics and whatever was pruned, and an image waits only for what
\* may still decide it (drainPending, insertOrReplace, prunePoseBuffer).
THEOREM RowsAreTrueAndPrompt == ExportSpec => RowsTrueAndPrompt
<1>1. ExportInv /\ [ExportNext]_exportVars =>
        ExportInv' /\
        [/\ \A i \in DOMAIN rows' \ DOMAIN rows : RowTrue(rows'[i], heard')
         /\ \A i \in DOMAIN pending_camera_stamps' :
              StillOpen(pending_camera_stamps'[i], heard', backend_status')]_exportVars
  BY Zenon, ExportStep DEF RowsTrueAndPromptStep
<1>2. QED
  BY <1>1, ExportInvInit, PTL DEF ExportSpec, RowsTrueAndPrompt
=============================================================================
