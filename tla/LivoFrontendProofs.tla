------------------------- MODULE LivoFrontendProofs -------------------------
(***************************************************************************)
(* Theorems about LivoFrontend, for every value of its constants.          *)
(***************************************************************************)
EXTENDS LivoFrontend, StampSets, SequenceTheorems

-----------------------------------------------------------------------------
(* Lemmas about the buffer operators.                                      *)

\* Upto is the longest prefix of stamps up to t: it exists, by taking the
\* first stamp beyond t.
LEMMA UptoProperties ==
  ASSUME NEW s \in Seq(Nat), NEW t \in Int
  PROVE  /\ Upto(s, t) \in 0..Len(s)
         /\ \A i \in 1..Upto(s, t) : s[i] <= t
         /\ Upto(s, t) < Len(s) => s[Upto(s, t) + 1] > t
<1> DEFINE Beyond == {i \in 1..Len(s) : s[i] > t}
           Prefix(n) == /\ \A i \in 1..n : s[i] <= t
                        /\ n < Len(s) => s[n + 1] > t
<1>0. Len(s) \in Nat /\ \A i \in 1..Len(s) : s[i] \in Nat
  OBVIOUS
<1>1. \E n \in 0..Len(s) : Prefix(n)
  <2>1. CASE Beyond = {}
    <3>1. Prefix(Len(s)) /\ Len(s) \in 0..Len(s)
      BY <1>0, <2>1
    <3>2. QED
      BY <3>1
  <2>2. CASE Beyond # {}
    <3>1. Beyond \in SUBSET Nat
      BY <1>0
    <3>2. PICK k \in Beyond : \A j \in Beyond : k <= j
      BY <2>2, <3>1, LeastElement
    <3>3. Prefix(k - 1) /\ k - 1 \in 0..Len(s)
      BY <3>2, <1>0
    <3>4. QED
      BY <3>3
  <2>3. QED
    BY <2>1, <2>2
<1>2. QED
  BY <1>1 DEF Upto

\* A sequence over naturals of some kind is one over the naturals.
LEMMA SeqOfStamps ==
  ASSUME NEW S \in SUBSET Nat, NEW s \in Seq(S)
  PROVE  /\ s \in Seq(Nat) /\ Len(s) \in Nat
         /\ \A i \in 1..Len(s) : s[i] \in S
<1>1. Len(s) \in Nat /\ s \in [1..Len(s) -> S] /\ \A i \in 1..Len(s) : s[i] \in S
  OBVIOUS
<1>2. s \in [1..Len(s) -> Nat]
  BY <1>1
<1>3. QED
  BY <1>1, <1>2

\* Popping the prefix leaves a sequence over the same stamps.
LEMMA PopUptoType ==
  ASSUME NEW S \in SUBSET Nat, NEW s \in Seq(S), NEW t \in Int
  PROVE  PopUpto(s, t) \in Seq(S)
<1>1. s \in Seq(Nat) /\ Len(s) \in Nat /\ \A i \in 1..Len(s) : s[i] \in S
  BY SeqOfStamps
<1>2. Upto(s, t) \in 0..Len(s)
  BY <1>1, UptoProperties
<1>3. /\ Upto(s, t) + 1 \in Int /\ Len(s) \in Int
      /\ \A i \in (Upto(s, t) + 1)..Len(s) : s[i] \in S
  BY <1>1, <1>2
<1>4. QED
  BY <1>3, SubSeqProperties DEF PopUpto

\* Eviction keeps a suffix.
LEMMA KeepNewestType ==
  ASSUME NEW S, NEW s \in Seq(S), NEW cap \in Nat
  PROVE  KeepNewest(s, cap) \in Seq(S)
<1>1. CASE cap > 0 /\ Len(s) > cap
  <2>1. \A i \in (Len(s) - cap + 1)..Len(s) : s[i] \in S
    BY <1>1
  <2>2. SubSeq(s, Len(s) - cap + 1, Len(s)) \in Seq(S)
    BY <2>1, SubSeqProperties
  <2>3. QED
    BY <1>1, <2>2 DEF KeepNewest
<1>2. CASE ~(cap > 0 /\ Len(s) > cap)
  BY <1>2 DEF KeepNewest
<1>3. QED
  BY <1>1, <1>2

\* An arriving message is never the one evicted.
LEMMA KeepNewestNonempty ==
  ASSUME NEW S, NEW s \in Seq(S), NEW x \in S, NEW cap \in Nat
  PROVE  KeepNewest(Append(s, x), cap) # <<>>
<1> DEFINE a == Append(s, x)
<1>1. a \in Seq(S) /\ a # <<>> /\ Len(a) \in Nat
  BY AppendProperties
<1> HIDE DEF a
<1>2. CASE cap > 0 /\ Len(a) > cap
  <2>1. \A i \in (Len(a) - cap + 1)..Len(a) : a[i] \in S
    BY <1>1, <1>2
  <2>2. Len(SubSeq(a, Len(a) - cap + 1, Len(a))) = cap
    BY <1>1, <1>2, <2>1, SubSeqProperties
  <2>3. QED
    BY <1>2, <2>2 DEF KeepNewest, a
<1>3. CASE ~(cap > 0 /\ Len(a) > cap)
  BY <1>1, <1>3 DEF KeepNewest, a
<1>4. QED
  BY <1>2, <1>3

\* Insertion at the place lower_bound finds.
LEMMA InsertType ==
  ASSUME NEW S \in SUBSET Nat, NEW s \in Seq(S), NEW t \in S
  PROVE  Insert(s, t) \in Seq(S)
<1>1. s \in Seq(Nat) /\ Len(s) \in Nat /\ \A i \in 1..Len(s) : s[i] \in S
  BY SeqOfStamps
<1>2. Upto(s, t - 1) \in 0..Len(s)
  BY <1>1, UptoProperties
<1>3. SubSeq(s, 1, Upto(s, t - 1)) \in Seq(S)
  <2>1. Upto(s, t - 1) \in Int /\ \A i \in 1..Upto(s, t - 1) : s[i] \in S
    BY <1>1, <1>2
  <2>2. QED
    BY <2>1, SubSeqProperties
<1>4. <<t>> \in Seq(S)
  OBVIOUS
<1>5. PopUpto(s, t - 1) \in Seq(S)
  BY PopUptoType
<1>6. QED
  BY <1>3, <1>4, <1>5, ConcatProperties DEF Insert

\* Sorting rearranges: the result is ordered and over the same stamps.
LEMMA SortedFormsType ==
  ASSUME NEW S, NEW s \in Seq(S), NEW t \in SortedForms(s)
  PROVE  /\ t \in Seq(S) /\ Len(t) = Len(s)
         /\ Ordered(t) /\ Elements(t) = Elements(s)
<1>1. /\ t = [k \in 1..Len(s) |-> s[CHOOSE i \in DOMAIN s : Rank(s, i) = k]]
      /\ Ordered(t) /\ Elements(t) = Elements(s)
  BY DEF SortedForms
<1>2. Len(s) \in Nat /\ Elements(s) \subseteq S
  BY DEF Elements
<1>3. DOMAIN t = 1..Len(s) /\ \A i \in 1..Len(s) : t[i] \in S
  BY <1>1, <1>2 DEF Elements
<1>4. t \in [1..Len(s) -> S]
  BY <1>1, <1>3
<1>5. t \in Seq(S) /\ Len(t) = Len(s)
  BY <1>4, <1>2
<1>6. QED
  BY <1>1, <1>5

\* A view is a stretch of the buffer, and only the right support lies beyond
\* the target.
LEMMA ViewProperties ==
  ASSUME NEW S \in SUBSET Nat, NEW buf \in Seq(S), NEW c \in Core,
         NEW target \in Nat, View(buf, c, target).ready
  PROVE  /\ View(buf, c, target).imu \in Seq(S)
         /\ \A i \in 1..Len(View(buf, c, target).imu) :
              i < Len(View(buf, c, target).imu) => View(buf, c, target).imu[i] <= target
<1> DEFINE lo == Upto(buf, c.cov)
           hi == Upto(buf, target)
           last == IF hi > lo THEN buf[hi] ELSE c.carry
           right == NeedsRight(c, target, hi - lo, last)
           top == IF right THEN hi + 1 ELSE hi
<1>1. buf \in Seq(Nat) /\ Len(buf) \in Nat /\ \A i \in 1..Len(buf) : buf[i] \in S
  BY SeqOfStamps
<1>2. c.cov \in Int
  BY DEF Core
<1>3. lo \in 0..Len(buf)
  BY <1>1, <1>2, UptoProperties
<1>4. hi \in 0..Len(buf) /\ \A i \in 1..hi : buf[i] <= target
  BY <1>1, UptoProperties
<1>5. View(buf, c, target).imu = SubSeq(buf, lo + 1, top)
  BY DEF View
<1>6. right => hi < Len(buf)
  BY DEF View
<1> HIDE DEF lo, hi, last, right, top
<1>7. top \in 0..Len(buf) /\ top <= hi + 1
  BY <1>1, <1>4, <1>6 DEF top
<1>8. /\ SubSeq(buf, lo + 1, top) \in Seq(S)
      /\ Len(SubSeq(buf, lo + 1, top)) = IF lo + 1 <= top THEN top - (lo + 1) + 1 ELSE 0
      /\ \A i \in 1..(top - (lo + 1) + 1) :
           SubSeq(buf, lo + 1, top)[i] = buf[lo + 1 + i - 1]
  <2>1. lo + 1 \in Int /\ top \in Int /\ \A i \in (lo + 1)..top : buf[i] \in S
    BY <1>1, <1>3, <1>7
  <2>2. QED
    BY <2>1, SubSeqProperties
<1>9. \A i \in 1..Len(SubSeq(buf, lo + 1, top)) :
        i < Len(SubSeq(buf, lo + 1, top)) => SubSeq(buf, lo + 1, top)[i] <= target
  <2> SUFFICES ASSUME NEW i \in 1..Len(SubSeq(buf, lo + 1, top)),
                      i < Len(SubSeq(buf, lo + 1, top))
               PROVE  SubSeq(buf, lo + 1, top)[i] <= target
    OBVIOUS
  <2>1. i \in 1..(top - (lo + 1) + 1) /\ lo + i \in 1..hi
    BY <1>1, <1>3, <1>4, <1>7, <1>8
  <2>2. SubSeq(buf, lo + 1, top)[i] = buf[lo + i]
    BY <2>1, <1>8, <1>3
  <2>3. QED
    BY <2>1, <2>2, <1>4
<1>10. QED
  BY <1>5, <1>8, <1>9

\* What the initialization drains lies before its event.
LEMMA DrainProperties ==
  ASSUME NEW S \in SUBSET Nat, NEW buf \in Seq(S), NEW target \in Nat,
         OpenedClock \in Int
  PROVE  /\ Drain(buf, target) \in Seq(S)
         /\ \A i \in 1..Len(Drain(buf, target)) : Drain(buf, target)[i] <= target
<1> DEFINE lo == Upto(buf, OpenedClock)
           hi == Upto(buf, target)
<1>1. buf \in Seq(Nat) /\ Len(buf) \in Nat /\ \A i \in 1..Len(buf) : buf[i] \in S
  BY SeqOfStamps
<1>2. lo \in 0..Len(buf)
  BY <1>1, UptoProperties
<1>3. hi \in 0..Len(buf) /\ \A i \in 1..hi : buf[i] <= target
  BY <1>1, UptoProperties
<1>4. Drain(buf, target) = SubSeq(buf, lo + 1, hi)
  BY DEF Drain
<1> HIDE DEF lo, hi
<1>5. /\ SubSeq(buf, lo + 1, hi) \in Seq(S)
      /\ Len(SubSeq(buf, lo + 1, hi)) = IF lo + 1 <= hi THEN hi - (lo + 1) + 1 ELSE 0
      /\ \A i \in 1..(hi - (lo + 1) + 1) : SubSeq(buf, lo + 1, hi)[i] = buf[lo + 1 + i - 1]
  <2>1. lo + 1 \in Int /\ hi \in Int /\ \A i \in (lo + 1)..hi : buf[i] \in S
    BY <1>1, <1>2, <1>3
  <2>2. QED
    BY <2>1, SubSeqProperties
<1>6. \A i \in 1..Len(SubSeq(buf, lo + 1, hi)) : SubSeq(buf, lo + 1, hi)[i] <= target
  BY <1>2, <1>3, <1>5
<1>7. QED
  BY <1>4, <1>5, <1>6

\* The parameters have the types the actions need.
LEMMA ParameterTypes ==
  /\ Scans \in Seq(Scan) /\ Len(Scans) \in Nat
  /\ ImuStamps \in SUBSET Nat /\ ImgStamps \in SUBSET Nat
  /\ {ImuCopies, ImuLag, ImgLag, MaxLidar, MaxImu, MaxImg, MaxPropImu,
      ImgBufferMin, MaxIniCount} \subseteq Nat
  /\ ImuPropEnable \in BOOLEAN
BY ScansAssumption, StampsAssumption, SizesAssumption, FlagsAssumption

-----------------------------------------------------------------------------
(* The inductive invariant.                                                *)

\* A transaction is open only while its event is estimated, a pose is
\* remembered only inside one, and its checkpoint is an earlier core.
TransactionInv ==
  /\ need_init => ~working
  /\ pc \in {"spin", "imu"} => ~working
  /\ pc \in {"estimate", "finish"} /\ event.kind = "VIO" => working
  /\ pending_odom # Unset => working /\ pending_odom = clock
  /\ working => /\ core.cov = clock /\ before.cov <= core.cov
                /\ 0 < before.cov /\ before.state = before.cov
                /\ before.carry <= before.cov

\* Once initialized, the core is one point in time, not after the clock.
CoreInv ==
  ~need_init => /\ 0 < core.cov /\ core.state = core.cov
                /\ core.carry <= core.cov /\ core.cov <= clock

\* An event carries no sample beyond its time but the right support.
EventInv ==
  pc = "imu" => /\ event.kind = "VIO" => ~need_init
                /\ \A i \in 1..Len(event.imu) :
                     need_init \/ i < Len(event.imu) => event.imu[i] <= event.time

Inv == TypeOK /\ OpenScanBuffered /\ TransactionInv /\ CoreInv /\ EventInv

-----------------------------------------------------------------------------
(* Type correctness, one lemma per action.                                 *)

LEMMA InitType == Init => TypeOK
<1> SUFFICES ASSUME Init PROVE TypeOK
  OBVIOUS
<1>1. lid_buffer \in Seq(Scan) /\ imu_buffer \in Seq(ImuStamps) /\ img_buffer \in Seq(ImgStamps)
  BY DEF Init
<1>2. /\ newest \in Newest
      /\ scan \in Scan /\ clock \in Times /\ event \in Events
  BY DEF Init, Times, Unset, Scan, Events, NoEvent, Newest
<1>3. sent \in Sensors
  BY ParameterTypes DEF Init, Sensors
<1>4. core \in Core /\ before \in Core /\ pending_odom \in Times /\ last_odom \in Times
  BY DEF Init, Core, NoCore, Times, Unset
<1>5. life \in Lifecycle
  BY DEF Init, Times, Unset, Lifecycle
<1>6. /\ prop \in PropState
      /\ hist \in History
  BY DEF Init, Times, Unset, History, PropState
<1>7. QED
  BY <1>1, <1>2, <1>3, <1>4, <1>5, <1>6 DEF Init, TypeOK

LEMMA ReceiveScanType == TypeOK /\ ReceiveScan => TypeOK'
<1> SUFFICES ASSUME TypeOK, ReceiveScan PROVE TypeOK'
  OBVIOUS
<1> DEFINE s == Scans[sent.lid + 1]
<1>0. /\ sent \in Sensors
      /\ sent.lid < Len(Scans) /\ sent' = [sent EXCEPT !.lid = @ + 1]
  BY DEF TypeOK, ReceiveScan, Sensors
<1>1. s \in Scan /\ s.beg \in Nat
  <2>1. sent.lid + 1 \in 1..Len(Scans)
    BY <1>0, ParameterTypes DEF Sensors
  <2>2. s \in Scan
    BY <2>1, ParameterTypes, ElementOfSeq
  <2>3. QED
    BY <2>2 DEF Scan
<1>2. sent' \in Sensors
  <2>1. sent.lid + 1 \in 0..Len(Scans)
    BY <1>0, ParameterTypes DEF Sensors
  <2>2. QED
    BY <1>0, <2>1 DEF Sensors
<1>3. lid_buffer' \in Seq(Scan) /\ newest' \in Newest
  <2>1. CASE s.beg < newest.lid
    BY <2>1 DEF TypeOK, ReceiveScan
  <2>2. CASE ~(s.beg < newest.lid)
    <3>1. lid_buffer' = KeepNewest(Append(lid_buffer, s), MaxLidar)
      BY <2>2 DEF ReceiveScan
    <3>2. lid_buffer' \in Seq(Scan)
      BY <3>1, <1>1, KeepNewestType, AppendProperties, ParameterTypes DEF TypeOK
    <3>3. newest' \in Newest
      BY <2>2, <1>1 DEF TypeOK, ReceiveScan, Times, Newest
    <3>4. QED
      BY <3>2, <3>3
  <2>3. QED
    BY <2>1, <2>2
<1>4. QED
  BY <1>2, <1>3 DEF TypeOK, ReceiveScan, syncVars, imuVars, txVars

LEMMA ReceiveImuType ==
  ASSUME NEW t \in ImuStamps, TypeOK, ReceiveImu(t)
  PROVE  TypeOK'
<1>1. sent' \in Sensors
  <2>1. /\ sent \in Sensors
        /\ sent.imu[t] < ImuCopies /\ sent' = [sent EXCEPT !.imu[t] = @ + 1]
    BY DEF TypeOK, ReceiveImu, Sensors
  <2>2. sent.imu \in [ImuStamps -> 0..ImuCopies] /\ sent.imu[t] \in 0..ImuCopies
    BY <2>1 DEF Sensors
  <2>3. sent.imu[t] + 1 \in 0..ImuCopies
    BY <2>1, <2>2, ParameterTypes
  <2>4. QED
    BY <2>1, <2>2, <2>3 DEF Sensors
<1>2. CASE newest.imu > 0 /\ t < newest.imu /\ ~AcceptOutOfOrder
  <2>1. UNCHANGED <<imu_buffer, newest, prop, hist>>
    BY <1>2 DEF ReceiveImu
  <2>2. QED
    BY <1>1, <2>1 DEF TypeOK, ReceiveImu, syncVars, imuVars, txVars
<1>3. CASE ~(newest.imu > 0 /\ t < newest.imu /\ ~AcceptOutOfOrder)
  <2> DEFINE arrived == Append(imu_buffer, t)
  <2>0. imu_buffer \in Seq(ImuStamps)
    BY DEF TypeOK
  <2>1. arrived \in Seq(ImuStamps) /\ arrived # <<>>
    BY <2>0, AppendProperties
  <2>2. imu_buffer' = KeepNewest(arrived, MaxImu)
    BY <1>3 DEF ReceiveImu
  <2>3. imu_buffer' \in Seq(ImuStamps)
    BY <2>1, <2>2, KeepNewestType, ParameterTypes
  <2>4. newest' \in Newest
    BY <1>3, ParameterTypes DEF TypeOK, ReceiveImu, Times, Newest
  <2>6. hist' \in History
    BY DEF TypeOK, ReceiveImu
  <2>7. prop' \in PropState
    <3> DEFINE kept == KeepNewest(Append(prop.buf, t), MaxPropImu)
    <3>1. kept \in Seq(ImuStamps)
      BY KeepNewestType, AppendProperties, ParameterTypes DEF TypeOK, PropState
    <3>2. prop' = IF ~ImuPropEnable THEN prop
                  ELSE [prop EXCEPT !.buf = IF need_init THEN @ ELSE kept,
                                    !.newest = t, !.new = TRUE]
      BY <1>3 DEF ReceiveImu, BufferPropImu
    <3> HIDE DEF kept
    <3>3. QED
      BY <3>1, <3>2, ParameterTypes DEF TypeOK, Times, PropState
  <2>8. QED
    BY <1>1, <2>3, <2>4, <2>6, <2>7 DEF TypeOK, ReceiveImu, syncVars, imuVars, txVars
<1>4. QED
  BY <1>2, <1>3

LEMMA ReceiveImgType ==
  ASSUME NEW t \in ImgStamps, TypeOK, ReceiveImg(t)
  PROVE  TypeOK'
<1>1. sent' \in Sensors
  BY DEF TypeOK, ReceiveImg, Sensors
<1>2. CASE t \in Elements(img_buffer)
  BY <1>1, <1>2 DEF TypeOK, ReceiveImg, syncVars, imuVars, txVars
<1>3. CASE t \notin Elements(img_buffer)
  <2>1. img_buffer' \in Seq(ImgStamps)
    <3>1. img_buffer' = KeepNewest(Insert(img_buffer, t), MaxImg)
      BY <1>3 DEF ReceiveImg
    <3>2. Insert(img_buffer, t) \in Seq(ImgStamps)
      BY InsertType, ParameterTypes DEF TypeOK
    <3>3. QED
      BY <3>1, <3>2, KeepNewestType, ParameterTypes
  <2>2. newest' \in Newest
    BY <1>3, ParameterTypes DEF TypeOK, ReceiveImg, Times, Newest
  <2>3. hist' \in History
    <3>1. hist' = IF t < newest.img THEN [hist EXCEPT !.late = @ \cup {t}] ELSE hist
      BY <1>3 DEF ReceiveImg
    <3>2. QED
      BY <3>1 DEF TypeOK, History
  <2>4. QED
    BY <1>1, <2>1, <2>2, <2>3 DEF TypeOK, ReceiveImg, syncVars, imuVars, txVars
<1>4. QED
  BY <1>2, <1>3

\* What sync_packages computes on opening a scan.
LEMMA OpenedTypes ==
  ASSUME TypeOK, lidar_pushed \/ lid_buffer # <<>>
  PROVE  /\ Opened \in Scan /\ OpenedClock \in Times /\ OpenedCore \in Core
         /\ OpenedLife \in Lifecycle
         /\ FreshImages \in Seq(ImgStamps) /\ EventTime \in Nat
<1>1. Opened \in Scan
  BY HeadTailProperties DEF TypeOK, Opened
<1>2. OpenedClock \in Times
  BY <1>1 DEF TypeOK, OpenedClock, Scan, Times
<1>3. OpenedCore \in Core
  BY <1>1 DEF TypeOK, OpenedCore, Core, Scan
<1>4. OpenedLife \in Lifecycle
  BY <1>1, <1>2 DEF TypeOK, OpenedLife, Lifecycle, Scan
<1>5. FreshImages \in Seq(ImgStamps)
  <2>1. OpenedClock - 1 \in Int
    BY <1>2 DEF Times, Unset
  <2>2. QED
    BY <2>1, PopUptoType, ParameterTypes DEF TypeOK, FreshImages
<1>6. EventTime \in Nat
  <2>1. CASE ImageInsideScan
    <3>1. FreshImages # <<>>
      BY <2>1 DEF ImageInsideScan
    <3>2. Head(FreshImages) \in ImgStamps
      BY <1>5, <3>1, HeadTailProperties
    <3>3. QED
      BY <2>1, <3>2, ParameterTypes DEF EventTime
  <2>2. CASE ~ImageInsideScan
    BY <2>2, <1>1 DEF EventTime, Scan
  <2>3. QED
    BY <2>1, <2>2
<1>7. QED
  BY <1>1, <1>2, <1>3, <1>4, <1>5, <1>6

LEMMA ThrowType == TypeOK /\ Throw => TypeOK'
BY DEF TypeOK, Throw, sensorVars, bufferVars, syncVars, imuVars, txVars

LEMMA ThrowInv == Inv /\ Throw => Inv'
BY ThrowType DEF Inv, Throw, OpenScanBuffered, TransactionInv, CoreInv, EventInv,
   bufferVars, syncVars, imuVars, txVars

\* A wait keeps the opened scan.
LEMMA SyncWaitType ==
  ASSUME TypeOK, lidar_pushed \/ lid_buffer # <<>>,
         NEW buf \in Seq(ImuStamps), SyncWait(buf),
         UNCHANGED <<sensorVars, newest, imuVars, working, before, accepted, pending_odom,
                     last_odom, map_inited, prop, hist>>
  PROVE  TypeOK'
<1>1. /\ scan' \in Scan /\ clock' \in Times /\ core' \in Core /\ life' \in Lifecycle
      /\ img_buffer' \in Seq(ImgStamps) /\ imu_buffer' \in Seq(ImuStamps)
      /\ lidar_pushed' \in BOOLEAN
  BY OpenedTypes DEF SyncWait, OpenScan
<1>2. UNCHANGED <<pc, lid_buffer, event>>
  BY DEF SyncWait
<1>3. QED
  BY <1>1, <1>2 DEF TypeOK, sensorVars, imuVars

\* A dispatch adds the event, whose samples are ordered around its time.
LEMMA DispatchType ==
  ASSUME TypeOK, ~BeginThrows, lidar_pushed \/ lid_buffer # <<>>,
         need_init \/ EventTime >= OpenedCore.cov,
         NEW buf \in Seq(ImuStamps), need_init \/ View(buf, OpenedCore, EventTime).ready,
         DispatchVIO(buf) \/ (DispatchLIO(buf) /\ lid_buffer # <<>>),
         UNCHANGED <<sensorVars, newest, imuVars, working, before, accepted, pending_odom,
                     last_odom, map_inited, prop, hist>>
  PROVE  /\ TypeOK' /\ EventInv'
         /\ event'.time = EventTime /\ clock' = OpenedClock /\ core' = OpenedCore
         /\ pc' \in {"imu", "dead"}
<1>1. /\ Opened \in Scan /\ OpenedClock \in Times /\ OpenedCore \in Core
      /\ OpenedLife \in Lifecycle
      /\ FreshImages \in Seq(ImgStamps) /\ EventTime \in Nat
  BY OpenedTypes
<1>2. OpenedClock \in Int
  BY <1>1 DEF Times, Unset
<1>3. CASE DispatchVIO(buf)
  <2> DEFINE imu == View(buf, OpenedCore, EventTime).imu
  <2>1. ~need_init /\ FreshImages # <<>>
    BY <1>3 DEF DispatchVIO, ImageInsideScan
  <2>2. /\ imu \in Seq(ImuStamps)
        /\ \A i \in 1..Len(imu) : i < Len(imu) => imu[i] <= EventTime
    BY <2>1, <1>1, ViewProperties, ParameterTypes
  <2> HIDE DEF imu
  <2>3. /\ event' = [kind |-> "VIO", time |-> EventTime, imu |-> imu]
        /\ pc' \in {"imu", "dead"} /\ UNCHANGED <<lid_buffer, need_init>>
        /\ clock' = OpenedClock /\ core' = OpenedCore /\ scan' = Opened
        /\ lidar_pushed' = TRUE
        /\ img_buffer' = Tail(FreshImages) /\ imu_buffer' = buf
        /\ life' = [OpenedLife EXCEPT !.last_t = IF EventTime > @ THEN EventTime ELSE @]
    BY <1>3 DEF DispatchVIO, OpenScan, imu, imuVars
  <2>4. event' \in Events
    BY <2>2, <2>3, <1>1 DEF Events
  <2>5. life' \in Lifecycle
    BY <2>3, <1>1 DEF Lifecycle, Times
  <2>6. img_buffer' \in Seq(ImgStamps)
    BY <2>1, <2>3, <1>1, HeadTailProperties
  <2>7. TypeOK'
    BY <2>3, <2>4, <2>5, <2>6, <1>1 DEF TypeOK, sensorVars, imuVars
  <2>8. EventInv'
    BY <2>1, <2>2, <2>3 DEF EventInv
  <2>9. QED
    BY <2>3, <2>7, <2>8
<1>4. CASE DispatchLIO(buf) /\ lid_buffer # <<>>
  <2> DEFINE imu == IF need_init THEN Drain(buf, EventTime)
                    ELSE View(buf, OpenedCore, EventTime).imu
             rest == IF need_init THEN PopUpto(buf, EventTime) ELSE buf
  <2>1. /\ imu \in Seq(ImuStamps)
        /\ \A i \in 1..Len(imu) : need_init \/ i < Len(imu) => imu[i] <= EventTime
    <3>1. CASE need_init
      BY <3>1, <1>1, <1>2, DrainProperties, ParameterTypes
    <3>2. CASE ~need_init
      BY <3>2, <1>1, ViewProperties, ParameterTypes
    <3>3. QED
      BY <3>1, <3>2
  <2>2. rest \in Seq(ImuStamps)
    <3>1. EventTime \in Int
      BY <1>1
    <3>2. PopUpto(buf, EventTime) \in Seq(ImuStamps)
      BY <3>1, PopUptoType, ParameterTypes
    <3>3. QED
      BY <3>2
  <2> HIDE DEF imu, rest
  <2>3. /\ event' = [kind |-> "LIO", time |-> EventTime, imu |-> imu]
        /\ pc' = "imu" /\ UNCHANGED need_init
        /\ clock' = OpenedClock /\ core' = OpenedCore /\ scan' = Opened
        /\ lidar_pushed' = FALSE /\ lid_buffer' = Tail(lid_buffer)
        /\ img_buffer' = FreshImages /\ imu_buffer' = rest /\ life' = OpenedLife
    BY <1>4 DEF DispatchLIO, OpenScan, imu, rest, imuVars
  <2>4. event' \in Events
    BY <2>1, <2>3, <1>1 DEF Events
  <2>5. lid_buffer' \in Seq(Scan)
    BY <1>4, <2>3, HeadTailProperties DEF TypeOK
  <2>6. TypeOK'
    BY <2>2, <2>3, <2>4, <2>5, <1>1 DEF TypeOK, sensorVars, imuVars
  <2>7. EventInv'
    BY <2>1, <2>3 DEF EventInv
  <2>8. QED
    BY <2>3, <2>6, <2>7
<1>5. QED
  BY <1>3, <1>4

\* One call of sync_packages: an exception, a wait or a dispatch.
LEMMA SyncCases ==
  ASSUME Inv, Sync
  PROVE  \/ Throw
         \/ /\ pc = "spin"
            /\ lidar_pushed \/ lid_buffer # <<>>
            /\ UNCHANGED <<sensorVars, newest, imuVars, working, before, accepted,
                           pending_odom, last_odom, map_inited, prop, hist>>
            /\ \E buf \in Seq(ImuStamps) :
                 \/ SyncWait(buf)
                 \/ /\ ~BeginThrows
                    /\ need_init \/ EventTime >= OpenedCore.cov
                    /\ need_init \/ View(buf, OpenedCore, EventTime).ready
                    /\ DispatchVIO(buf) \/ DispatchLIO(buf)
<1>1. imu_buffer \in Seq(ImuStamps)
  BY DEF Inv, TypeOK
<1>2. pc = "spin" /\ (lidar_pushed \/ lid_buffer # <<>>)
  BY DEF Sync
<1>3. CASE BeginThrows /\ Throw
  BY <1>3
<1>4. CASE /\ ~BeginThrows /\ StreamsBehind /\ SyncWait(imu_buffer)
           /\ UNCHANGED <<sensorVars, newest, imuVars, working, before, accepted,
                          pending_odom, last_odom, map_inited, prop, hist>>
  BY <1>1, <1>2, <1>4
<1>5. CASE /\ ~BeginThrows /\ ~StreamsBehind
           /\ \E buf \in SortedForms(imu_buffer) : SyncEvent(buf)
  <2>1. PICK buf \in SortedForms(imu_buffer) : SyncEvent(buf)
    BY <1>5
  <2>2. buf \in Seq(ImuStamps)
    BY <1>1, <2>1, SortedFormsType
  <2>3. QED
    BY <1>2, <1>5, <2>1, <2>2 DEF SyncEvent
<1>6. QED
  BY <1>3, <1>4, <1>5 DEF Sync

LEMMA SyncInv == Inv /\ Sync => Inv'
<1> SUFFICES ASSUME Inv, Sync PROVE Inv'
  OBVIOUS
<1>1. TypeOK /\ TransactionInv /\ CoreInv /\ OpenScanBuffered
  BY DEF Inv
<1>2. CASE Throw
  BY <1>2, ThrowInv
<1>3. ASSUME NEW buf \in Seq(ImuStamps), lidar_pushed \/ lid_buffer # <<>>, pc = "spin",
             UNCHANGED <<sensorVars, newest, imuVars, working, before, accepted,
                         pending_odom, last_odom, map_inited, prop, hist>>,
             \/ SyncWait(buf)
             \/ /\ ~BeginThrows
                /\ need_init \/ EventTime >= OpenedCore.cov
                /\ need_init \/ View(buf, OpenedCore, EventTime).ready
                /\ DispatchVIO(buf) \/ DispatchLIO(buf)
      PROVE  Inv'
  <2>1. lid_buffer # <<>>
    BY <1>1, <1>3 DEF OpenScanBuffered
  <2>2. TypeOK' /\ EventInv' /\ clock' = OpenedClock /\ core' = OpenedCore
        /\ pc' \in {"spin", "imu", "dead"} /\ UNCHANGED <<need_init, working, pending_odom>>
    <3>1. CASE SyncWait(buf)
      <4>1. TypeOK'
        BY <1>1, <1>3, <3>1, SyncWaitType
      <4>2. clock' = OpenedClock /\ core' = OpenedCore /\ pc' = "spin"
        BY <1>3, <3>1 DEF SyncWait, OpenScan
      <4>3. QED
        BY <1>3, <4>1, <4>2 DEF EventInv, imuVars
    <3>2. CASE /\ ~BeginThrows
               /\ need_init \/ EventTime >= OpenedCore.cov
               /\ need_init \/ View(buf, OpenedCore, EventTime).ready
               /\ DispatchVIO(buf) \/ DispatchLIO(buf)
      <4>1. DispatchVIO(buf) \/ (DispatchLIO(buf) /\ lid_buffer # <<>>)
        BY <3>2, <2>1
      <4>2. /\ TypeOK' /\ EventInv' /\ clock' = OpenedClock /\ core' = OpenedCore
            /\ pc' \in {"imu", "dead"}
        BY <1>1, <1>3, <3>2, <4>1, DispatchType
      <4>3. UNCHANGED <<need_init, working, pending_odom>>
        BY <1>3 DEF imuVars
      <4>4. QED
        BY <4>2, <4>3
    <3>3. QED
      BY <1>3, <3>1, <3>2
  <2>3. ~need_init => core' = core /\ clock' = clock
    <3>1. core.cov \in Nat /\ clock \in Int
      BY <1>1 DEF TypeOK, Core, Times, Unset
    <3>2. ~need_init => core.cov > 0 /\ clock >= 0
      BY <1>1, <3>1 DEF CoreInv
    <3>3. QED
      BY <2>2, <3>1, <3>2 DEF OpenedCore, OpenedClock
  <2>4. ~working /\ pending_odom = Unset
    BY <1>1, <1>3 DEF TransactionInv
  <2>5. TransactionInv'
    BY <2>2, <2>4 DEF TransactionInv
  <2>6. CoreInv'
    BY <1>1, <2>2, <2>3 DEF CoreInv
  <2>7. OpenScanBuffered'
    BY <1>3, <2>1 DEF OpenScanBuffered, SyncWait, DispatchVIO, DispatchLIO
  <2>8. QED
    BY <2>2, <2>5, <2>6, <2>7 DEF Inv
<1>4. QED
  BY <1>2, <1>3, SyncCases

\* The sample carried over to the next interval is not after the event.
LEMMA LastSelectedBound ==
  ASSUME Inv, pc = "imu", ~need_init, event.time >= core.cov
  PROVE  LastSelected \in Nat /\ LastSelected <= event.time
<1> DEFINE imu == event.imu
           n == Len(imu)
<1>1. /\ imu \in Seq(Nat) /\ n \in Nat /\ \A i \in 1..n : imu[i] \in Nat
      /\ event.time \in Nat /\ (imu = <<>> <=> n = 0)
  <2>1. imu \in Seq(ImuStamps) /\ event.time \in Nat
    BY DEF Inv, TypeOK, Events
  <2>2. imu \in Seq(Nat) /\ n \in Nat /\ \A i \in 1..n : imu[i] \in ImuStamps
    BY <2>1, SeqOfStamps, ParameterTypes
  <2>3. imu = <<>> <=> n = 0
    BY <2>2, EmptySeq
  <2>4. QED
    BY <2>1, <2>2, <2>3, ParameterTypes
<1>2. core.carry \in Nat /\ core.carry <= event.time
  BY <1>1 DEF Inv, TypeOK, Core, CoreInv
<1>3. \A i \in 1..n : i < n => imu[i] <= event.time
  BY DEF Inv, EventInv
<1>4. <<core.carry>> \in Seq(Nat) /\ Len(<<core.carry>>) = 1 /\ <<core.carry>>[1] = core.carry
  BY <1>2
<1>5. \A i \in 1..n + 1 : Walk[i] = IF i = 1 THEN core.carry ELSE imu[i - 1]
  BY <1>1, <1>4, ConcatProperties DEF Walk
<1>6. CASE HasRight
  <2>1. n > 0 /\ NewCount = n - 1
    BY <1>1, <1>6 DEF HasRight, NewCount
  <2>2. LastSelected = Walk[n] /\ n \in 1..n + 1
    BY <1>1, <2>1 DEF LastSelected
  <2>3. LastSelected = IF n = 1 THEN core.carry ELSE imu[n - 1]
    BY <1>5, <2>2
  <2>4. n # 1 => n - 1 \in 1..n /\ n - 1 < n
    <3>1. n \in Nat /\ n > 0
      BY <1>1, <2>1
    <3> HIDE DEF n
    <3>2. QED
      BY <3>1
  <2>5. QED
    BY <1>1, <1>2, <1>3, <2>3, <2>4
<1>7. CASE ~HasRight
  <2>1. NewCount = n
    BY <1>1, <1>7 DEF NewCount
  <2>2. n # 0 => n \in 1..n /\ imu[n] \in Nat /\ imu # <<>>
    BY <1>1
  <2>3. n # 0 => imu[n] <= event.time
    BY <1>1, <1>7, <2>2 DEF HasRight
  <2>4. LastSelected = Walk[n + 1] /\ n + 1 \in 1..n + 1
    BY <1>1, <2>1 DEF LastSelected
  <2>5. LastSelected = IF n = 0 THEN core.carry ELSE imu[n]
    BY <1>1, <1>5, <2>4
  <2>6. QED
    BY <1>1, <1>2, <2>2, <2>3, <2>5
<1>8. QED
  BY <1>6, <1>7

\* Initialization counts the samples and ends on one of them.
LEMMA InitImuInv ==
  ASSUME Inv, pc = "imu", InitImu, clock' = event.time
  PROVE  /\ need_init' \in BOOLEAN /\ init_iter_num' \in Nat /\ core' \in Core
         /\ hist' \in History /\ clock' \in Nat
         /\ ~need_init' => /\ 0 < core'.cov /\ core'.state = core'.cov
                           /\ core'.carry = core'.cov /\ core'.cov <= clock'
<1> DEFINE imu == event.imu
           last == imu[Len(imu)]
<1>1. need_init /\ event.time \in Nat /\ core \in Core /\ hist \in History
  BY DEF Inv, TypeOK, Events, InitImu
<1>2. imu \in Seq(ImuStamps) /\ Len(imu) \in Nat /\ (imu = <<>> <=> Len(imu) = 0)
  BY EmptySeq DEF Inv, TypeOK, Events
<1>3. imu # <<>> => last \in Nat \ {0} /\ last <= event.time
  <2> SUFFICES ASSUME imu # <<>> PROVE last \in Nat \ {0} /\ last <= event.time
    OBVIOUS
  <2>1. Len(imu) \in 1..Len(imu)
    BY <1>2
  <2>2. last \in ImuStamps
    BY <1>2, <2>1, ElementOfSeq
  <2>3. last <= event.time
    BY <1>1, <2>1 DEF Inv, EventInv
  <2>4. QED
    BY <2>2, <2>3, StampsAssumption
<1>4. need_init' = (imu = <<>> \/ init_iter_num' < MaxIniCount)
  BY DEF InitImu
<1>5. core' = IF imu = <<>> THEN core
              ELSE [core EXCEPT !.carry = last, !.state = IF need_init' THEN @ ELSE last,
                                !.cov = IF ~need_init' THEN last
                                        ELSE IF init_iter_num = 0 THEN 0 ELSE @]
  BY DEF InitImu
<1>6. hist' = [hist EXCEPT !.ready = IF need_init' THEN @ ELSE event.time]
  BY DEF InitImu
<1>7. init_iter_num' \in Nat
  BY <1>2 DEF Inv, TypeOK, InitImu
<1> HIDE DEF imu, last
<1>8. core' \in Core /\ hist' \in History
  BY <1>1, <1>3, <1>5, <1>6 DEF Core, History, Times
<1>9. ~need_init' => /\ 0 < core'.cov /\ core'.state = core'.cov
                     /\ core'.carry = core'.cov /\ core'.cov <= clock'
  <2> SUFFICES ASSUME ~need_init'
               PROVE  /\ 0 < core'.cov /\ core'.state = core'.cov
                      /\ core'.carry = core'.cov /\ core'.cov <= clock'
    OBVIOUS
  <2>1. imu # <<>>
    BY Zenon, <1>4
  <2>2. core' = [core EXCEPT !.carry = last, !.state = last, !.cov = last]
    BY <1>5, <2>1
  <2>3. core'.cov = last /\ core'.state = last /\ core'.carry = last
    BY <1>1, <2>2 DEF Core
  <2>4. QED
    BY <1>1, <1>3, <2>1, <2>3
<1>10. QED
  BY <1>1, <1>4, <1>7, <1>8, <1>9

LEMMA NoteLioType ==
  ASSUME TypeOK, NoteLio
  PROVE  life' \in Lifecycle
<1>1. life \in Lifecycle /\ event.time \in Nat
  BY DEF TypeOK, Events
<1>2. CASE event.kind = "LIO" /\ life.active /\ life.required
  <2>1. life' = [life EXCEPT !.lio = @ + 1,
                             !.last_t = IF event.time > @ THEN event.time ELSE @]
    BY <1>2 DEF NoteLio
  <2> DEFINE t == IF event.time > life.last_t THEN event.time ELSE life.last_t
  <2>2. life.lio + 1 \in Nat /\ t \in Times
    BY <1>1 DEF Lifecycle, Times
  <2>3. life' = [life EXCEPT !.lio = life.lio + 1, !.last_t = t]
    BY <2>1
  <2> HIDE DEF t
  <2>4. QED
    BY <1>1, <2>2, <2>3 DEF Lifecycle
<1>3. CASE ~(event.kind = "LIO" /\ life.active /\ life.required)
  BY <1>1, <1>3 DEF NoteLio
<1>4. QED
  BY <1>2, <1>3

LEMMA ProcessImuInv == Inv /\ ProcessImu => Inv'
<1> SUFFICES ASSUME Inv, ProcessImu PROVE Inv'
  OBVIOUS
<1>1. CASE Throw
  BY <1>1, ThrowInv
<1>2. ASSUME event.time >= clock, ~PredictionThrows,
             InitImu \/ Propagate, clock' = event.time, NoteLio, pc' = "estimate",
             UNCHANGED <<sensorVars, bufferVars, lidar_pushed, scan, event,
                         accepted, pending_odom, last_odom, map_inited, prop>>
      PROVE  Inv'
  <2>1. pc = "imu" /\ TypeOK /\ ~working /\ pending_odom = Unset
    BY DEF ProcessImu, Inv, TransactionInv
  <2>2. life' \in Lifecycle /\ event.time \in Nat /\ core \in Core
    BY <1>2, <2>1, NoteLioType DEF TypeOK, Events
  <2>3. EventInv' /\ OpenScanBuffered'
    BY <1>2 DEF EventInv, Inv, OpenScanBuffered, bufferVars
  <2>4. CASE InitImu
    <3>1. need_init /\ ~working' /\ UNCHANGED <<working, before>>
      BY <2>1, <2>4 DEF InitImu
    <3>2. /\ need_init' \in BOOLEAN /\ init_iter_num' \in Nat /\ core' \in Core
          /\ hist' \in History /\ clock' \in Nat
          /\ ~need_init' => /\ 0 < core'.cov /\ core'.state = core'.cov
                            /\ core'.carry = core'.cov /\ core'.cov <= clock'
      BY <1>2, <2>1, <2>4, InitImuInv
    <3>3. TypeOK'
      BY <1>2, <2>1, <2>2, <3>1, <3>2 DEF TypeOK, sensorVars, bufferVars, Times
    <3>4. event.kind = "LIO" /\ event'.kind = "LIO"
      BY <1>2, <2>1, <3>1 DEF Inv, TypeOK, Events, EventInv
    <3>5. TransactionInv'
      BY <1>2, <2>1, <3>1, <3>4 DEF TransactionInv
    <3>6. CoreInv'
      BY <3>2 DEF CoreInv, Core
    <3>7. QED
      BY <2>3, <3>3, <3>5, <3>6 DEF Inv
  <2>5. CASE Propagate
    <3>1. /\ ~need_init /\ ~need_init' /\ working' = TRUE /\ before' = core
          /\ core' = Propagated /\ UNCHANGED <<imuVars, hist>>
      BY <2>5 DEF Propagate, imuVars
    <3>2. event.time >= core.cov
      BY <1>2, <2>2, <3>1 DEF PredictionThrows, PropagationThrows, Core
    <3>3. LastSelected \in Nat /\ LastSelected <= event.time
      BY <2>1, <3>1, <3>2, LastSelectedBound
    <3>4. CoverageComplete \in BOOLEAN
      BY DEF CoverageComplete
    <3>5. /\ core' \in Core /\ core'.state = event.time /\ core'.cov = event.time
          /\ core'.carry = LastSelected
      BY <2>2, <3>1, <3>3, <3>4 DEF Propagated, Core
    <3>6. TypeOK'
      BY <1>2, <2>1, <2>2, <3>1, <3>5 DEF TypeOK, sensorVars, bufferVars, imuVars, Times
    <3>7. 0 < core.cov /\ core.state = core.cov /\ core.carry <= core.cov
      BY <3>1 DEF Inv, CoreInv
    <3>8. TransactionInv'
      BY <1>2, <2>1, <2>2, <3>1, <3>2, <3>5, <3>7 DEF TransactionInv
    <3>9. CoreInv'
      BY <1>2, <2>2, <3>2, <3>3, <3>5, <3>7 DEF CoreInv, Core
    <3>10. QED
      BY <2>3, <3>6, <3>8, <3>9 DEF Inv
  <2>6. QED
    BY <1>2, <2>4, <2>5
<1>3. QED
  BY <1>1, <1>2 DEF ProcessImu

LEMMA HandoffType ==
  ASSUME TypeOK, Handoff
  PROVE  prop' \in PropState
<1>1. prop \in PropState /\ clock \in Times /\ core.state \in Nat
  BY DEF TypeOK, Core
<1>2. prop' = IF ImuPropEnable
              THEN [prop EXCEPT !.once = TRUE, !.latest = clock, !.at = core.state,
                                !.update = TRUE]
              ELSE prop
  BY DEF Handoff
<1>3. QED
  BY <1>1, <1>2 DEF PropState

\* Inside a transaction a pose is only remembered.
LEMMA PublishWorking ==
  ASSUME PublishOdometry, working = TRUE
  PROVE  pending_odom' = clock /\ last_odom' = last_odom
BY DEF PublishOdometry

LEMMA HandleVIOInv ==
  ASSUME Inv, NEW outcome \in VioOutcomes, HandleVIO(outcome)
  PROVE  Inv' /\ last_odom' = last_odom
<1>1. CASE Throw
  BY <1>1, ThrowInv DEF Throw, txVars
<1>2. ASSUME accepted' = (outcome = "accepted"),
             \/ UNCHANGED <<pending_odom, last_odom, prop>>
             \/ PublishOdometry /\ Handoff,
             pc' = "finish",
             UNCHANGED <<sensorVars, bufferVars, syncVars, imuVars, core, working,
                         before, map_inited, life, hist>>
      PROVE  Inv' /\ last_odom' = last_odom
  <2>1. TypeOK /\ pc = "estimate" /\ event.kind = "VIO" /\ working = TRUE
    BY DEF HandleVIO, Inv, TransactionInv, TypeOK
  <2>2. prop' \in PropState
    BY <1>2, <2>1, HandoffType DEF TypeOK
  <2>3. last_odom' = last_odom /\ pending_odom' \in {pending_odom, clock}
    BY <1>2, <2>1, PublishWorking
  <2>4. TypeOK'
    BY <1>2, <2>1, <2>2, <2>3
    DEF TypeOK, sensorVars, bufferVars, syncVars, imuVars
  <2>5. TransactionInv'
    BY <1>2, <2>1, <2>3 DEF Inv, TransactionInv, syncVars, imuVars
  <2>6. OpenScanBuffered' /\ CoreInv' /\ EventInv'
    BY <1>2 DEF Inv, OpenScanBuffered, CoreInv, EventInv, syncVars, imuVars, bufferVars
  <2>7. QED
    BY <2>3, <2>4, <2>5, <2>6 DEF Inv
<1>3. QED
  BY <1>1, <1>2 DEF HandleVIO

LEMMA HandleLIOInv ==
  ASSUME Inv, NEW outcome \in LioOutcomes, NEW insert \in BOOLEAN,
         HandleLIO(outcome, insert)
  PROVE  Inv' /\ last_odom' = last_odom
<1>1. CASE Throw
  BY <1>1, ThrowInv DEF Throw, txVars
<1>2. ASSUME life' = [life EXCEPT !.ins = IF MapNoted(outcome, insert) THEN @ + 1 ELSE @],
             IF outcome = "no_points"
             THEN UNCHANGED <<accepted, map_inited, pending_odom, last_odom, prop>>
             ELSE /\ accepted' = (outcome = "accepted") /\ map_inited' = TRUE
                  /\ PublishOdometry /\ Handoff,
             pc' = "finish",
             UNCHANGED <<sensorVars, bufferVars, syncVars, imuVars, core, working,
                         before, hist>>
      PROVE  Inv' /\ last_odom' = last_odom
  <2>1. TypeOK /\ pc = "estimate" /\ event.kind = "LIO"
    BY DEF HandleLIO, Inv
  <2>2. working \/ outcome = "no_points"
    BY DEF HandleLIO
  <2>3. life' \in Lifecycle
    BY SMTT(30), <1>2, <2>1 DEF TypeOK, Lifecycle
  <2>4. /\ accepted' \in BOOLEAN /\ map_inited' \in BOOLEAN /\ prop' \in PropState
        /\ last_odom' = last_odom
        /\ pending_odom' = pending_odom \/ (working /\ pending_odom' = clock)
    <3>1. CASE outcome = "no_points"
      BY <1>2, <2>1, <3>1 DEF TypeOK
    <3>2. CASE outcome # "no_points"
      <4>1. working = TRUE /\ PublishOdometry /\ Handoff
        BY <1>2, <2>1, <2>2, <3>2 DEF TypeOK
      <4>2. QED
        BY <1>2, <2>1, <3>2, <4>1, PublishWorking, HandoffType
    <3>3. QED
      BY <3>1, <3>2
  <2>5. TypeOK'
    BY <1>2, <2>1, <2>3, <2>4 DEF TypeOK, sensorVars, bufferVars, syncVars, imuVars
  <2>6. TransactionInv'
    BY <1>2, <2>1, <2>4 DEF Inv, TransactionInv, syncVars, imuVars
  <2>7. OpenScanBuffered' /\ CoreInv' /\ EventInv'
    BY <1>2 DEF Inv, OpenScanBuffered, CoreInv, EventInv, syncVars, imuVars, bufferVars
  <2>8. QED
    BY <2>4, <2>5, <2>6, <2>7 DEF Inv
<1>3. QED
  BY <1>1, <1>2 DEF HandleLIO

\* The end of a transaction: what becomes of the core and of the odometry.
LEMMA FinishCases ==
  ASSUME Inv, Finish
  PROVE  \/ Throw
         \/ /\ working' = FALSE /\ before' = NoCore /\ pending_odom' = Unset
            /\ prop' = Renewed /\ pc = "finish" /\ pc' = "spin"
            /\ UNCHANGED <<sensorVars, lid_buffer, img_buffer, newest, syncVars,
                           imuVars, accepted, map_inited, life, hist>>
            /\ \/ core' = core /\ (working => Persistent)
               \/ working /\ ~Persistent /\ core' = before
            /\ imu_buffer' \in {imu_buffer, PopUpto(imu_buffer, core.cov)}
            /\ \/ last_odom' = last_odom
               \/ /\ working /\ Persistent /\ core' = core /\ pending_odom # Unset
                  /\ last_odom' = clock /\ last_odom' > last_odom
<1>1. CASE CommitThrows /\ Throw
  BY <1>1
<1>2. CASE ~(CommitThrows /\ Throw)
  <2>1. /\ working' = FALSE /\ before' = NoCore /\ pending_odom' = Unset
        /\ prop' = Renewed /\ pc = "finish" /\ pc' = "spin"
        /\ UNCHANGED <<sensorVars, lid_buffer, img_buffer, newest, syncVars,
                       imuVars, accepted, map_inited, life, hist>>
        /\ \/ working /\ Persistent /\ Commit
           \/ working /\ ~Persistent /\ Rollback
           \/ ~working /\ UNCHANGED <<core, imu_buffer, last_odom>>
    BY <1>2 DEF Finish
  <2>2. CASE working /\ Persistent /\ Commit
    <3>1. /\ core' = core /\ imu_buffer' = PopUpto(imu_buffer, core.cov)
          /\ last_odom' = IF pending_odom = Unset THEN last_odom ELSE Published(pending_odom)
      BY <2>2 DEF Commit
    <3>2. pending_odom # Unset => pending_odom = clock
      BY DEF Inv, TransactionInv
    <3>3. QED
      BY <2>1, <2>2, <3>1, <3>2 DEF Published
  <2>3. CASE working /\ ~Persistent /\ Rollback
    BY <2>1, <2>3 DEF Rollback
  <2>4. CASE ~working /\ UNCHANGED <<core, imu_buffer, last_odom>>
    BY <2>1, <2>4
  <2>5. QED
    BY <2>1, <2>2, <2>3, <2>4
<1>3. QED
  BY <1>1, <1>2

LEMMA FinishInv == Inv /\ Finish => Inv'
<1> SUFFICES ASSUME Inv, Finish PROVE Inv'
  OBVIOUS
<1>1. CASE Throw
  BY <1>1, ThrowInv
<1>2. ASSUME working' = FALSE, before' = NoCore, pending_odom' = Unset,
             prop' = Renewed, pc = "finish", pc' = "spin",
             UNCHANGED <<sensorVars, lid_buffer, img_buffer, newest, syncVars,
                         imuVars, accepted, map_inited, life, hist>>,
             core' = core \/ (working /\ ~Persistent /\ core' = before),
             imu_buffer' \in {imu_buffer, PopUpto(imu_buffer, core.cov)},
             \/ last_odom' = last_odom
             \/ /\ working /\ Persistent /\ core' = core /\ pending_odom # Unset
                /\ last_odom' = clock /\ last_odom' > last_odom
      PROVE  Inv'
  <2>1. TypeOK /\ core' \in Core /\ before' \in Core
    BY <1>2 DEF Inv, TypeOK, NoCore, Core
  <2>2. imu_buffer' \in Seq(ImuStamps)
    <3>1. imu_buffer \in Seq(ImuStamps) /\ core.cov \in Int
      BY <2>1 DEF TypeOK, Core
    <3>2. PopUpto(imu_buffer, core.cov) \in Seq(ImuStamps)
      BY <3>1, PopUptoType, ParameterTypes
    <3>3. QED
      BY <1>2, <3>1, <3>2
  <2>3. prop' \in PropState
    BY <1>2, <2>1 DEF TypeOK, Renewed, PropState, Core
  <2>4. last_odom' \in Times /\ pending_odom' \in Times
    BY <1>2, <2>1 DEF TypeOK, Times
  <2>5. TypeOK'
    BY <1>2, <2>1, <2>2, <2>3, <2>4 DEF TypeOK, sensorVars, syncVars, imuVars
  <2>6. TransactionInv'
    BY <1>2 DEF TransactionInv
  <2>7. CoreInv'
    <3>1. CASE core' = core
      BY <1>2, <3>1 DEF Inv, CoreInv, imuVars, syncVars
    <3>2. CASE working /\ core' = before
      <4>1. /\ ~need_init => /\ 0 < before.cov /\ before.state = before.cov
                             /\ before.carry <= before.cov /\ before.cov <= core.cov
            /\ core.cov = clock
        BY <3>2 DEF Inv, TransactionInv
      <4>2. QED
        BY <1>2, <3>2, <4>1 DEF CoreInv, imuVars, syncVars
    <3>3. QED
      BY <1>2, <3>1, <3>2
  <2>8. OpenScanBuffered' /\ EventInv'
    BY <1>2 DEF Inv, OpenScanBuffered, EventInv, syncVars
  <2>9. QED
    BY <2>5, <2>6, <2>7, <2>8 DEF Inv
<1>3. QED
  BY <1>1, <1>2, FinishCases

LEMMA ImuPropTimerType == TypeOK /\ ImuPropTimer => TypeOK'
<1> SUFFICES ASSUME TypeOK, ImuPropTimer PROVE TypeOK'
  OBVIOUS
<1>1. prop \in PropState /\ prop.buf \in Seq(ImuStamps) /\ prop.latest - 1 \in Int
      /\ prop.latest \in Times /\ prop.newest \in Times
  BY DEF TypeOK, PropState, Times, Unset
<1>2. CASE prop.buf = <<>>
  <2>1. prop' = [prop EXCEPT !.new = FALSE]
    BY <1>2 DEF ImuPropTimer
  <2>2. prop' \in PropState
    BY <1>1, <2>1 DEF PropState
  <2>3. QED
    BY <2>2 DEF TypeOK, ImuPropTimer, sensorVars, bufferVars, syncVars, imuVars, txVars
<1>3. CASE prop.buf # <<>>
  <2> DEFINE Used(buf) == PopUpto(buf, prop.latest - 1)
             Reached(buf) == IF Used(buf) = <<>> THEN prop.latest
                             ELSE Used(buf)[Len(Used(buf))]
  <2>1. PICK buf \in SortedForms(prop.buf) :
          prop' = IF prop.update
                  THEN [prop EXCEPT !.new = FALSE, !.update = FALSE, !.buf = Used(buf),
                                    !.reached = Reached(buf)]
                  ELSE [prop EXCEPT !.new = FALSE, !.buf = buf, !.reached = prop.newest]
    BY <1>3 DEF ImuPropTimer
  <2>2. buf \in Seq(ImuStamps)
    BY <1>1, <2>1, SortedFormsType
  <2>3. Used(buf) \in Seq(ImuStamps)
    BY <1>1, <2>2, PopUptoType, ParameterTypes
  <2> HIDE DEF Used
  <2>4. Reached(buf) \in Times
    <3>1. CASE Used(buf) = <<>>
      BY <1>1, <3>1
    <3>2. CASE Used(buf) # <<>>
      <4>1. Len(Used(buf)) \in 1..Len(Used(buf))
        BY <2>3, <3>2, EmptySeq
      <4>2. Used(buf)[Len(Used(buf))] \in ImuStamps
        BY <2>3, <4>1, ElementOfSeq
      <4>3. QED
        BY <3>2, <4>2, ParameterTypes DEF Times
    <3>3. QED
      BY <3>1, <3>2
  <2> HIDE DEF Reached
  <2>5. prop' \in PropState
    BY <1>1, <2>1, <2>2, <2>3, <2>4 DEF PropState
  <2>6. QED
    BY <2>5 DEF TypeOK, ImuPropTimer, sensorVars, bufferVars, syncVars, imuVars, txVars
<1>4. QED
  BY <1>2, <1>3

-----------------------------------------------------------------------------
(* The inductive invariant holds.                                          *)

\* The sensors and the timer leave everything of the transaction alone, and a
\* buffer that has received a scan holds one.
LEMMA CallbackInv ==
  ASSUME Inv, ReceiveScan \/ ReceiveAnyImu \/ ReceiveAnyImg \/ ImuPropTimer
  PROVE  Inv' /\ UNCHANGED <<need_init, core, working, before, last_odom>>
<1>1. TypeOK'
  BY ReceiveScanType, ReceiveImuType, ReceiveImgType, ImuPropTimerType
  DEF Inv, ReceiveAnyImu, ReceiveAnyImg
<1>2. UNCHANGED <<pc, syncVars, imuVars, txVars>>
  BY DEF ReceiveScan, ReceiveAnyImu, ReceiveImu, ReceiveAnyImg, ReceiveImg, ImuPropTimer
<1>3. lid_buffer # <<>> => lid_buffer' # <<>>
  <2>1. CASE ReceiveScan
    <3> DEFINE s == Scans[sent.lid + 1]
    <3>1. s \in Scan
      <4>1. sent.lid \in 0..Len(Scans) /\ sent.lid < Len(Scans)
        BY <2>1 DEF Inv, TypeOK, Sensors, ReceiveScan
      <4>2. sent.lid + 1 \in 1..Len(Scans)
        BY <4>1, ParameterTypes
      <4>3. QED
        BY <4>2, ParameterTypes, ElementOfSeq
    <3>2. KeepNewest(Append(lid_buffer, s), MaxLidar) # <<>>
      BY <3>1, KeepNewestNonempty, ParameterTypes DEF Inv, TypeOK
    <3>3. QED
      BY <2>1, <3>2 DEF ReceiveScan
  <2>2. CASE ReceiveAnyImu \/ ReceiveAnyImg \/ ImuPropTimer
    BY <2>2 DEF ReceiveAnyImu, ReceiveImu, ReceiveAnyImg, ReceiveImg, ImuPropTimer,
                bufferVars
  <2>3. QED
    BY <2>1, <2>2
<1>4. OpenScanBuffered' /\ TransactionInv' /\ CoreInv' /\ EventInv'
  BY <1>2, <1>3 DEF Inv, OpenScanBuffered, TransactionInv, CoreInv, EventInv,
                    syncVars, imuVars, txVars
<1>5. QED
  BY <1>1, <1>2, <1>4 DEF Inv, imuVars, txVars

LEMMA InitInv == Init => Inv
BY InitType DEF Init, Inv, OpenScanBuffered, TransactionInv, CoreInv, EventInv

LEMMA NextInv == Inv /\ [Next]_vars => Inv'
<1> SUFFICES ASSUME Inv, [Next]_vars PROVE Inv'
  OBVIOUS
<1>1. CASE ReceiveScan \/ ReceiveAnyImu \/ ReceiveAnyImg \/ ImuPropTimer
  BY <1>1, CallbackInv
<1>2. CASE Sync
  BY <1>2, SyncInv
<1>3. CASE ProcessImu
  BY <1>3, ProcessImuInv
<1>4. CASE \E outcome \in VioOutcomes : HandleVIO(outcome)
  BY <1>4, HandleVIOInv
<1>5. CASE \E outcome \in LioOutcomes, insert \in BOOLEAN : HandleLIO(outcome, insert)
  BY <1>5, HandleLIOInv
<1>6. CASE Finish
  BY <1>6, FinishInv
<1>7. CASE UNCHANGED vars
  BY <1>7 DEF vars, sensorVars, bufferVars, syncVars, imuVars, txVars, Inv, TypeOK,
              OpenScanBuffered, TransactionInv, CoreInv, EventInv
<1>8. QED
  BY <1>1, <1>2, <1>3, <1>4, <1>5, <1>6, <1>7 DEF Next, Step

\* The inductive invariant is an invariant of the specification.
LEMMA InvHolds == Spec => []Inv
BY InitInv, NextInv, PTL DEF Spec

-----------------------------------------------------------------------------
(* The theorems.                                                           *)

\* Every variable keeps its type, whatever the sensors send.
THEOREM TypeCorrect == Spec => []TypeOK
<1>1. Inv => TypeOK
  BY DEF Inv
<1>2. QED
  BY <1>1, InvHolds, PTL

\* sync_packages never pops a scan from an empty LiDAR buffer, whatever the
\* capacity and whatever arrives while the scan is open.
THEOREM ScanStaysBuffered == Spec => []OpenScanBuffered
<1>1. Inv => OpenScanBuffered
  BY DEF Inv
<1>2. QED
  BY <1>1, InvHolds, PTL

\* Between events the state, the IMU propagation and the carried sample of
\* the core belong to one commit, whichever queries were rolled back.
THEOREM CoreIsAtomic == Spec => []AtomicCore
<1>1. Inv => AtomicCore
  BY DEF Inv, AtomicCore, AtRest, TransactionInv, CoreInv
<1>2. QED
  BY <1>1, InvHolds, PTL

\* A step publishes odometry only by committing the core it shows.
LEMMA OdometryStep ==
  Inv /\ [Next]_vars =>
    [last_odom' # last_odom =>
       /\ last_odom' > last_odom
       /\ pc' = "spin" /\ last_odom' = core'.cov /\ last_odom' = core'.state]_vars
<1> SUFFICES ASSUME Inv, Next, last_odom' # last_odom
             PROVE  /\ last_odom' > last_odom /\ pc' = "spin"
                    /\ last_odom' = core'.cov /\ last_odom' = core'.state
  BY DEF vars, txVars
<1>1. Finish
  <2>1. ~(ReceiveScan \/ ReceiveAnyImu \/ ReceiveAnyImg \/ ImuPropTimer)
    BY CallbackInv
  <2>2. ~Sync
    BY SyncCases DEF Throw, txVars
  <2>3. ~ProcessImu
    BY DEF ProcessImu, Throw, txVars
  <2>4. ~ \E outcome \in VioOutcomes : HandleVIO(outcome)
    BY HandleVIOInv
  <2>5. ~ \E outcome \in LioOutcomes, insert \in BOOLEAN : HandleLIO(outcome, insert)
    BY HandleLIOInv
  <2>6. QED
    BY <2>1, <2>2, <2>3, <2>4, <2>5 DEF Next, Step
<1>2. /\ working /\ core' = core /\ pc' = "spin"
      /\ last_odom' = clock /\ last_odom' > last_odom
  BY <1>1, FinishCases DEF Throw, txVars
<1>3. core.cov = clock /\ core.state = core.cov
  BY <1>2 DEF Inv, TransactionInv, CoreInv
<1>4. QED
  BY <1>2, <1>3

\* The raw odometry stream never shows a working query: each pose is the core
\* of the commit that publishes it, and the stamps increase.
THEOREM OdometryOfCommits == Spec => OdometryIsCommitted
BY InvHolds, OdometryStep, PTL DEF Spec, OdometryIsCommitted

-----------------------------------------------------------------------------
(* The estimator implements EstimatorCommits.                              *)

\* What the abstract state is made of.
Abstract == <<need_init, PersistentCore.state, PersistentCore.cov, last_odom>>

AbstractStep == [Commits!Start \/ Commits!Commit]_Commits!vars

LEMMA AbstractStutter == UNCHANGED Abstract => AbstractStep
BY DEF Abstract, AbstractStep, Commits!vars

LEMMA ThrowRefines == Throw => AbstractStep
BY AbstractStutter DEF Throw, Abstract, PersistentCore, imuVars, txVars

LEMMA SyncRefines == Inv /\ Sync => AbstractStep
<1> SUFFICES ASSUME Inv, Sync, ~Throw PROVE AbstractStep
  BY ThrowRefines
<1>1. /\ UNCHANGED <<need_init, working, last_odom>>
      /\ lidar_pushed \/ lid_buffer # <<>>
      /\ core' = OpenedCore /\ ~working
  BY SyncCases DEF imuVars, SyncWait, DispatchVIO, DispatchLIO, OpenScan, Inv, TransactionInv
<1>2. core \in Core
  BY DEF Inv, TypeOK
<1>3. CASE ~need_init
  <2>1. core.cov > 0
    BY <1>3 DEF Inv, CoreInv
  <2>2. core' = core
    BY <1>1, <2>1 DEF OpenedCore
  <2>3. QED
    BY <1>1, <2>2, AbstractStutter DEF Abstract, PersistentCore
<1>4. CASE need_init
  <2>1. core'.state = core.state
    BY <1>1, <1>2 DEF OpenedCore, Core
  <2>2. QED
    BY <1>1, <1>4, <2>1 DEF AbstractStep, Commits!vars, PersistentCore
<1>5. QED
  BY <1>3, <1>4

LEMMA ProcessImuRefines == Inv /\ ProcessImu => AbstractStep
<1> SUFFICES ASSUME Inv, ProcessImu, ~Throw PROVE AbstractStep
  BY ThrowRefines
<1>1. /\ pc = "imu" /\ (InitImu \/ Propagate) /\ clock' = event.time
      /\ last_odom' = last_odom /\ ~working /\ core \in Core
  BY DEF ProcessImu, Inv, TypeOK, TransactionInv
<1>2. CASE Propagate
  BY <1>1, <1>2, AbstractStutter DEF Propagate, Abstract, PersistentCore, imuVars
<1>3. CASE InitImu
  <2>1. need_init /\ ~working' /\ need_init' \in BOOLEAN
    BY <1>1, <1>3, InitImuInv DEF InitImu
  <2>2. CASE need_init'
    <3>1. core'.state = core.state
      BY <1>1, <1>3, <2>2 DEF InitImu, Core
    <3>2. QED
      BY <1>1, <2>1, <2>2, <3>1 DEF AbstractStep, Commits!vars, PersistentCore
  <2>3. CASE ~need_init'
    <3>1. core'.state = core'.cov
      BY <1>1, <1>3, <2>3, InitImuInv
    <3>2. Commits!Start
      BY <1>1, <2>1, <2>3, <3>1 DEF Commits!Start, PersistentCore
    <3>3. QED
      BY <3>2 DEF AbstractStep
  <2>4. QED
    BY <2>2, <2>3
<1>4. QED
  BY <1>1, <1>2, <1>3

LEMMA FinishRefines == Inv /\ Finish => AbstractStep
<1> SUFFICES ASSUME Inv, Finish, ~Throw PROVE AbstractStep
  BY ThrowRefines
<1>1. /\ working' = FALSE /\ pc = "finish" /\ UNCHANGED need_init
      /\ \/ core' = core /\ (working => Persistent)
         \/ working /\ ~Persistent /\ core' = before
      /\ \/ last_odom' = last_odom
         \/ /\ working /\ Persistent /\ core' = core
            /\ last_odom' = clock /\ last_odom' > last_odom
  BY FinishCases DEF imuVars
<1>2. /\ core \in Core /\ before \in Core /\ need_init \in BOOLEAN
      /\ working => /\ ~need_init /\ core.cov = clock /\ core.state = core.cov
                    /\ before.state = before.cov /\ before.cov <= core.cov
  BY DEF Inv, TypeOK, TransactionInv, CoreInv
<1>3. CASE ~working
  BY <1>1, <1>3, AbstractStutter DEF Abstract, PersistentCore
<1>4. CASE working /\ core' = before /\ last_odom' = last_odom
  BY <1>1, <1>4, AbstractStutter DEF Abstract, PersistentCore
<1>5. CASE working /\ Persistent /\ core' = core
  <2>1. /\ PersistentCore = before /\ PersistentCore' = core
        /\ need_init = FALSE /\ need_init' = FALSE
    BY <1>1, <1>2, <1>5 DEF PersistentCore
  <2>2. Commits!Commit
    BY <1>1, <1>2, <1>5, <2>1 DEF Commits!Commit, Core
  <2>3. QED
    BY <2>2 DEF AbstractStep
<1>6. CASE working /\ ~Persistent
  BY <1>1, <1>4, <1>6
<1>7. QED
  BY <1>1, <1>3, <1>5, <1>6

\* Every step of the estimator is a step of the abstract one or leaves it be.
LEMMA StepRefines == Inv /\ [Next]_vars => AbstractStep
<1> SUFFICES ASSUME Inv, [Next]_vars PROVE AbstractStep
  OBVIOUS
<1>1. CASE ReceiveScan \/ ReceiveAnyImu \/ ReceiveAnyImg \/ ImuPropTimer
  BY <1>1, CallbackInv, AbstractStutter DEF Abstract, PersistentCore
<1>2. CASE Sync
  BY <1>2, SyncRefines
<1>3. CASE ProcessImu
  BY <1>3, ProcessImuRefines
<1>4. CASE \E outcome \in VioOutcomes : HandleVIO(outcome)
  <2>1. UNCHANGED <<need_init, core, working, before, last_odom>>
    BY <1>4, HandleVIOInv DEF HandleVIO, Throw, imuVars, txVars
  <2>2. QED
    BY <2>1, AbstractStutter DEF Abstract, PersistentCore
<1>5. CASE \E outcome \in LioOutcomes, insert \in BOOLEAN : HandleLIO(outcome, insert)
  <2>1. UNCHANGED <<need_init, core, working, before, last_odom>>
    BY <1>5, HandleLIOInv DEF HandleLIO, Throw, imuVars, txVars
  <2>2. QED
    BY <2>1, AbstractStutter DEF Abstract, PersistentCore
<1>6. CASE Finish
  BY <1>6, FinishRefines
<1>7. CASE UNCHANGED vars
  BY <1>7, AbstractStutter DEF Abstract, PersistentCore, vars, imuVars, txVars
<1>8. QED
  BY <1>1, <1>2, <1>3, <1>4, <1>5, <1>6, <1>7 DEF Next, Step

\* The estimator implements the abstract commits: seen from downstream, the
\* core moves only by a granted commit, state and IMU together and forward,
\* and the odometry shows nothing but committed cores.
THEOREM EstimatorImplementsCommits == Spec => ImplementsCommits
<1>1. Init => Commits!Init
  BY DEF Init, Commits!Init, PersistentCore, NoCore, Unset
<1>2. Spec => Commits!Init /\ [][Commits!Start \/ Commits!Commit]_Commits!vars
  BY <1>1, InvHolds, StepRefines, PTL DEF Spec, AbstractStep
<1>3. QED
  BY <1>2 DEF ImplementsCommits, Commits!Spec

-----------------------------------------------------------------------------
(* The estimate handed to the IMU-rate odometry.                           *)

\* An estimate is handed over inside a transaction; once the transaction has
\* ended it is the core the transaction left.
HandoffInv ==
  prop.update => /\ ~need_init
                 /\ pc \in {"spin", "imu"} => prop.at = core.state

LEMMA HandoffSync ==
  ASSUME Inv, Sync
  PROVE  prop' = prop /\ need_init' = need_init /\ (~need_init => core' = core)
<1>1. CASE Throw
  BY <1>1 DEF Throw, imuVars, txVars
<1>2. CASE ~Throw
  <2>1. prop' = prop /\ need_init' = need_init /\ core' = OpenedCore
    BY <1>2, SyncCases DEF imuVars, SyncWait, DispatchVIO, DispatchLIO, OpenScan
  <2>2. ~need_init => OpenedCore = core
    BY DEF Inv, CoreInv, OpenedCore
  <2>3. QED
    BY <2>1, <2>2
<1>3. QED
  BY <1>1, <1>2

LEMMA HandoffStep == Inv /\ HandoffInv /\ [Next]_vars => HandoffInv'
<1> SUFFICES ASSUME Inv, HandoffInv, [Next]_vars PROVE HandoffInv'
  OBVIOUS
<1>1. CASE Throw
  BY <1>1 DEF Throw, HandoffInv, imuVars, txVars
<1>2. CASE ReceiveScan \/ ReceiveAnyImg
  BY <1>2 DEF ReceiveScan, ReceiveAnyImg, ReceiveImg, HandoffInv, imuVars, txVars
<1>3. CASE ReceiveAnyImu \/ ImuPropTimer
  <2>1. pc' = pc /\ need_init' = need_init /\ core' = core
    BY <1>3 DEF ReceiveAnyImu, ReceiveImu, ImuPropTimer, imuVars, txVars
  <2>2. prop'.update => prop.update /\ prop'.at = prop.at
    <3>1. prop \in PropState /\ prop.update \in BOOLEAN
      BY DEF Inv, TypeOK, PropState
    <3>2. CASE ReceiveAnyImu
      BY <3>1, <3>2 DEF ReceiveAnyImu, ReceiveImu, BufferPropImu, PropState
    <3>3. CASE ImuPropTimer
      BY <3>1, <3>3 DEF ImuPropTimer, PropState
    <3>4. QED
      BY <1>3, <3>2, <3>3
  <2>3. QED
    BY <2>1, <2>2 DEF HandoffInv
<1>4. CASE Sync
  BY <1>4, HandoffSync DEF HandoffInv, Sync
<1>5. CASE ProcessImu /\ ~Throw
  <2>1. prop' = prop /\ pc' = "estimate" /\ (~need_init => ~need_init')
    BY <1>5 DEF ProcessImu, InitImu, Propagate, imuVars
  <2>2. QED
    BY <2>1 DEF HandoffInv
<1>6. CASE /\ ~Throw
           /\ \/ \E outcome \in VioOutcomes : HandleVIO(outcome)
              \/ \E outcome \in LioOutcomes, insert \in BOOLEAN : HandleLIO(outcome, insert)
  <2>1. pc' = "finish" /\ need_init' = need_init /\ (prop' = prop \/ ~need_init)
    BY <1>6 DEF HandleVIO, HandleLIO, imuVars, Inv, TransactionInv
  <2>2. QED
    BY <2>1 DEF HandoffInv
<1>7. CASE Finish /\ ~Throw
  <2>1. prop' = Renewed /\ need_init' = need_init /\ prop \in PropState
    BY <1>7, FinishCases DEF imuVars, Inv, TypeOK
  <2>2. prop'.update => prop.update /\ prop'.at = core'.state
    BY <2>1 DEF Renewed, PropState
  <2>3. QED
    BY <2>1, <2>2 DEF HandoffInv
<1>8. CASE UNCHANGED vars
  BY <1>8 DEF vars, HandoffInv, imuVars, txVars
<1>9. QED
  BY <1>1, <1>2, <1>3, <1>4, <1>5, <1>6, <1>7, <1>8 DEF Next, Step

\* The estimate waiting for the IMU-rate odometry is the persistent state,
\* also after the query that handed it over was rolled back.
THEOREM HandoffIsPersistent == Spec => []NoSpeculativeHandoff
<1>1. Init => HandoffInv
  BY DEF Init, HandoffInv
<1>2. Inv /\ HandoffInv => NoSpeculativeHandoff
  BY DEF Inv, TypeOK, HandoffInv, NoSpeculativeHandoff, AtRest
<1>3. QED
  BY <1>1, <1>2, HandoffStep, InvHolds, PTL DEF Spec


-----------------------------------------------------------------------------
(* What a call of sync_packages leaves, for the invariants below.          *)

SyncFrame ==
  UNCHANGED <<sensorVars, newest, imuVars, working, before, accepted, pending_odom,
              last_odom, map_inited, prop, hist>>

LEMMA SyncOutcomes ==
  ASSUME Inv, Sync
  PROVE  \/ Throw
         \/ /\ pc = "spin" /\ lid_buffer # <<>> /\ ~BeginThrows /\ SyncFrame
            /\ scan' = Opened /\ clock' = OpenedClock /\ core' = OpenedCore
            /\ \E buf \in SortedForms(imu_buffer) \cup {imu_buffer} :
                 \/ SyncWait(buf)
                 \/ /\ ~StreamsBehind /\ buf \in SortedForms(imu_buffer)
                    /\ need_init \/ (EventTime >= OpenedCore.cov
                                     /\ View(buf, OpenedCore, EventTime).ready)
                    /\ DispatchVIO(buf) \/ DispatchLIO(buf)
<1>1. pc = "spin" /\ lid_buffer # <<>>
  BY DEF Sync, Inv, OpenScanBuffered
<1>2. CASE ~BeginThrows /\ StreamsBehind /\ SyncWait(imu_buffer) /\ SyncFrame
  BY <1>1, <1>2 DEF SyncWait, OpenScan
<1>3. CASE /\ ~BeginThrows /\ ~StreamsBehind
           /\ \E buf \in SortedForms(imu_buffer) : SyncEvent(buf)
  <2>1. PICK buf \in SortedForms(imu_buffer) : SyncEvent(buf)
    BY <1>3
  <2>2. CASE ~(need_init \/ EventTime >= OpenedCore.cov)
    BY <2>1, <2>2 DEF SyncEvent
  <2>3. CASE ~Throw /\ (need_init \/ EventTime >= OpenedCore.cov)
    <3>1. SyncFrame /\ (IF need_init \/ View(buf, OpenedCore, EventTime).ready
                        THEN DispatchVIO(buf) \/ DispatchLIO(buf) ELSE SyncWait(buf))
      BY <2>1, <2>3 DEF SyncEvent, SyncFrame
    <3>2. SyncWait(buf) \/ DispatchVIO(buf) \/ DispatchLIO(buf)
      BY <3>1
    <3>3. scan' = Opened /\ clock' = OpenedClock /\ core' = OpenedCore
      BY <3>2 DEF SyncWait, DispatchVIO, DispatchLIO, OpenScan
    <3>4. QED
      BY <1>1, <1>3, <2>1, <2>3, <3>1, <3>3
  <2>4. QED
    BY <2>2, <2>3
<1>4. QED
  BY <1>2, <1>3 DEF Sync, SyncFrame

\* After the initialization an opened scan changes neither clock nor core.
LEMMA OpenedStays ==
  ASSUME Inv, ~need_init
  PROVE  OpenedClock = clock /\ OpenedCore = core
<1>1. 0 < core.cov /\ core.cov <= clock /\ core.cov \in Nat /\ clock \in Int
  BY DEF Inv, CoreInv, TypeOK, Core, Times, Unset
<1>2. QED
  BY <1>1 DEF OpenedClock, OpenedCore

-----------------------------------------------------------------------------
(* Closed scans, and the life cycle that watches over them.                *)

Busy == pc \in {"imu", "estimate", "finish"}
Scanned == event.kind = "LIO" /\ life.required

\* The clock has reached the event it works on; a scan is open until its LIO
\* event is dispatched, which propagates to its end and is its only one.
LifeInv ==
  /\ life.required => life.active /\ ~need_init
  /\ pc \in {"estimate", "finish"} => clock = event.time
  /\ Busy => (event.kind = "VIO" <=> lidar_pushed)
  /\ lidar_pushed => life.end = scan.end /\ (life.required => life.lio = 0 /\ life.ins = 0)
  /\ Busy /\ Scanned => event.time = life.end
  /\ pc = "imu" /\ Scanned => life.lio = 0 /\ life.ins = 0
  /\ pc = "estimate" /\ Scanned => working /\ life.lio = 1 /\ life.ins = 0
  /\ pc = "finish" /\ Scanned => working /\ life.lio = 1 /\ life.ins \in {0, 1}
  /\ pc = "spin" /\ ~lidar_pushed /\ life.required =>
       /\ core.cov = life.end /\ clock = life.end
       /\ life.lio = 1 /\ life.ins \in {0, 1}

LEMMA ThrowLife == LifeInv /\ Throw => LifeInv'
BY DEF LifeInv, Busy, Scanned, Throw, syncVars, imuVars, txVars

LEMMA CallbackLife ==
  ASSUME LifeInv, ReceiveScan \/ ReceiveAnyImu \/ ReceiveAnyImg \/ ImuPropTimer
  PROVE  LifeInv'
<1>1. UNCHANGED <<pc, syncVars, imuVars, txVars, life>>
  BY DEF ReceiveScan, ReceiveAnyImu, ReceiveImu, ReceiveAnyImg, ReceiveImg, ImuPropTimer
<1>2. QED
  BY <1>1 DEF LifeInv, Busy, Scanned, syncVars, imuVars, txVars

LEMMA OpenedLifeInv ==
  ASSUME Inv, LifeInv, lid_buffer # <<>>
  PROVE  /\ OpenedLife \in Lifecycle
         /\ OpenedLife.required => OpenedLife.active /\ ~need_init
         /\ OpenedLife.end = Opened.end
         /\ OpenedLife.required => OpenedLife.lio = 0 /\ OpenedLife.ins = 0
<1>1. OpenedLife \in Lifecycle
  BY OpenedTypes DEF Inv
<1>2. CASE lidar_pushed
  BY <1>1, <1>2 DEF LifeInv, OpenedLife, Opened
<1>3. CASE ~lidar_pushed
  BY <1>1, <1>3 DEF OpenedLife
<1>4. QED
  BY <1>1, <1>2, <1>3

LEMMA SyncLife == Inv /\ LifeInv /\ Sync => LifeInv'
<1> SUFFICES ASSUME Inv, LifeInv, Sync PROVE LifeInv'
  OBVIOUS
<1>1. CASE Throw
  BY <1>1, ThrowLife
<1>2. ASSUME lid_buffer # <<>>, SyncFrame, scan' = Opened,
             NEW buf, SyncWait(buf) \/ DispatchVIO(buf) \/ DispatchLIO(buf)
      PROVE  LifeInv'
  <2>1. /\ OpenedLife \in Lifecycle
        /\ OpenedLife.required => OpenedLife.active /\ ~need_init
        /\ OpenedLife.end = Opened.end
        /\ OpenedLife.required => OpenedLife.lio = 0 /\ OpenedLife.ins = 0
    BY <1>2, OpenedLifeInv
  <2>2. need_init' = need_init /\ pc = "spin"
    BY <1>2 DEF SyncFrame, imuVars, Sync
  <2>3. CASE SyncWait(buf)
    <3>1. life' = OpenedLife /\ lidar_pushed' /\ pc' = "spin"
      BY <2>2, <2>3 DEF SyncWait
    <3>2. QED
      BY <1>2, <2>1, <2>2, <3>1 DEF LifeInv, Busy
  <2>4. CASE DispatchVIO(buf)
    <3>1. PICK t : life' = [OpenedLife EXCEPT !.last_t = t]
      BY <2>4 DEF DispatchVIO
    <3>2. /\ life'.required = OpenedLife.required /\ life'.active = OpenedLife.active
          /\ life'.end = OpenedLife.end /\ life'.lio = OpenedLife.lio
          /\ life'.ins = OpenedLife.ins
      BY <2>1, <3>1 DEF Lifecycle
    <3>3. lidar_pushed' /\ pc' \in {"imu", "dead"} /\ event'.kind = "VIO"
      BY <2>4 DEF DispatchVIO
    <3>4. QED
      BY <1>2, <2>1, <2>2, <3>2, <3>3 DEF LifeInv, Busy, Scanned
  <2>5. CASE DispatchLIO(buf)
    <3>1. /\ life' = OpenedLife /\ ~lidar_pushed' /\ pc' = "imu" /\ event'.kind = "LIO"
          /\ event'.time = Opened.end
      BY <2>5 DEF DispatchLIO, EventTime
    <3>2. QED
      BY <1>2, <2>1, <2>2, <3>1 DEF LifeInv, Busy, Scanned
  <2>6. QED
    BY <1>2, <2>3, <2>4, <2>5
<1>3. QED
  BY <1>1, <1>2, SyncOutcomes

LEMMA ProcessImuLife == Inv /\ LifeInv /\ ProcessImu => LifeInv'
<1> SUFFICES ASSUME Inv, LifeInv, ProcessImu PROVE LifeInv'
  OBVIOUS
<1>1. CASE Throw
  BY <1>1, ThrowLife
<1>2. ASSUME InitImu \/ Propagate, clock' = event.time, NoteLio, pc' = "estimate",
             UNCHANGED <<lidar_pushed, scan, event>>
      PROVE  LifeInv'
  <2>1. pc = "imu" /\ life \in Lifecycle /\ event.kind \in {"VIO", "LIO"}
    BY DEF ProcessImu, Inv, TypeOK, Events
  <2>2. need_init => ~life.required
    BY DEF LifeInv
  <2>3. ~need_init => ~need_init' /\ working'
    BY <1>2 DEF InitImu, Propagate, imuVars
  <2>4. CASE Scanned
    <3>1. ~need_init' /\ working' /\ life.active /\ life.lio = 0 /\ life.ins = 0
          /\ event.time = life.end
      BY <2>1, <2>3, <2>4 DEF LifeInv, Scanned, Busy
    <3>2. PICK t : life' = [life EXCEPT !.lio = life.lio + 1, !.last_t = t]
      BY <1>2, <2>4, <3>1 DEF NoteLio, Scanned
    <3>6. life.lio + 1 = 1 /\ life'.lio = life.lio + 1
      BY <2>1, <3>1, <3>2 DEF Lifecycle
    <3>3. /\ life'.required = life.required /\ life'.active = life.active
          /\ life'.end = life.end /\ life'.lio = 1 /\ life'.ins = 0
      <4>1. /\ life'.required = life.required /\ life'.active = life.active
            /\ life'.end = life.end /\ life'.ins = life.ins
        BY <2>1, <3>2 DEF Lifecycle
      <4>2. QED
        BY <3>1, <3>6, <4>1
    <3>4. ~lidar_pushed
      BY <2>1, <2>4 DEF LifeInv, Busy, Scanned
    <3>5. QED
      BY <1>2, <2>4, <3>1, <3>3, <3>4 DEF LifeInv, Busy, Scanned
  <2>5. CASE ~Scanned
    <3>1. life' = life
      BY <1>2, <2>5 DEF NoteLio, Scanned
    <3>2. QED
      BY <1>2, <2>1, <2>2, <2>3, <2>5, <3>1 DEF LifeInv, Busy, Scanned
  <2>6. QED
    BY <2>4, <2>5
<1>3. QED
  BY <1>1, <1>2 DEF ProcessImu

LEMMA HandlerLife ==
  ASSUME Inv, LifeInv,
         \/ \E outcome \in VioOutcomes : HandleVIO(outcome)
         \/ \E outcome \in LioOutcomes, insert \in BOOLEAN : HandleLIO(outcome, insert)
  PROVE  LifeInv'
<1>1. CASE Throw
  BY <1>1, ThrowLife
<1>2. CASE ~Throw /\ \E outcome \in VioOutcomes : HandleVIO(outcome)
  <2>1. /\ pc = "estimate" /\ event.kind = "VIO" /\ pc' = "finish"
        /\ UNCHANGED <<syncVars, imuVars, life>>
    BY <1>2 DEF HandleVIO
  <2>2. QED
    BY <2>1 DEF LifeInv, Busy, Scanned, syncVars, imuVars
<1>3. CASE ~Throw /\ \E outcome \in LioOutcomes, insert \in BOOLEAN : HandleLIO(outcome, insert)
  <2>1. PICK outcome \in LioOutcomes, insert \in BOOLEAN :
          /\ pc = "estimate" /\ event.kind = "LIO" /\ pc' = "finish"
          /\ life' = [life EXCEPT !.ins = IF MapNoted(outcome, insert) THEN @ + 1 ELSE @]
          /\ UNCHANGED <<syncVars, imuVars, working>>
    BY <1>3 DEF HandleLIO
  <2>2. PICK n : /\ life' = [life EXCEPT !.ins = n]
                 /\ n = life.ins \/ n = life.ins + 1
    BY <2>1
  <2>3. /\ life'.required = life.required /\ life'.active = life.active
        /\ life'.end = life.end /\ life'.lio = life.lio /\ life'.ins = n
    BY <2>2 DEF Inv, TypeOK, Lifecycle
  <2>4. Scanned => working /\ life.lio = 1 /\ n \in {0, 1}
    BY <2>1, <2>2 DEF LifeInv
  <2>5. ~lidar_pushed
    BY <2>1 DEF LifeInv, Busy
  <2>6. QED
    BY <2>1, <2>3, <2>4, <2>5 DEF LifeInv, Busy, Scanned, syncVars, imuVars
<1>4. QED
  BY <1>1, <1>2, <1>3

LEMMA FinishLife == Inv /\ LifeInv /\ Finish => LifeInv'
<1> SUFFICES ASSUME Inv, LifeInv, Finish PROVE LifeInv'
  OBVIOUS
<1>1. CASE Throw
  BY <1>1, ThrowLife
<1>2. CASE ~Throw
  <2>1. /\ pc = "finish" /\ pc' = "spin"
        /\ UNCHANGED <<syncVars, imuVars, life>>
        /\ core' = core \/ (working /\ ~Persistent /\ core' = before)
    BY <1>2, FinishCases
  <2>2. CASE lidar_pushed
    BY <2>1, <2>2 DEF LifeInv, Busy, syncVars, imuVars
  <2>3. CASE ~lidar_pushed
    <3>1. event.kind = "LIO"
      BY <2>1, <2>3 DEF LifeInv, Busy, Inv, TypeOK, Events
    <3>2. core' = core
      BY <2>1, <3>1 DEF Persistent
    <3>3. life.required => /\ working /\ life.lio = 1 /\ life.ins \in {0, 1}
                           /\ clock = life.end /\ core.cov = clock
      BY <2>1, <3>1 DEF LifeInv, Busy, Scanned, Inv, TransactionInv
    <3>4. QED
      BY <2>1, <2>3, <3>2, <3>3 DEF LifeInv, Busy, syncVars, imuVars
  <2>4. QED
    BY <2>2, <2>3
<1>3. QED
  BY <1>1, <1>2

LEMMA LifeStep == Inv /\ LifeInv /\ [Next]_vars => LifeInv'
<1> SUFFICES ASSUME Inv, LifeInv, [Next]_vars PROVE LifeInv'
  OBVIOUS
<1>1. CASE UNCHANGED vars
  BY <1>1 DEF vars, LifeInv, Busy, Scanned, syncVars, imuVars, txVars
<1>2. QED
  BY <1>1, CallbackLife, SyncLife, ProcessImuLife, HandlerLife, FinishLife DEF Next, Step

LEMMA LifeHolds == Spec => []LifeInv
<1>1. Init => LifeInv
  BY DEF Init, LifeInv, Busy
<1>2. QED
  BY <1>1, LifeStep, InvHolds, PTL DEF Spec

\* After a scan is closed, with none open and nothing being processed, the end
\* of the persistent core and the clock are the end of that scan, also when its
\* measurement update was rejected or image queries inside it were rolled back
\* (stateEstimationAndMapping, LivoScanLifecycle).
THEOREM ClosedScansPersist == Spec => []ScanPersistent
<1>1. LifeInv => ScanPersistent
  BY DEF LifeInv, ScanPersistent, AtRest
<1>2. QED
  BY <1>1, LifeHolds, PTL

-----------------------------------------------------------------------------
(* Complete commits.                                                       *)

\* Once the map exists every event has a transaction, and what it could be
\* rolled back to is complete.
CompleteInv ==
  /\ map_inited => ~need_init
  /\ map_inited /\ pc \in {"spin", "imu"} => core.complete
  /\ map_inited /\ pc \in {"estimate", "finish"} => working
  /\ map_inited /\ pc \in {"estimate", "finish"} /\ event.kind = "VIO" => before.complete

LEMMA CompleteStep == Inv /\ CompleteInv /\ [Next]_vars => CompleteInv'
<1> SUFFICES ASSUME Inv, CompleteInv, [Next]_vars PROVE CompleteInv'
  OBVIOUS
<1>1. CASE Throw
  BY <1>1 DEF Throw, CompleteInv, imuVars, txVars
<1>2. CASE ReceiveScan \/ ReceiveAnyImu \/ ReceiveAnyImg \/ ImuPropTimer
  <2>1. UNCHANGED <<pc, syncVars, imuVars, txVars, map_inited>>
    BY <1>2 DEF ReceiveScan, ReceiveAnyImu, ReceiveImu, ReceiveAnyImg, ReceiveImg, ImuPropTimer
  <2>2. QED
    BY <2>1 DEF CompleteInv, syncVars, imuVars, txVars
<1>3. CASE Sync /\ ~Throw
  <2>1. pc = "spin" /\ SyncFrame /\ core' = OpenedCore
        /\ \E buf : SyncWait(buf) \/ DispatchVIO(buf) \/ DispatchLIO(buf)
    BY <1>3, SyncOutcomes
  <2>2. pc' \in {"spin", "imu", "dead"}
    BY <2>1 DEF SyncWait, DispatchVIO, DispatchLIO
  <2>3. UNCHANGED <<need_init, map_inited>>
    BY <2>1 DEF SyncFrame, imuVars
  <2>4. ~need_init => core' = core
    BY <2>1, OpenedStays
  <2>5. QED
    BY <2>1, <2>2, <2>3, <2>4 DEF CompleteInv
<1>4. CASE ProcessImu /\ ~Throw
  <2>1. /\ pc = "imu" /\ pc' = "estimate" /\ UNCHANGED <<event, map_inited>>
        /\ InitImu \/ Propagate
    BY <1>4 DEF ProcessImu
  <2>2. CASE InitImu
    BY <2>1, <2>2 DEF InitImu, CompleteInv
  <2>3. CASE Propagate
    BY <2>1, <2>3 DEF Propagate, CompleteInv, imuVars
  <2>4. QED
    BY <2>1, <2>2, <2>3
<1>5. CASE ~Throw /\ \E outcome \in VioOutcomes : HandleVIO(outcome)
  BY <1>5 DEF HandleVIO, CompleteInv, syncVars, imuVars
<1>6. CASE ~Throw /\ \E outcome \in LioOutcomes, insert \in BOOLEAN : HandleLIO(outcome, insert)
  <2>1. /\ pc = "estimate" /\ event.kind = "LIO" /\ pc' = "finish"
        /\ UNCHANGED <<syncVars, imuVars, working>> /\ (map_inited' = map_inited \/ working)
    BY <1>6 DEF HandleLIO
  <2>2. working => ~need_init
    BY DEF Inv, TransactionInv
  <2>3. QED
    BY <2>1, <2>2 DEF CompleteInv, syncVars, imuVars
<1>7. CASE Finish /\ ~Throw
  <2>1. /\ pc = "finish" /\ pc' = "spin" /\ UNCHANGED <<imuVars, map_inited>>
        /\ \/ core' = core /\ (working => Persistent)
           \/ working /\ ~Persistent /\ core' = before
    BY <1>7, FinishCases
  <2>2. ~CommitThrows
    BY <1>7 DEF Finish
  <2>3. map_inited => core'.complete
    <3> SUFFICES ASSUME map_inited PROVE core'.complete
      OBVIOUS
    <3>1. working
      BY <2>1 DEF CompleteInv
    <3>2. CASE core' = core /\ Persistent
      BY <2>2, <3>1, <3>2 DEF CommitThrows
    <3>3. CASE ~Persistent /\ core' = before
      BY <2>1, <3>3 DEF CompleteInv, Persistent, Inv, TypeOK, Events
    <3>4. QED
      BY <2>1, <3>1, <3>2, <3>3
  <2>4. QED
    BY <2>1, <2>3 DEF CompleteInv, imuVars
<1>8. CASE UNCHANGED vars
  BY <1>8 DEF vars, CompleteInv, syncVars, imuVars, txVars
<1>9. QED
  BY <1>1, <1>2, <1>3, <1>4, <1>5, <1>6, <1>7, <1>8 DEF Next, Step

\* Once the map exists the IMU coverage flag of the core is true between events,
\* also when IMU stamps are repeated (WorkingCheckpoint::finish).
THEOREM CommitsAreComplete == Spec => []CommittedComplete
<1>1. Init => CompleteInv
  BY DEF Init, CompleteInv
<1>2. CompleteInv => CommittedComplete
  BY DEF CompleteInv, CommittedComplete, AtRest
<1>3. QED
  BY <1>1, <1>2, CompleteStep, InvHolds, PTL DEF Spec

-----------------------------------------------------------------------------
(* The image stream and the clock.                                         *)

\* A stretch of an ordered buffer is ordered and brings nothing new.
LEMMA StretchOrdered ==
  ASSUME NEW s \in Seq(Nat), Ordered(s),
         NEW m \in Nat \ {0}, NEW n \in Nat, n <= Len(s)
  PROVE  /\ SubSeq(s, m, n) \in Seq(Nat)
         /\ Len(SubSeq(s, m, n)) = IF m <= n THEN n - m + 1 ELSE 0
         /\ \A i \in 1..Len(SubSeq(s, m, n)) :
              SubSeq(s, m, n)[i] = s[m + i - 1] /\ (m + i - 1) \in 1..Len(s)
         /\ Ordered(SubSeq(s, m, n))
         /\ Elements(SubSeq(s, m, n)) \subseteq Elements(s)
<1> DEFINE r == SubSeq(s, m, n)
<1>1. Len(s) \in Nat /\ \A i \in 1..Len(s) : s[i] \in Nat
  OBVIOUS
<1>2. /\ r \in Seq(Nat) /\ Len(r) = IF m <= n THEN n - m + 1 ELSE 0
      /\ \A i \in 1..(n - m + 1) : r[i] = s[m + i - 1]
  <2>1. m \in Int /\ n \in Int /\ \A i \in m..n : s[i] \in Nat
    BY <1>1
  <2>2. /\ SubSeq(s, m, n) \in Seq(Nat)
        /\ Len(SubSeq(s, m, n)) = IF m <= n THEN n - m + 1 ELSE 0
        /\ \A i \in 1..(n - m + 1) : SubSeq(s, m, n)[i] = s[m + i - 1]
    BY <2>1, SubSeqProperties
  <2>3. QED
    BY <2>2
<1> HIDE DEF r
<1>3. \A i \in 1..Len(r) : r[i] = s[m + i - 1] /\ (m + i - 1) \in 1..Len(s)
  BY <1>1, <1>2
<1>4. DOMAIN r = 1..Len(r) /\ DOMAIN s = 1..Len(s) /\ Len(r) \in Nat
  BY <1>2
<1>5. Ordered(r)
  <2> SUFFICES ASSUME NEW i \in 1..Len(r), NEW j \in 1..Len(r), i < j
               PROVE  r[i] <= r[j]
    BY <1>4 DEF Ordered
  <2>1. /\ r[i] = s[m + i - 1] /\ r[j] = s[m + j - 1] /\ m + i - 1 < m + j - 1
        /\ (m + i - 1) \in DOMAIN s /\ (m + j - 1) \in DOMAIN s
    BY <1>3, <1>4
  <2>2. QED
    BY <2>1 DEF Ordered
<1>6. Elements(r) \subseteq Elements(s)
  BY <1>3, <1>4 DEF Elements
<1>7. QED
  BY <1>2, <1>3, <1>5, <1>6 DEF r

LEMMA PopUptoOrdered ==
  ASSUME NEW s \in Seq(Nat), Ordered(s), NEW t \in Int
  PROVE  /\ PopUpto(s, t) \in Seq(Nat) /\ Ordered(PopUpto(s, t))
         /\ Elements(PopUpto(s, t)) \subseteq Elements(s)
         /\ \A x \in Elements(PopUpto(s, t)) : x > t
         /\ \A x \in Elements(s) : x > t => x \in Elements(PopUpto(s, t))
<1> DEFINE k == Upto(s, t)
           r == PopUpto(s, t)
<1>0. Len(s) \in Nat /\ \A i \in 1..Len(s) : s[i] \in Nat
  OBVIOUS
<1>7. /\ k \in 0..Len(s) /\ (k < Len(s) => s[k + 1] > t)
      /\ \A i \in 1..k : s[i] <= t
  BY UptoProperties
<1>1. /\ k \in 0..Len(s) /\ (k < Len(s) => s[k + 1] > t)
      /\ \A i \in 1..k : s[i] <= t
      /\ Len(s) \in Nat /\ \A i \in 1..Len(s) : s[i] \in Nat
  BY <1>0, <1>7
<1>2. r = SubSeq(s, k + 1, Len(s))
  BY DEF PopUpto
<1> HIDE DEF k, r
<1>3. /\ r \in Seq(Nat) /\ Ordered(r) /\ Elements(r) \subseteq Elements(s)
      /\ Len(r) = IF k + 1 <= Len(s) THEN Len(s) - (k + 1) + 1 ELSE 0
      /\ \A i \in 1..Len(r) : r[i] = s[k + 1 + i - 1] /\ (k + 1 + i - 1) \in 1..Len(s)
  BY <1>1, <1>2, StretchOrdered
<1>4. \A i \in 1..Len(r) : r[i] > t
  <2> SUFFICES ASSUME NEW i \in 1..Len(r) PROVE r[i] > t
    OBVIOUS
  <2>1. k + i \in 1..Len(s) /\ k + 1 \in 1..Len(s) /\ r[i] = s[k + i]
    BY <1>1, <1>3
  <2>2. s[k + 1] <= s[k + i]
    BY <2>1, <1>1 DEF Ordered
  <2>3. QED
    BY SMTT(30), <2>1, <2>2, <1>1
<1>5. \A j \in 1..Len(s) : s[j] > t => s[j] \in Elements(r)
  <2> SUFFICES ASSUME NEW j \in 1..Len(s), s[j] > t PROVE s[j] \in Elements(r)
    OBVIOUS
  <2>1. j > k
    BY <1>1
  <2>2. j - k \in 1..Len(r) /\ k + 1 + (j - k) - 1 = j
    BY <2>1, <1>1, <1>3
  <2>3. r[j - k] = s[j]
    BY <2>2, <1>3
  <2>4. QED
    BY SMTT(30), <2>2, <2>3, <1>3 DEF Elements
<1>6. DOMAIN r = 1..Len(r) /\ DOMAIN s = 1..Len(s)
  BY <1>1, <1>3
<1>8. /\ \A x \in Elements(r) : x > t
      /\ \A x \in Elements(s) : x > t => x \in Elements(r)
  BY <1>4, <1>5, <1>6 DEF Elements
<1>9. QED
  BY <1>3, <1>8 DEF r

LEMMA KeepNewestOrdered ==
  ASSUME NEW s \in Seq(Nat), Ordered(s), NEW cap \in Nat
  PROVE  /\ KeepNewest(s, cap) \in Seq(Nat) /\ Ordered(KeepNewest(s, cap))
         /\ Elements(KeepNewest(s, cap)) \subseteq Elements(s)
<1>1. CASE cap > 0 /\ Len(s) > cap
  <2>1. Len(s) - cap + 1 \in Nat \ {0} /\ Len(s) \in Nat
    BY <1>1
  <2>2. QED
    BY <1>1, <2>1, StretchOrdered DEF KeepNewest
<1>2. CASE ~(cap > 0 /\ Len(s) > cap)
  BY <1>2 DEF KeepNewest
<1>3. QED
  BY <1>1, <1>2

\* Insertion keeps the order.
LEMMA InsertOrdered ==
  ASSUME NEW s \in Seq(Nat), Ordered(s), NEW t \in Nat
  PROVE  /\ Insert(s, t) \in Seq(Nat) /\ Ordered(Insert(s, t))
         /\ Elements(Insert(s, t)) \subseteq Elements(s) \cup {t}
<1> DEFINE k == Upto(s, t - 1)
           a == SubSeq(s, 1, k)
           b == PopUpto(s, t - 1)
           r == Insert(s, t)
<1>0. Len(s) \in Nat /\ t - 1 \in Int /\ \A i \in 1..Len(s) : s[i] \in Nat
  OBVIOUS
<1>13. k \in 0..Len(s) /\ \A i \in 1..k : s[i] <= t - 1
  BY <1>0, UptoProperties
<1>1. /\ k \in 0..Len(s) /\ \A i \in 1..k : s[i] <= t - 1
      /\ Len(s) \in Nat /\ \A i \in 1..Len(s) : s[i] \in Nat
  BY <1>0, <1>13
<1>2. /\ a \in Seq(Nat) /\ Len(a) = k /\ Ordered(a) /\ Elements(a) \subseteq Elements(s)
      /\ \A i \in 1..k : a[i] = s[i]
  <2>1. 1 \in Nat \ {0} /\ k \in Nat /\ k <= Len(s)
    BY <1>1
  <2> HIDE DEF k
  <2>2. /\ a \in Seq(Nat) /\ Ordered(a) /\ Elements(a) \subseteq Elements(s)
        /\ Len(a) = IF 1 <= k THEN k - 1 + 1 ELSE 0
        /\ \A i \in 1..Len(a) : a[i] = s[1 + i - 1]
    BY <2>1, StretchOrdered
  <2>3. Len(a) = k
    BY <2>1, <2>2
  <2>4. \A i \in 1..k : a[i] = s[i]
    BY <2>1, <2>2, <2>3
  <2>5. QED
    BY <2>2, <2>3, <2>4
<1>3. /\ b \in Seq(Nat) /\ Ordered(b) /\ Elements(b) \subseteq Elements(s)
      /\ \A x \in Elements(b) : x > t - 1
  BY <1>0, PopUptoOrdered
<1>4. r = (a \o <<t>>) \o b
  BY DEF Insert
<1> HIDE DEF k, a, b, r
<1>5. \A i \in 1..k : a[i] \in Nat /\ a[i] < t
  BY SMTT(30), <1>1, <1>2
<1>6. Len(b) \in Nat /\ \A i \in 1..Len(b) : b[i] \in Nat /\ b[i] >= t /\ b[i] \in Elements(s)
  <2>1. DOMAIN b = 1..Len(b) /\ Len(b) \in Nat /\ \A i \in 1..Len(b) : b[i] \in Nat
    BY <1>3
  <2>2. \A i \in 1..Len(b) : b[i] \in Elements(b)
    BY <2>1 DEF Elements
  <2>3. QED
    BY <2>1, <2>2, <1>3
<1>7. /\ r \in Seq(Nat) /\ Len(r) = k + 1 + Len(b)
      /\ \A i \in 1..k : r[i] = a[i]
      /\ r[k + 1] = t
      /\ \A i \in 1..Len(b) : r[k + 1 + i] = b[i]
  <2>1. k \in Nat /\ <<t>> \in Seq(Nat) /\ Len(<<t>>) = 1 /\ <<t>>[1] = t
    BY <1>1
  <2> DEFINE u == <<t>>
             c == a \o u
  <2>2. /\ c \in Seq(Nat) /\ Len(c) = Len(a) + Len(u)
        /\ \A i \in 1..Len(c) : c[i] = IF i <= Len(a) THEN a[i] ELSE u[i - Len(a)]
    BY <1>2, <2>1, ConcatProperties
  <2> HIDE DEF u
  <2>3. u \in Seq(Nat) /\ Len(u) = 1 /\ u[1] = t
    BY <2>1 DEF u
  <2> HIDE DEF c
  <2>4. /\ c \in Seq(Nat) /\ Len(c) = k + 1 /\ c[k + 1] = t
        /\ \A i \in 1..k : c[i] = a[i]
    BY <1>2, <2>1, <2>2, <2>3
  <2>5. r = c \o b
    BY <1>4 DEF c, u
  <2>6. /\ c \o b \in Seq(Nat) /\ Len(c \o b) = Len(c) + Len(b)
        /\ \A i \in 1..Len(c \o b) :
             (c \o b)[i] = IF i <= Len(c) THEN c[i] ELSE b[i - Len(c)]
    <3>1. c \in Seq(Nat) /\ b \in Seq(Nat)
      BY <1>3, <2>4
    <3>2. QED
      BY ONLY <3>1, ConcatProperties
  <2>7. r \in Seq(Nat) /\ Len(r) = k + 1 + Len(b)
    BY <2>4, <2>5, <2>6
  <2>8. \A i \in 1..Len(r) : r[i] = IF i <= k + 1 THEN c[i] ELSE b[i - (k + 1)]
    BY <2>4, <2>5, <2>6
  <2>9. \A i \in 1..k : r[i] = a[i]
    BY <1>6, <2>1, <2>4, <2>7, <2>8
  <2>10. r[k + 1] = t
    BY <1>6, <2>1, <2>4, <2>7, <2>8
  <2>11. \A i \in 1..Len(b) : r[k + 1 + i] = b[i]
    <3> SUFFICES ASSUME NEW i \in 1..Len(b) PROVE r[k + 1 + i] = b[i]
      OBVIOUS
    <3>1. k + 1 + i \in 1..Len(r) /\ ~(k + 1 + i <= k + 1) /\ (k + 1 + i) - (k + 1) = i
      BY <1>6, <2>1, <2>7
    <3>2. QED
      BY <2>8, <3>1
  <2>12. QED
    BY <2>7, <2>9, <2>10, <2>11
<1>8. \A i \in 1..Len(r) : i \in 1..k \/ i = k + 1 \/ (i - k - 1 \in 1..Len(b) /\ k + 1 + (i - k - 1) = i)
  BY <1>1, <1>6, <1>7
<1>9. \A i \in 1..Len(r) : r[i] \in Elements(s) \cup {t}
  <2> SUFFICES ASSUME NEW i \in 1..Len(r) PROVE r[i] \in Elements(s) \cup {t}
    OBVIOUS
  <2>1. CASE i \in 1..k
    <3>1. r[i] = s[i] /\ i \in DOMAIN s
      BY SMTT(30), <2>1, <1>1, <1>2, <1>7
    <3>2. QED
      BY <3>1 DEF Elements
  <2>2. CASE i = k + 1
    BY <2>2, <1>7
  <2>3. CASE (i - k - 1) \in 1..Len(b) /\ k + 1 + (i - k - 1) = i
    <3> DEFINE j == i - k - 1
    <3>1. j \in 1..Len(b) /\ k + 1 + j = i
      BY <2>3
    <3> HIDE DEF j
    <3>2. r[k + 1 + j] = b[j] /\ b[j] \in Elements(s)
      BY <3>1, <1>6, <1>7
    <3>3. QED
      BY <3>1, <3>2
  <2>4. QED
    BY <2>1, <2>2, <2>3, <1>8
<1>10. ASSUME NEW i \in 1..Len(r), NEW j \in 1..Len(r), i < j PROVE r[i] <= r[j]
  <2>1. k \in Nat /\ i \in Int /\ j \in Int
    BY <1>1
  <2>2. \A n \in 1..k : r[n] \in Nat /\ r[n] < t
    BY <1>5, <1>7
  <2>3. \A n \in 1..Len(r) : n > k + 1 =>
          (n - k - 1) \in 1..Len(b) /\ r[n] = b[n - k - 1] /\ r[n] \in Nat /\ r[n] >= t
    <3> SUFFICES ASSUME NEW n \in 1..Len(r), n > k + 1
                 PROVE (n - k - 1) \in 1..Len(b) /\ r[n] = b[n - k - 1]
                       /\ r[n] \in Nat /\ r[n] >= t
      OBVIOUS
    <3> DEFINE m == n - k - 1
    <3>1. m \in 1..Len(b) /\ k + 1 + m = n
      BY <2>1, <1>6, <1>7
    <3>2. r[k + 1 + m] = b[m]
      BY <3>1, <1>7
    <3>3. QED
      BY <3>1, <3>2, <1>6
  <2>4. CASE i <= k /\ j <= k
    <3>1. i \in 1..k /\ j \in 1..k /\ DOMAIN a = 1..k
      BY <2>1, <2>4, <1>2
    <3>2. a[i] <= a[j]
      BY <3>1, <1>2, <1>10 DEF Ordered
    <3>3. QED
      BY <3>1, <3>2, <1>7
  <2>5. CASE i <= k /\ j > k
    <3>1. r[i] \in Nat /\ r[i] < t
      BY <2>1, <2>2, <2>5
    <3>2. r[j] \in Nat /\ r[j] >= t
      <4>1. CASE j = k + 1
        BY <4>1, <1>7
      <4>2. CASE j > k + 1
        BY <4>2, <2>3
      <4>3. QED
        BY <4>1, <4>2, <2>1, <2>5
    <3>3. QED
      BY <3>1, <3>2
  <2>6. CASE i = k + 1
    <3>1. r[j] \in Nat /\ r[j] >= t
      BY <2>1, <2>3, <2>6, <1>10
    <3>2. QED
      BY <3>1, <2>6, <1>7
  <2>7. CASE i > k + 1
    <3>1. j > k + 1
      BY <2>1, <2>7, <1>10
    <3>2. /\ (i - k - 1) \in 1..Len(b) /\ r[i] = b[i - k - 1]
          /\ (j - k - 1) \in 1..Len(b) /\ r[j] = b[j - k - 1]
      BY <3>1, <2>3, <2>7
    <3>3. i - k - 1 < j - k - 1 /\ DOMAIN b = 1..Len(b)
      BY <2>1, <1>3, <1>10
    <3>4. b[i - k - 1] <= b[j - k - 1]
      BY <3>2, <3>3, <1>3 DEF Ordered
    <3>5. QED
      BY <3>2, <3>4
  <2>8. QED
    BY <2>1, <2>4, <2>5, <2>6, <2>7
<1>11. DOMAIN r = 1..Len(r)
  BY <1>7
<1>12. QED
  BY <1>7, <1>9, <1>10, <1>11 DEF r, Ordered, Elements

\* The first image of an ordered buffer is its oldest; the others are in the rest.
LEMMA HeadOldest ==
  ASSUME NEW s \in Seq(Nat), Ordered(s), s # <<>>
  PROVE  /\ Head(s) \in Elements(s) /\ Head(s) \in Nat
         /\ \A x \in Elements(s) : x >= Head(s)
         /\ Tail(s) \in Seq(Nat) /\ Ordered(Tail(s)) /\ Elements(Tail(s)) \subseteq Elements(s)
<1>1. /\ Len(s) \in Nat \ {0} /\ DOMAIN s = 1..Len(s) /\ Head(s) = s[1]
      /\ \A i \in 1..Len(s) : s[i] \in Nat
  OBVIOUS
<1>2. \A i \in 1..Len(s) : s[i] >= s[1]
  BY <1>1 DEF Ordered
<1>3. Tail(s) = SubSeq(s, 2, Len(s))
  BY <1>1, HeadTailProperties
<1>4. Tail(s) \in Seq(Nat) /\ Ordered(Tail(s)) /\ Elements(Tail(s)) \subseteq Elements(s)
  <2>1. 2 \in Nat \ {0} /\ Len(s) \in Nat /\ Len(s) <= Len(s)
    BY <1>1
  <2>2. /\ SubSeq(s, 2, Len(s)) \in Seq(Nat) /\ Ordered(SubSeq(s, 2, Len(s)))
        /\ Elements(SubSeq(s, 2, Len(s))) \subseteq Elements(s)
    BY <2>1, StretchOrdered
  <2>3. QED
    BY <1>3, <2>2
<1>5. QED
  BY <1>1, <1>2, <1>4 DEF Elements

\* Buffered images are ordered and none is newer than newest.img.  After the
\* initialization the image stream has passed the clock (it had to before the
\* event was dispatched), so an image that arrives in order is not behind it.
FreshInv ==
  /\ Ordered(img_buffer) /\ \A t \in Elements(img_buffer) : t <= newest.img
  /\ ~need_init /\ pc = "imu" =>
       /\ newest.img >= event.time
       /\ \A t \in Elements(img_buffer) : t >= event.time
  /\ ~need_init /\ pc \in {"spin", "estimate", "finish"} =>
       /\ clock = hist.ready \/ newest.img >= clock
       /\ \A t \in Elements(img_buffer) \ hist.late : t >= hist.ready => t >= clock

LEMMA ImageTypes ==
  ASSUME TypeOK
  PROVE  /\ img_buffer \in Seq(Nat) /\ newest.img \in Int /\ clock \in Int
         /\ hist.ready \in Int /\ event.time \in Nat
         /\ \A t \in Elements(img_buffer) : t \in Nat
<1>1. img_buffer \in Seq(ImgStamps) /\ ImgStamps \in SUBSET Nat
  BY ParameterTypes DEF TypeOK
<1>2. img_buffer \in Seq(Nat) /\ \A i \in 1..Len(img_buffer) : img_buffer[i] \in Nat
  BY <1>1, SeqOfStamps
<1>3. DOMAIN img_buffer = 1..Len(img_buffer)
  BY <1>2
<1>4. \A t \in Elements(img_buffer) : t \in Nat
  BY <1>2, <1>3 DEF Elements
<1>5. newest.img \in Int /\ clock \in Int /\ hist.ready \in Int /\ event.time \in Nat
  BY DEF TypeOK, Newest, Times, Unset, History, Events
<1>6. QED
  BY <1>2, <1>4, <1>5

LEMMA ReceiveImgFresh ==
  ASSUME Inv, FreshInv, NEW t \in ImgStamps, ReceiveImg(t)
  PROVE  FreshInv'
<1>0. /\ img_buffer \in Seq(Nat) /\ newest.img \in Int /\ clock \in Int
      /\ hist.ready \in Int /\ \A x \in Elements(img_buffer) : x \in Nat
      /\ t \in Nat /\ MaxImg \in Nat
  BY ImageTypes, ParameterTypes DEF Inv
<1>1. pc = "spin" /\ pc' = "spin" /\ need_init' = need_init /\ clock' = clock
  BY DEF ReceiveImg, imuVars, syncVars
<1>2. CASE t \in Elements(img_buffer)
  BY <1>1, <1>2 DEF ReceiveImg, FreshInv
<1>3. CASE t \notin Elements(img_buffer)
  <2>1. /\ img_buffer' = KeepNewest(Insert(img_buffer, t), MaxImg)
        /\ newest' = [newest EXCEPT !.img = IF t > @ THEN t ELSE @]
        /\ hist' = IF t < newest.img THEN [hist EXCEPT !.late = @ \cup {t}] ELSE hist
    BY <1>3 DEF ReceiveImg
  <2>2. newest \in Newest /\ hist \in History
    BY DEF Inv, TypeOK
  <2>3. newest'.img = IF t > newest.img THEN t ELSE newest.img
    BY <2>1, <2>2 DEF Newest
  <2>4. hist'.ready = hist.ready /\ hist'.late = IF t < newest.img THEN hist.late \cup {t}
                                                                   ELSE hist.late
    BY <2>1, <2>2 DEF History
  <2>5. /\ Insert(img_buffer, t) \in Seq(Nat) /\ Ordered(Insert(img_buffer, t))
        /\ Elements(Insert(img_buffer, t)) \subseteq Elements(img_buffer) \cup {t}
    BY <1>0, InsertOrdered DEF FreshInv
  <2>6. /\ Ordered(img_buffer')
        /\ Elements(img_buffer') \subseteq Elements(img_buffer) \cup {t}
    <3> DEFINE q == Insert(img_buffer, t)
    <3>1. q \in Seq(Nat) /\ Ordered(q) /\ Elements(q) \subseteq Elements(img_buffer) \cup {t}
      BY <2>5
    <3>2. img_buffer' = KeepNewest(q, MaxImg)
      BY <2>1
    <3> HIDE DEF q
    <3>3. Ordered(KeepNewest(q, MaxImg)) /\ Elements(KeepNewest(q, MaxImg)) \subseteq Elements(q)
      BY <3>1, <1>0, KeepNewestOrdered
    <3>4. QED
      BY <3>1, <3>2, <3>3
  <2>7. \A x \in Elements(img_buffer)' : x <= newest'.img
    BY <1>0, <2>3, <2>6 DEF FreshInv
  <2>8. ASSUME ~need_init
        PROVE  /\ clock = hist.ready \/ newest'.img >= clock
               /\ \A x \in Elements(img_buffer)' \ hist'.late : x >= hist.ready => x >= clock
    <3>1. /\ clock = hist.ready \/ newest.img >= clock
          /\ \A x \in Elements(img_buffer) \ hist.late : x >= hist.ready => x >= clock
      BY <1>1, <2>8 DEF FreshInv
    <3>2. clock = hist.ready \/ newest'.img >= clock
      BY <1>0, <2>3, <3>1
    <3>3. ASSUME NEW x \in Elements(img_buffer)' \ hist'.late, x >= hist.ready
          PROVE  x >= clock
      <4>1. CASE x \in Elements(img_buffer)
        BY <2>4, <3>1, <3>3, <4>1
      <4>2. CASE x = t
        <5>1. t >= newest.img
          BY <1>0, <2>4, <3>3, <4>2
        <5>2. QED
          BY <1>0, <3>1, <3>3, <4>2, <5>1
      <4>3. QED
        BY <2>6, <4>1, <4>2
    <3>4. QED
      BY <3>2, <3>3
  <2>9. Ordered(img_buffer)'
    BY <2>6
  <2>10. QED
    BY <1>1, <2>4, <2>7, <2>8, <2>9 DEF FreshInv
<1>4. QED
  BY <1>2, <1>3

LEMMA SyncFresh == Inv /\ FreshInv /\ Sync => FreshInv'
<1> SUFFICES ASSUME Inv, FreshInv, Sync PROVE FreshInv'
  OBVIOUS
<1>0. /\ img_buffer \in Seq(Nat) /\ newest.img \in Int /\ clock \in Int
      /\ \A x \in Elements(img_buffer) : x \in Nat
  BY ImageTypes DEF Inv
<1>1. CASE Throw
  BY <1>1 DEF Throw, FreshInv, bufferVars
<1>2. ASSUME SyncFrame, lid_buffer # <<>>, clock' = OpenedClock, NEW buf,
             SyncWait(buf) \/ (~StreamsBehind /\ (DispatchVIO(buf) \/ DispatchLIO(buf)))
      PROVE  FreshInv'
  <2>1. /\ UNCHANGED <<newest, need_init, hist>> /\ pc = "spin"
    BY <1>2 DEF SyncFrame, imuVars, Sync
  <2>2. ~need_init => OpenedClock = clock
    BY OpenedStays
  <2>3. OpenedClock \in Int /\ Opened.end \in Nat
    BY <1>2, OpenedTypes DEF Inv, Times, Unset, Scan
  <2>4. /\ FreshImages \in Seq(Nat) /\ Ordered(FreshImages)
        /\ Elements(FreshImages) \subseteq Elements(img_buffer)
    <3>1. OpenedClock - 1 \in Int
      BY <2>3
    <3>2. QED
      BY <1>0, <3>1, PopUptoOrdered DEF FreshImages, FreshInv
  <2>5. CASE SyncWait(buf)
    <3>1. img_buffer' = FreshImages /\ pc' = "spin"
      BY <2>1, <2>5 DEF SyncWait
    <3>2. QED
      BY <1>2, <2>1, <2>2, <2>4, <3>1 DEF FreshInv
  <2>6. CASE DispatchVIO(buf) /\ ~StreamsBehind
    <3>1. /\ ImageInsideScan /\ img_buffer' = Tail(FreshImages) /\ pc' \in {"imu", "dead"}
          /\ event'.time = EventTime
      BY <2>6 DEF DispatchVIO
    <3>2. FreshImages # <<>> /\ EventTime = Head(FreshImages)
      BY <3>1 DEF ImageInsideScan, EventTime
    <3>3. /\ Head(FreshImages) \in Elements(FreshImages)
          /\ \A x \in Elements(FreshImages) : x >= Head(FreshImages)
          /\ Ordered(Tail(FreshImages))
          /\ Elements(Tail(FreshImages)) \subseteq Elements(FreshImages)
      BY <2>4, <3>2, HeadOldest
    <3>4. newest.img >= event'.time /\ \A x \in Elements(img_buffer)' : x <= newest.img
      BY <1>0, <2>4, <3>1, <3>2, <3>3 DEF FreshInv
    <3>5. \A x \in Elements(img_buffer)' : x >= event'.time
      BY <3>1, <3>2, <3>3
    <3>6. Ordered(img_buffer)'
      BY <3>1, <3>3
    <3>7. QED
      BY <2>1, <3>1, <3>4, <3>5, <3>6 DEF FreshInv
  <2>7. CASE DispatchLIO(buf) /\ ~StreamsBehind
    <3>1. /\ ~ImageInsideScan /\ img_buffer' = FreshImages /\ pc' = "imu"
          /\ event'.time = Opened.end
      BY <2>7 DEF DispatchLIO, EventTime
    <3>2. ~need_init => newest.img >= Opened.end
      BY <1>0, <2>3, <2>7, <3>1 DEF StreamsBehind
    <3>3. ~need_init => \A x \in Elements(FreshImages) : x >= Opened.end
      <4>1. CASE FreshImages = <<>>
        BY <4>1 DEF Elements
      <4>2. CASE FreshImages # <<>> /\ ~need_init
        <5>1. /\ \A x \in Elements(FreshImages) : x >= Head(FreshImages)
              /\ Head(FreshImages) \in Elements(FreshImages)
          BY <2>4, <4>2, HeadOldest
        <5>2. Head(FreshImages) >= Opened.end /\ Head(FreshImages) \in Nat
          BY <1>0, <2>3, <2>4, <3>1, <4>2, <5>1 DEF ImageInsideScan
        <5>3. QED
          BY <1>0, <2>3, <2>4, <5>1, <5>2
      <4>3. QED
        BY <4>1, <4>2
    <3>4. QED
      BY <2>1, <2>4, <3>1, <3>2, <3>3 DEF FreshInv
  <2>8. QED
    BY <1>2, <2>5, <2>6, <2>7
<1>3. QED
  BY <1>1, <1>2, SyncOutcomes

LEMMA FreshStep == Inv /\ FreshInv /\ [Next]_vars => FreshInv'
<1> SUFFICES ASSUME Inv, FreshInv, [Next]_vars PROVE FreshInv'
  OBVIOUS
<1>1. CASE Throw
  BY <1>1 DEF Throw, FreshInv, bufferVars
<1>2. CASE ReceiveScan
  <2>1. UNCHANGED <<pc, img_buffer, clock, event, need_init, hist>> /\ pc = "spin"
    BY <1>2 DEF ReceiveScan, syncVars, imuVars
  <2>2. newest' = newest \/ \E t : newest' = [newest EXCEPT !.lid = t]
    BY <1>2 DEF ReceiveScan
  <2>3. newest'.img = newest.img
    BY <2>2 DEF Inv, TypeOK, Newest
  <2>4. QED
    BY <2>1, <2>3 DEF FreshInv
<1>3. CASE ReceiveAnyImu
  <2>1. UNCHANGED <<pc, img_buffer, clock, event, need_init, hist>> /\ pc = "spin"
    BY <1>3 DEF ReceiveAnyImu, ReceiveImu, syncVars, imuVars
  <2>2. newest' = newest \/ \E t : newest' = [newest EXCEPT !.imu = t]
    BY <1>3 DEF ReceiveAnyImu, ReceiveImu
  <2>3. newest'.img = newest.img
    BY <2>2 DEF Inv, TypeOK, Newest
  <2>4. QED
    BY <2>1, <2>3 DEF FreshInv
<1>4. CASE ReceiveAnyImg
  BY <1>4, ReceiveImgFresh DEF ReceiveAnyImg
<1>5. CASE Sync
  BY <1>5, SyncFresh
<1>6. CASE ProcessImu /\ ~Throw
  <2>1. /\ pc = "imu" /\ pc' = "estimate" /\ clock' = event.time
        /\ UNCHANGED <<img_buffer, newest>> /\ (InitImu \/ Propagate)
    BY <1>6 DEF ProcessImu, bufferVars
  <2>2. CASE InitImu
    <3>1. need_init /\ hist' = [hist EXCEPT !.ready = IF need_init' THEN @ ELSE event.time]
      BY <2>2 DEF InitImu
    <3>2. ~need_init' => hist'.ready = event.time
      BY <3>1 DEF Inv, TypeOK, History
    <3>3. QED
      BY <2>1, <3>2 DEF FreshInv
  <2>3. CASE Propagate
    <3>1. ~need_init /\ UNCHANGED <<need_init, hist>>
      BY <2>3 DEF Propagate, imuVars
    <3>2. QED
      BY <2>1, <3>1 DEF FreshInv
  <2>4. QED
    BY <2>1, <2>2, <2>3
<1>7. CASE ~Throw /\ \E outcome \in VioOutcomes : HandleVIO(outcome)
  BY <1>7 DEF HandleVIO, FreshInv, bufferVars, syncVars, imuVars
<1>8. CASE ~Throw /\ \E outcome \in LioOutcomes, insert \in BOOLEAN : HandleLIO(outcome, insert)
  BY <1>8 DEF HandleLIO, FreshInv, bufferVars, syncVars, imuVars
<1>9. CASE Finish /\ ~Throw
  BY <1>9 DEF Finish, FreshInv, syncVars, imuVars
<1>10. CASE ImuPropTimer
  BY <1>10 DEF ImuPropTimer, FreshInv, bufferVars, syncVars, imuVars
<1>11. CASE UNCHANGED vars
  BY <1>11 DEF vars, FreshInv, bufferVars, syncVars, imuVars
<1>12. QED
  BY <1>1, <1>2, <1>3, <1>4, <1>5, <1>6, <1>7, <1>8, <1>9, <1>10, <1>11 DEF Next, Step

\* Between events a buffered image that arrived in order after the initialization
\* is not older than the clock: scans are closed only after the image stream has
\* passed them, so only images that came late are dropped (sync_packages).
THEOREM ImagesStayFresh == Spec => []InOrderImagesFresh
<1>1. Init => FreshInv
  BY DEF Init, FreshInv, Ordered, Elements
<1>2. FreshInv => InOrderImagesFresh
  BY DEF FreshInv, InOrderImagesFresh, AtRest
<1>3. QED
  BY <1>1, <1>2, FreshStep, InvHolds, PTL DEF Spec

-----------------------------------------------------------------------------
(* The scans ahead of the clock.                                           *)

\* Buffered scans keep the order they are sent in (ScansInOrder), also while
\* evictions run past the open one.
QueueInOrder(q) ==
  /\ \A i \in DOMAIN q : ~q[i].tiny => q[i].beg < q[i].end
  /\ \A i, j \in DOMAIN q : i < j => q[i].end <= q[j].end

\* No scan to come ends before t.
Ahead(q, done, t) ==
  /\ \A i \in DOMAIN q : t <= q[i].end
  /\ \A j \in DOMAIN Scans : j > done => t <= Scans[j].end

\* The clock, the event and the life cycle of the scan follow the scans; the
\* event is at least at the clock.
ScanInv ==
  /\ QueueInOrder(lid_buffer)
  /\ \A i \in DOMAIN lid_buffer, j \in DOMAIN Scans :
       j > sent.lid => lid_buffer[i].end <= Scans[j].end
  /\ Ahead(lid_buffer, sent.lid, clock)
  /\ lidar_pushed => clock <= scan.end /\ Ahead(lid_buffer, sent.lid, scan.end)
  /\ pc = "imu" => /\ clock <= event.time /\ Ahead(lid_buffer, sent.lid, event.time)
                   /\ lidar_pushed => event.time <= scan.end
                   /\ life.last_t <= event.time
  /\ pc \in {"spin", "estimate", "finish"} => life.last_t <= clock

\* Stretches of a queue in order are in order.
LEMMA QueueStretch ==
  ASSUME NEW q \in Seq(Scan), NEW m \in Nat \ {0}, QueueInOrder(q)
  PROVE  /\ SubSeq(q, m, Len(q)) \in Seq(Scan) /\ QueueInOrder(SubSeq(q, m, Len(q)))
         /\ \A i \in DOMAIN SubSeq(q, m, Len(q)) :
              \E j \in DOMAIN q : SubSeq(q, m, Len(q))[i] = q[j]
<1> DEFINE n == Len(q)
           r == SubSeq(q, m, n)
<1>1. n \in Nat /\ DOMAIN q = 1..n /\ \A i \in 1..n : q[i] \in Scan
  OBVIOUS
<1>2. /\ r \in Seq(Scan) /\ Len(r) = IF m <= n THEN n - m + 1 ELSE 0
      /\ \A i \in 1..(n - m + 1) : r[i] = q[m + i - 1]
  <2>1. m \in Int /\ n \in Int /\ \A i \in m..n : q[i] \in Scan
    BY <1>1
  <2> HIDE DEF n
  <2>2. /\ SubSeq(q, m, n) \in Seq(Scan)
        /\ Len(SubSeq(q, m, n)) = IF m <= n THEN n - m + 1 ELSE 0
        /\ \A i \in 1..(n - m + 1) : SubSeq(q, m, n)[i] = q[m + i - 1]
    BY <2>1, SubSeqProperties
  <2>3. QED
    BY <2>2
<1> HIDE DEF r, n
<1>3. DOMAIN r = 1..Len(r) /\ Len(r) \in Nat
  BY <1>2
<1>4. \A i \in DOMAIN r : (m + i - 1) \in DOMAIN q /\ r[i] = q[m + i - 1]
  BY <1>1, <1>2, <1>3
<1>5. \A i \in DOMAIN r : ~r[i].tiny => r[i].beg < r[i].end
  BY <1>4 DEF QueueInOrder
<1>6. ASSUME NEW i \in DOMAIN r, NEW j \in DOMAIN r, i < j
      PROVE  r[i].end <= r[j].end
  <2>1. m + i - 1 < m + j - 1
    BY <1>3, <1>6
  <2>2. QED
    BY <2>1, <1>4 DEF QueueInOrder
<1>7. QED
  BY <1>2, <1>4, <1>5, <1>6 DEF QueueInOrder, r, n

\* Popping the front keeps everything that is still ahead.
LEMMA TailAhead ==
  ASSUME NEW q \in Seq(Scan), q # <<>>, QueueInOrder(q)
  PROVE  /\ Tail(q) \in Seq(Scan) /\ QueueInOrder(Tail(q))
         /\ \A i \in DOMAIN Tail(q) : \E j \in DOMAIN q : Tail(q)[i] = q[j]
         /\ Head(q) = q[1] /\ 1 \in DOMAIN q
         /\ \A i \in DOMAIN q : Head(q).end <= q[i].end
<1>1. /\ Len(q) \in Nat \ {0} /\ DOMAIN q = 1..Len(q) /\ Head(q) = q[1]
      /\ \A i \in DOMAIN q : q[i] \in Scan
  OBVIOUS
<1>2. Tail(q) = SubSeq(q, 2, Len(q))
  BY HeadTailProperties
<1>3. 2 \in Nat \ {0}
  OBVIOUS
<1>4. /\ SubSeq(q, 2, Len(q)) \in Seq(Scan) /\ QueueInOrder(SubSeq(q, 2, Len(q)))
      /\ \A i \in DOMAIN SubSeq(q, 2, Len(q)) :
           \E j \in DOMAIN q : SubSeq(q, 2, Len(q))[i] = q[j]
  BY <1>3, QueueStretch
<1>5. \A i \in DOMAIN q : q[1].end <= q[i].end
  <2> SUFFICES ASSUME NEW i \in DOMAIN q PROVE q[1].end <= q[i].end
    OBVIOUS
  <2>1. CASE i = 1
    <3>1. q[1] \in Scan
      BY <1>1
    <3>2. q[1].end \in Nat
      BY <3>1 DEF Scan
    <3>3. QED
      BY <2>1, <3>2
  <2>2. CASE i # 1
    <3>1. 1 < i /\ 1 \in DOMAIN q
      BY <2>2, <1>1
    <3>2. QED
      BY <3>1 DEF QueueInOrder
  <2>3. QED
    BY <2>1, <2>2
<1>6. Head(q) = q[1] /\ 1 \in DOMAIN q
  BY <1>1
<1>7. /\ Tail(q) \in Seq(Scan) /\ QueueInOrder(Tail(q))
      /\ \A i \in DOMAIN Tail(q) : \E j \in DOMAIN q : Tail(q)[i] = q[j]
  BY <1>2, <1>4
<1>8. QED
  BY <1>5, <1>6, <1>7

\* An arriving scan joins the end of the queue.
LEMMA ReceiveScanAhead ==
  ASSUME ScansInOrder, Inv, ScanInv, ReceiveScan
  PROVE  ScanInv'
<1> DEFINE n == sent.lid + 1
           s == Scans[n]
           a == Append(lid_buffer, s)
<1>0. UNCHANGED <<pc, lidar_pushed, scan, clock, event, life>>
  BY DEF ReceiveScan, syncVars
<1>1. /\ sent.lid \in Nat /\ n \in DOMAIN Scans /\ s \in Scan
      /\ lid_buffer \in Seq(Scan) /\ sent'.lid = n /\ MaxLidar \in Nat
      /\ DOMAIN Scans = 1..Len(Scans) /\ \A j \in DOMAIN Scans : Scans[j] \in Scan
  <2>1. sent.lid \in 0..Len(Scans) /\ sent.lid < Len(Scans) /\ sent \in Sensors
        /\ sent' = [sent EXCEPT !.lid = @ + 1] /\ lid_buffer \in Seq(Scan)
    BY DEF ReceiveScan, Inv, TypeOK, Sensors
  <2>2. Scans \in Seq(Scan) /\ Len(Scans) \in Nat /\ MaxLidar \in Nat
    BY ParameterTypes
  <2>3. sent'.lid = sent.lid + 1
    BY <2>1 DEF Sensors
  <2>4. DOMAIN Scans = 1..Len(Scans) /\ \A j \in DOMAIN Scans : Scans[j] \in Scan
    BY <2>2
  <2>5. QED
    BY <2>1, <2>2, <2>3, <2>4
<1>2. \A j \in DOMAIN Scans : j > n => j > sent.lid /\ s.end <= Scans[j].end
  BY <1>1 DEF ScansInOrder
<1>3. lid_buffer' = lid_buffer \/ lid_buffer' = KeepNewest(a, MaxLidar)
  BY DEF ReceiveScan
<1>4. /\ a \in Seq(Scan) /\ Len(a) \in Nat
      /\ DOMAIN a = 1..(Len(lid_buffer) + 1) /\ Len(lid_buffer) \in Nat
      /\ DOMAIN lid_buffer = 1..Len(lid_buffer)
      /\ \A i \in DOMAIN lid_buffer : a[i] = lid_buffer[i]
      /\ a[Len(lid_buffer) + 1] = s
  BY <1>1, AppendProperties
<1>5. s.end \in Nat /\ \A i \in DOMAIN lid_buffer : lid_buffer[i].end <= s.end
  <2>1. n > sent.lid
    BY <1>1
  <2>2. QED
    BY <1>1, <2>1 DEF ScanInv, Scan
<1> HIDE DEF n, s, a
<1>6. \A i \in DOMAIN a : a[i] = s \/ i \in DOMAIN lid_buffer
  BY <1>4
<1>7. QueueInOrder(a)
  <2>1. \A i \in DOMAIN a : ~a[i].tiny => a[i].beg < a[i].end
    <3>1. ~s.tiny => s.beg < s.end
      BY <1>1 DEF ScansInOrder, s
    <3>2. QED
      BY <1>4, <1>6, <3>1 DEF ScanInv, QueueInOrder
  <2>2. ASSUME NEW i \in DOMAIN a, NEW j \in DOMAIN a, i < j PROVE a[i].end <= a[j].end
    <3>1. i \in DOMAIN lid_buffer
      BY <2>2, <1>4
    <3>2. CASE j \in DOMAIN lid_buffer
      BY <2>2, <3>1, <3>2, <1>4 DEF ScanInv, QueueInOrder
    <3>3. CASE a[j] = s
      BY <3>1, <3>3, <1>4, <1>5
    <3>4. QED
      BY <1>6, <3>2, <3>3
  <2>3. QED
    BY <2>1, <2>2 DEF QueueInOrder
<1>8. /\ KeepNewest(a, MaxLidar) \in Seq(Scan) /\ QueueInOrder(KeepNewest(a, MaxLidar))
      /\ \A i \in DOMAIN KeepNewest(a, MaxLidar) :
           \E j \in DOMAIN a : KeepNewest(a, MaxLidar)[i] = a[j]
  <2>1. CASE MaxLidar > 0 /\ Len(a) > MaxLidar
    <3>1. (Len(a) - MaxLidar + 1) \in Nat \ {0}
      BY <1>1, <1>4, <2>1
    <3>2. QED
      BY <2>1, <3>1, <1>4, <1>7, QueueStretch DEF KeepNewest
  <2>2. CASE ~(MaxLidar > 0 /\ Len(a) > MaxLidar)
    BY <2>2, <1>4, <1>7 DEF KeepNewest
  <2>3. QED
    BY <2>1, <2>2
<1>9. /\ QueueInOrder(lid_buffer')
      /\ \A i \in DOMAIN lid_buffer' :
           lid_buffer'[i] = s \/ \E j \in DOMAIN lid_buffer : lid_buffer'[i] = lid_buffer[j]
  <2>1. CASE lid_buffer' = lid_buffer
    BY <2>1 DEF ScanInv
  <2>2. CASE lid_buffer' = KeepNewest(a, MaxLidar)
    BY <2>2, <1>4, <1>6, <1>8
  <2>3. QED
    BY <1>3, <2>1, <2>2
<1>10. \A i \in DOMAIN lid_buffer', j \in DOMAIN Scans :
         j > n => lid_buffer'[i].end <= Scans[j].end
  BY <1>2, <1>9 DEF ScanInv
<1>11. ASSUME NEW t, Ahead(lid_buffer, sent.lid, t) PROVE Ahead(lid_buffer', n, t)
  <2>1. n > sent.lid
    BY <1>1 DEF n
  <2>2. t <= s.end
    BY <1>1, <1>11, <2>1 DEF Ahead, s
  <2>3. QED
    BY <1>2, <1>9, <1>11, <2>2 DEF Ahead
<1>12. QED
  BY <1>0, <1>1, <1>9, <1>10, <1>11 DEF ScanInv

LEMMA AheadEarlier ==
  ASSUME NEW q \in Seq(Scan), NEW n \in Nat, NEW t \in Int, NEW u \in Int,
         u <= t, Ahead(q, n, t)
  PROVE  Ahead(q, n, u)
<1>1. \A i \in DOMAIN q : q[i].end \in Nat
  <2>1. \A i \in DOMAIN q : q[i] \in Scan
    OBVIOUS
  <2>2. QED
    BY <2>1 DEF Scan
<1>2. \A j \in DOMAIN Scans : Scans[j].end \in Nat
  <2>1. \A j \in DOMAIN Scans : Scans[j] \in Scan
    BY ParameterTypes
  <2>2. QED
    BY <2>1 DEF Scan
<1>3. QED
  BY <1>1, <1>2 DEF Ahead

\* The scan sync_packages works on ends at or after the clock, and no scan to
\* come ends before it.
LEMMA OpenedAhead ==
  ASSUME Inv, ScanInv, pc = "spin", lid_buffer # <<>>, ~BeginThrows
  PROVE  /\ Opened \in Scan /\ OpenedClock \in Int /\ OpenedClock <= Opened.end
         /\ Ahead(lid_buffer, sent.lid, Opened.end)
         /\ Ahead(lid_buffer, sent.lid, OpenedClock)
         /\ OpenedLife.last_t \in Int /\ OpenedLife.last_t <= OpenedClock
<1>1. /\ lid_buffer \in Seq(Scan) /\ clock \in Int /\ life.last_t \in Int
      /\ sent.lid \in Nat /\ life.last_t <= clock
      /\ \A j \in DOMAIN Scans : Scans[j].end \in Nat
  <2>1. \A j \in DOMAIN Scans : Scans[j] \in Scan
    BY ParameterTypes
  <2>2. sent.lid \in 0..Len(Scans) /\ Len(Scans) \in Nat
    BY ParameterTypes DEF Inv, TypeOK, Sensors
  <2>3. life.last_t \in Int /\ clock \in Int
    BY DEF Inv, TypeOK, Lifecycle, Times, Unset
  <2>4. QED
    BY <2>1, <2>2, <2>3 DEF Inv, TypeOK, ScanInv, Scan
<1>2. Opened \in Scan /\ OpenedClock \in Int /\ Opened.end \in Nat /\ Opened.beg \in Nat
  <2>1. Opened \in Scan /\ OpenedClock \in Times
    BY OpenedTypes DEF Inv
  <2>2. QED
    BY <2>1 DEF Times, Unset, Scan
<1>3. CASE lidar_pushed
  <2>1. Opened = scan /\ OpenedClock = clock /\ OpenedLife = life
    BY <1>3 DEF Opened, OpenedClock, OpenedLife
  <2>2. QED
    BY <1>1, <1>2, <1>3, <2>1 DEF ScanInv
<1>4. CASE ~lidar_pushed
  <2>1. /\ Opened = Head(lid_buffer) /\ OpenedLife.last_t = OpenedClock
        /\ Opened.beg < Opened.end
    BY <1>2, <1>4 DEF Opened, OpenedLife, BeginThrows
  <2>2. /\ Head(lid_buffer) = lid_buffer[1] /\ 1 \in DOMAIN lid_buffer
        /\ \A i \in DOMAIN lid_buffer : Opened.end <= lid_buffer[i].end
    BY <1>1, <2>1, TailAhead DEF ScanInv
  <2>3. \A j \in DOMAIN Scans : j > sent.lid => Opened.end <= Scans[j].end
    BY <2>1, <2>2 DEF ScanInv
  <2>4. clock <= Opened.end
    BY <2>1, <2>2 DEF ScanInv, Ahead
  <2>5. OpenedClock <= Opened.end
    BY <1>1, <1>2, <2>1, <2>4 DEF OpenedClock
  <2>6. Ahead(lid_buffer, sent.lid, Opened.end)
    BY <2>2, <2>3 DEF Ahead
  <2>7. QED
    BY <1>1, <1>2, <2>1, <2>5, <2>6, AheadEarlier
<1>5. QED
  BY <1>3, <1>4

\* So does its next event, an image inside it or its end.
LEMMA EventAhead ==
  ASSUME Inv, ScanInv, FreshInv, pc = "spin", lid_buffer # <<>>, ~BeginThrows
  PROVE  /\ EventTime \in Nat /\ OpenedClock <= EventTime /\ EventTime <= Opened.end
         /\ OpenedLife.last_t <= EventTime
         /\ Ahead(lid_buffer, sent.lid, EventTime)
<1>1. /\ Opened \in Scan /\ OpenedClock \in Int /\ OpenedClock <= Opened.end
      /\ Ahead(lid_buffer, sent.lid, Opened.end)
      /\ OpenedLife.last_t \in Int /\ OpenedLife.last_t <= OpenedClock
  BY OpenedAhead
<1>2. EventTime \in Nat /\ Opened.end \in Nat /\ lid_buffer \in Seq(Scan) /\ sent.lid \in Nat
  <2>1. sent.lid \in 0..Len(Scans) /\ Len(Scans) \in Nat
    BY ParameterTypes DEF Inv, TypeOK, Sensors
  <2>2. QED
    BY <1>1, <2>1, OpenedTypes DEF Inv, TypeOK, Scan
<1>3. OpenedClock <= EventTime /\ EventTime <= Opened.end
  <2>1. CASE ImageInsideScan
    <3>1. FreshImages # <<>> /\ EventTime = Head(FreshImages) /\ Head(FreshImages) < Opened.end
      BY <2>1 DEF ImageInsideScan, EventTime
    <3>2. /\ FreshImages \in Seq(Nat) /\ Ordered(FreshImages)
          /\ \A x \in Elements(FreshImages) : x > OpenedClock - 1
      <4>1. OpenedClock - 1 \in Int /\ img_buffer \in Seq(Nat) /\ Ordered(img_buffer)
        BY <1>1, ImageTypes DEF Inv, FreshInv
      <4>2. QED
        BY <4>1, PopUptoOrdered DEF FreshImages
    <3>3. EventTime > OpenedClock - 1
      BY <3>1, <3>2, HeadOldest
    <3>4. QED
      BY <1>1, <1>2, <3>1, <3>3
  <2>2. CASE ~ImageInsideScan
    BY <1>1, <1>2, <2>2 DEF EventTime
  <2>3. QED
    BY <2>1, <2>2
<1>4. QED
  BY <1>1, <1>2, <1>3, AheadEarlier

LEMMA SyncAhead == Inv /\ FreshInv /\ ScanInv /\ Sync => ScanInv'
<1> SUFFICES ASSUME Inv, FreshInv, ScanInv, Sync PROVE ScanInv'
  OBVIOUS
<1>1. CASE Throw
  BY <1>1 DEF Throw, ScanInv, sensorVars, bufferVars, syncVars
<1>2. ASSUME SyncFrame, pc = "spin", lid_buffer # <<>>, ~BeginThrows, scan' = Opened,
             clock' = OpenedClock, NEW buf,
             SyncWait(buf) \/ DispatchVIO(buf) \/ DispatchLIO(buf)
      PROVE  ScanInv'
  <2>1. sent' = sent
    BY <1>2 DEF SyncFrame, sensorVars
  <2>2. /\ Opened \in Scan /\ OpenedClock \in Int /\ OpenedClock <= Opened.end
        /\ Ahead(lid_buffer, sent.lid, Opened.end)
        /\ Ahead(lid_buffer, sent.lid, OpenedClock)
        /\ OpenedLife.last_t \in Int /\ OpenedLife.last_t <= OpenedClock
    BY <1>2, OpenedAhead
  <2>3. /\ EventTime \in Nat /\ OpenedClock <= EventTime /\ EventTime <= Opened.end
        /\ OpenedLife.last_t <= EventTime
        /\ Ahead(lid_buffer, sent.lid, EventTime)
    BY <1>2, EventAhead
  <2>4. CASE SyncWait(buf)
    <3>1. lid_buffer' = lid_buffer /\ life' = OpenedLife /\ pc' = "spin"
      BY <1>2, <2>4 DEF SyncWait
    <3>2. QED
      BY <1>2, <2>1, <2>2, <3>1 DEF ScanInv
  <2>5. CASE DispatchVIO(buf)
    <3>1. /\ lid_buffer' = lid_buffer /\ pc' \in {"imu", "dead"} /\ event'.time = EventTime
          /\ life' = [OpenedLife EXCEPT !.last_t = IF EventTime > OpenedLife.last_t
                                                   THEN EventTime ELSE OpenedLife.last_t]
      BY <2>5 DEF DispatchVIO
    <3>2. OpenedLife \in Lifecycle
      BY <1>2, OpenedTypes DEF Inv
    <3>3. life'.last_t = IF EventTime > OpenedLife.last_t THEN EventTime ELSE OpenedLife.last_t
      BY <3>1, <3>2 DEF Lifecycle
    <3>4. life'.last_t <= EventTime
      BY <2>2, <2>3, <3>3
    <3>5. QED
      BY <1>2, <2>1, <2>2, <2>3, <3>1, <3>4 DEF ScanInv
  <2>6. CASE DispatchLIO(buf)
    <3>1. /\ lid_buffer' = Tail(lid_buffer) /\ pc' = "imu" /\ ~lidar_pushed'
          /\ life' = OpenedLife /\ event'.time = EventTime
      BY <2>6 DEF DispatchLIO
    <3>2. /\ QueueInOrder(Tail(lid_buffer))
          /\ \A i \in DOMAIN Tail(lid_buffer) :
               \E j \in DOMAIN lid_buffer : Tail(lid_buffer)[i] = lid_buffer[j]
      BY <1>2, TailAhead DEF Inv, TypeOK, ScanInv
    <3>3. ASSUME NEW t, Ahead(lid_buffer, sent.lid, t)
          PROVE  Ahead(Tail(lid_buffer), sent.lid, t)
      BY <3>2, <3>3 DEF Ahead
    <3>4. \A i \in DOMAIN Tail(lid_buffer), j \in DOMAIN Scans :
            j > sent.lid => Tail(lid_buffer)[i].end <= Scans[j].end
      BY <3>2 DEF ScanInv
    <3>5. QED
      BY <1>2, <2>1, <2>2, <2>3, <3>1, <3>2, <3>3, <3>4 DEF ScanInv
  <2>7. QED
    BY <1>2, <2>4, <2>5, <2>6
<1>3. QED
  BY <1>1, <1>2, SyncOutcomes

LEMMA ScanStep == ScansInOrder /\ Inv /\ FreshInv /\ ScanInv /\ [Next]_vars => ScanInv'
<1> SUFFICES ASSUME ScansInOrder, Inv, FreshInv, ScanInv, [Next]_vars PROVE ScanInv'
  OBVIOUS
<1>1. CASE Throw
  BY <1>1 DEF Throw, ScanInv, sensorVars, bufferVars, syncVars
<1>2. CASE ReceiveScan
  BY <1>2, ReceiveScanAhead
<1>3. CASE ReceiveAnyImu \/ ReceiveAnyImg
  <2>1. UNCHANGED <<pc, lid_buffer, lidar_pushed, scan, clock, event, life>>
    BY <1>3 DEF ReceiveAnyImu, ReceiveImu, ReceiveAnyImg, ReceiveImg, syncVars
  <2>2. (\E f : sent' = [sent EXCEPT !.imu = f]) \/ (\E g : sent' = [sent EXCEPT !.img = g])
    BY <1>3 DEF ReceiveAnyImu, ReceiveImu, ReceiveAnyImg, ReceiveImg
  <2>3. sent'.lid = sent.lid
    BY <2>2 DEF Inv, TypeOK, Sensors
  <2>4. QED
    BY <2>1, <2>3 DEF ScanInv
<1>4. CASE Sync
  BY <1>4, SyncAhead
<1>5. CASE ProcessImu /\ ~Throw
  <2>1. /\ pc = "imu" /\ pc' = "estimate" /\ clock' = event.time /\ NoteLio
        /\ UNCHANGED <<lid_buffer, lidar_pushed, scan, sent>>
    BY <1>5 DEF ProcessImu, sensorVars, bufferVars
  <2>2. life \in Lifecycle /\ life.last_t \in Int /\ event.time \in Nat
    BY DEF Inv, TypeOK, Lifecycle, Times, Unset, Events
  <2>3. life'.last_t <= event.time
    <3>1. life.last_t <= event.time
      BY <2>1 DEF ScanInv
    <3>2. \/ life' = life
          \/ \E n : life' = [life EXCEPT !.lio = n,
                       !.last_t = IF event.time > life.last_t THEN event.time ELSE life.last_t]
      BY <2>1 DEF NoteLio
    <3>3. life'.last_t = life.last_t \/ life'.last_t = event.time
      BY <2>2, <3>2 DEF Lifecycle
    <3>4. QED
      BY <2>2, <3>1, <3>3
  <2>4. QED
    BY <2>1, <2>3 DEF ScanInv
<1>6. CASE ~Throw /\ \E outcome \in VioOutcomes : HandleVIO(outcome)
  BY <1>6 DEF HandleVIO, ScanInv, sensorVars, bufferVars, syncVars
<1>7. CASE ~Throw /\ \E outcome \in LioOutcomes, insert \in BOOLEAN : HandleLIO(outcome, insert)
  <2>1. /\ pc = "estimate" /\ pc' = "finish" /\ UNCHANGED <<sensorVars, bufferVars, syncVars>>
        /\ \E n : life' = [life EXCEPT !.ins = n]
    BY <1>7 DEF HandleLIO
  <2>2. life'.last_t = life.last_t
    BY <2>1 DEF Inv, TypeOK, Lifecycle
  <2>3. QED
    BY <2>1, <2>2 DEF ScanInv, sensorVars, bufferVars, syncVars
<1>8. CASE Finish /\ ~Throw
  BY <1>8 DEF Finish, ScanInv, sensorVars, syncVars
<1>9. CASE ImuPropTimer
  BY <1>9 DEF ImuPropTimer, ScanInv, sensorVars, bufferVars, syncVars
<1>10. CASE UNCHANGED vars
  BY <1>10 DEF vars, ScanInv, sensorVars, bufferVars, syncVars
<1>11. QED
  BY <1>1, <1>2, <1>3, <1>4, <1>5, <1>6, <1>7, <1>8, <1>9, <1>10 DEF Next, Step

LEMMA ScanInit == Init => ScanInv
<1> SUFFICES ASSUME Init PROVE ScanInv
  OBVIOUS
<1>1. \A j \in DOMAIN Scans : Scans[j].end \in Nat
  <2>1. \A j \in DOMAIN Scans : Scans[j] \in Scan
    BY ParameterTypes
  <2>2. QED
    BY <2>1 DEF Scan
<1>2. lid_buffer = <<>> /\ DOMAIN lid_buffer = {} /\ clock = -1 /\ pc = "spin" /\ ~lidar_pushed
      /\ life.last_t = -1
  BY DEF Init, Unset
<1>3. \A j \in DOMAIN Scans : -1 <= Scans[j].end
  BY <1>1
<1>4. QED
  BY <1>2, <1>3 DEF ScanInv, QueueInOrder, Ahead

-----------------------------------------------------------------------------
(* The IMU samples.                                                        *)

\* No stamp is sent twice.
Unique == \A t \in ImuStamps : sent.imu[t] <= 1

Distinct(s) == \A i, j \in DOMAIN s : s[i] = s[j] => i = j

\* The buffer holds samples that were sent, each once if stamps are unique.
SamplesInv ==
  /\ \A x \in Elements(imu_buffer) : sent.imu[x] > 0
  /\ Unique => Distinct(imu_buffer)

LEMMA StretchDistinct ==
  ASSUME NEW s \in Seq(Nat), NEW m \in Nat \ {0}, NEW n \in Nat, n <= Len(s)
  PROVE  /\ Elements(SubSeq(s, m, n)) \subseteq Elements(s)
         /\ Distinct(s) => Distinct(SubSeq(s, m, n))
<1> DEFINE r == SubSeq(s, m, n)
<1>1. Len(s) \in Nat /\ DOMAIN s = 1..Len(s) /\ \A i \in 1..Len(s) : s[i] \in Nat
  OBVIOUS
<1>2. /\ r \in Seq(Nat) /\ Len(r) = IF m <= n THEN n - m + 1 ELSE 0
      /\ \A i \in 1..(n - m + 1) : r[i] = s[m + i - 1]
  <2>1. m \in Int /\ n \in Int /\ \A i \in m..n : s[i] \in Nat
    BY <1>1
  <2>2. /\ SubSeq(s, m, n) \in Seq(Nat)
        /\ Len(SubSeq(s, m, n)) = IF m <= n THEN n - m + 1 ELSE 0
        /\ \A i \in 1..(n - m + 1) : SubSeq(s, m, n)[i] = s[m + i - 1]
    BY <2>1, SubSeqProperties
  <2>3. QED
    BY <2>2
<1> HIDE DEF r
<1>3. DOMAIN r = 1..Len(r) /\ Len(r) \in Nat
  BY <1>2
<1>4. \A i \in DOMAIN r : (m + i - 1) \in DOMAIN s /\ r[i] = s[m + i - 1]
  <2> SUFFICES ASSUME NEW i \in 1..Len(r)
               PROVE  (m + i - 1) \in 1..Len(s) /\ r[i] = s[m + i - 1]
    BY <1>1, <1>3
  <2>1. i \in 1..(n - m + 1)
    BY <1>2
  <2>2. (m + i - 1) \in 1..Len(s)
    BY <1>1, <2>1
  <2>3. QED
    BY <1>2, <2>1, <2>2
<1>5. ASSUME Distinct(s), NEW i \in DOMAIN r, NEW j \in DOMAIN r, r[i] = r[j] PROVE i = j
  <2>1. m + i - 1 = m + j - 1
    BY <1>4, <1>5 DEF Distinct
  <2>2. QED
    BY <2>1, <1>3
<1>6. Distinct(s) => Distinct(r)
  BY <1>5 DEF Distinct
<1>7. Elements(r) \subseteq Elements(s)
  BY <1>4 DEF Elements
<1>8. QED
  BY <1>6, <1>7 DEF r

LEMMA PopUptoDistinct ==
  ASSUME NEW s \in Seq(Nat), NEW t \in Int
  PROVE  /\ Elements(PopUpto(s, t)) \subseteq Elements(s)
         /\ Distinct(s) => Distinct(PopUpto(s, t))
<1> DEFINE k == Upto(s, t)
<1>1. k \in 0..Len(s)
  BY UptoProperties
<1> HIDE DEF k
<1>2. k + 1 \in Nat \ {0} /\ Len(s) \in Nat /\ Len(s) <= Len(s)
  BY <1>1
<1>3. /\ Elements(SubSeq(s, k + 1, Len(s))) \subseteq Elements(s)
      /\ Distinct(s) => Distinct(SubSeq(s, k + 1, Len(s)))
  BY <1>2, StretchDistinct
<1>4. PopUpto(s, t) = SubSeq(s, k + 1, Len(s))
  BY DEF PopUpto, k
<1>5. QED
  BY <1>3, <1>4

LEMMA KeepNewestDistinct ==
  ASSUME NEW s \in Seq(Nat), NEW cap \in Nat
  PROVE  /\ Elements(KeepNewest(s, cap)) \subseteq Elements(s)
         /\ Distinct(s) => Distinct(KeepNewest(s, cap))
<1>1. CASE cap > 0 /\ Len(s) > cap
  <2>1. Len(s) - cap + 1 \in Nat \ {0} /\ Len(s) \in Nat /\ Len(s) <= Len(s)
    BY <1>1
  <2>2. QED
    BY <1>1, <2>1, StretchDistinct DEF KeepNewest
<1>2. CASE ~(cap > 0 /\ Len(s) > cap)
  BY <1>2 DEF KeepNewest
<1>3. QED
  BY <1>1, <1>2

LEMMA AppendDistinct ==
  ASSUME NEW s \in Seq(Nat), NEW t \in Nat
  PROVE  /\ Append(s, t) \in Seq(Nat)
         /\ Elements(Append(s, t)) \subseteq Elements(s) \cup {t}
         /\ Distinct(s) /\ t \notin Elements(s) => Distinct(Append(s, t))
<1> DEFINE a == Append(s, t)
           n == Len(s) + 1
<1>1. /\ a \in Seq(Nat) /\ DOMAIN a = 1..n /\ DOMAIN s = 1..Len(s) /\ Len(s) \in Nat
      /\ \A i \in DOMAIN s : a[i] = s[i]
      /\ a[n] = t
  BY AppendProperties
<1> HIDE DEF a
<1>2. \A i \in DOMAIN a : i \in DOMAIN s \/ i = n
  BY <1>1
<1> HIDE DEF n
<1>3. \A i \in DOMAIN s : s[i] \in Elements(s)
  BY DEF Elements
<1>4. Elements(a) \subseteq Elements(s) \cup {t}
  BY <1>1, <1>2, <1>3 DEF Elements
<1>5. ASSUME Distinct(s), t \notin Elements(s), NEW i \in DOMAIN a, NEW j \in DOMAIN a, a[i] = a[j]
      PROVE  i = j
  <2>1. CASE i \in DOMAIN s /\ j \in DOMAIN s
    BY <2>1, <1>1, <1>5 DEF Distinct
  <2>2. CASE i \in DOMAIN s /\ j = n
    BY <2>2, <1>1, <1>3, <1>5
  <2>3. CASE i = n /\ j \in DOMAIN s
    BY <2>3, <1>1, <1>3, <1>5
  <2>4. QED
    BY <2>1, <2>2, <2>3, <1>2
<1>6. Distinct(s) /\ t \notin Elements(s) => Distinct(a)
  BY <1>5 DEF Distinct
<1>7. QED
  BY <1>1, <1>4, <1>6 DEF a

\* Sorting repeats nothing.
LEMMA SortedDistinct ==
  ASSUME NEW S, NEW s \in Seq(S), NEW t \in SortedForms(s), Distinct(s)
  PROVE  Distinct(t)
<1>1. /\ Elements(t) = Elements(s)
      /\ \A x \in Elements(s) : Occurrences(t, x) = Occurrences(s, x)
  BY DEF SortedForms
<1>2. t \in Seq(S)
  BY SortedFormsType
<1>3. ASSUME NEW i \in DOMAIN t, NEW j \in DOMAIN t, t[i] = t[j]
      PROVE  i = j
  <2> DEFINE x == t[i]
             In(u) == {k \in DOMAIN u : u[k] = x}
  <2>1. x \in Elements(s)
    BY <1>1, <1>3 DEF Elements
  <2>2. PICK k \in DOMAIN s : s[k] = x
    BY <2>1 DEF Elements
  <2>3. In(s) = {k}
    BY <2>2 DEF Distinct
  <2>4. Cardinality({k}) = 1
    BY FS_Singleton
  <2>5. Cardinality(In(t)) = 1
    BY <1>1, <2>1, <2>3, <2>4 DEF Occurrences
  <2>6. IsFiniteSet(In(t))
    <3>1. DOMAIN t = 1..Len(t) /\ Len(t) \in Int /\ 1 \in Int
      BY <1>2
    <3>2. IsFiniteSet(1..Len(t))
      BY <3>1, FS_Interval
    <3>3. In(t) \in SUBSET (1..Len(t))
      BY <3>1
    <3>4. QED
      BY <3>2, <3>3, FS_Subset
  <2>7. PICK m : In(t) = {m}
    BY <2>5, <2>6, FS_Singleton
  <2>8. i \in In(t) /\ j \in In(t)
    BY <1>3
  <2>9. QED
    BY <2>7, <2>8
<1>4. QED
  BY <1>3 DEF Distinct

\* Only a repeated stamp can take the uniqueness away, and nothing restores it.
LEMMA UniqueStays ==
  ASSUME TypeOK, [Next]_vars, Unique'
  PROVE  Unique
<1>1. CASE sent' = sent
  BY <1>1 DEF Unique
<1>2. CASE ReceiveScan \/ ReceiveAnyImg
  <2>1. (\E n : sent' = [sent EXCEPT !.lid = n]) \/ (\E g : sent' = [sent EXCEPT !.img = g])
    BY <1>2 DEF ReceiveScan, ReceiveAnyImg, ReceiveImg
  <2>2. sent'.imu = sent.imu
    BY <2>1 DEF TypeOK, Sensors
  <2>3. QED
    BY <2>2 DEF Unique
<1>3. CASE ReceiveAnyImu
  <2>1. PICK t \in ImuStamps : sent' = [sent EXCEPT !.imu[t] = @ + 1]
    BY <1>3 DEF ReceiveAnyImu, ReceiveImu
  <2>2. sent.imu \in [ImuStamps -> Int]
    <3>1. sent.imu \in [ImuStamps -> 0..ImuCopies]
      BY DEF TypeOK, Sensors
    <3>2. QED
      BY <3>1
  <2>3. sent'.imu = [sent.imu EXCEPT ![t] = @ + 1]
    BY <2>1 DEF TypeOK, Sensors
  <2>4. \A u \in ImuStamps : sent.imu[u] <= sent'.imu[u]
    BY <2>2, <2>3
  <2>5. \A u \in ImuStamps : sent'.imu[u] \in Int /\ sent.imu[u] \in Int
    BY <2>2, <2>3
  <2>6. QED
    BY <2>4, <2>5 DEF Unique
<1>4. ~(ReceiveScan \/ ReceiveAnyImg \/ ReceiveAnyImu) => sent' = sent
  BY DEF Next, Step, Sync, Throw, SyncWait, ProcessImu, HandleVIO, HandleLIO, Finish,
         ImuPropTimer, vars, sensorVars, SyncEvent
<1>5. QED
  BY <1>1, <1>2, <1>3, <1>4

-----------------------------------------------------------------------------
(* The samples of an event support its propagation.                        *)

\* HasRight, NewCount, LastSelected and Deficient of an event with samples q.
RightOf(q, target) == q # <<>> /\ q[Len(q)] > target
CountOf(q, target) == Len(q) - (IF RightOf(q, target) THEN 1 ELSE 0)
LastOf(c, q, target) == IF CountOf(q, target) = 0 THEN c.carry ELSE q[CountOf(q, target)]
SupportsOf(c, q, target) ==
  NeedsRight(c, target, CountOf(q, target), LastOf(c, q, target)) <=> RightOf(q, target)

\* What a view promises the propagation it is made for: its samples are after
\* the core, in order, and the right support is there when it is needed.
ViewInv ==
  pc = "imu" /\ ~need_init =>
    /\ \A i \in DOMAIN event.imu : event.imu[i] > core.cov
    /\ Ordered(event.imu)
    /\ Unique => Distinct(event.imu)
    /\ SupportsOf(core, event.imu, event.time)

LEMMA ViewSamples ==
  ASSUME NEW buf \in Seq(Nat), Ordered(buf), NEW c \in Core, NEW target \in Nat,
         c.cov <= target, View(buf, c, target).ready
  PROVE  LET q == View(buf, c, target).imu IN
         /\ q \in Seq(Nat) /\ Ordered(q) /\ \A i \in DOMAIN q : q[i] > c.cov
         /\ Distinct(buf) => Distinct(q)
         /\ SupportsOf(c, q, target)
<1> DEFINE lo == Upto(buf, c.cov)
           hi == Upto(buf, target)
           last == IF hi > lo THEN buf[hi] ELSE c.carry
           right == NeedsRight(c, target, hi - lo, last)
           top == IF right THEN hi + 1 ELSE hi
           q == SubSeq(buf, lo + 1, top)
<1>1. Len(buf) \in Nat /\ DOMAIN buf = 1..Len(buf) /\ \A i \in 1..Len(buf) : buf[i] \in Nat
  OBVIOUS
<1>2. c.cov \in Nat /\ c.carry \in Nat /\ c.cov \in Int
  BY DEF Core
<1>3. lo \in 0..Len(buf) /\ \A i \in 1..lo : buf[i] <= c.cov
  BY <1>2, UptoProperties
<1>4. lo < Len(buf) => buf[lo + 1] > c.cov
  BY <1>2, UptoProperties
<1>5. hi \in 0..Len(buf) /\ (\A i \in 1..hi : buf[i] <= target)
      /\ (hi < Len(buf) => buf[hi + 1] > target)
  BY UptoProperties
<1>6. View(buf, c, target).imu = q /\ (right => hi < Len(buf))
  BY DEF View
<1> HIDE DEF lo, hi
<1>7. lo <= hi
  <2> SUFFICES ASSUME hi < lo PROVE FALSE
    BY <1>1, <1>3, <1>5
  <2>1. hi + 1 \in 1..lo /\ hi < Len(buf) /\ hi + 1 \in 1..Len(buf)
    BY <1>1, <1>3, <1>5
  <2>2. buf[hi + 1] <= c.cov /\ buf[hi + 1] > target
    BY <1>3, <1>5, <2>1
  <2>3. QED
    BY <1>1, <1>2, <2>1, <2>2
<1> HIDE DEF last, right
<1>8. top \in 0..Len(buf) /\ hi <= top /\ top = hi + (IF right THEN 1 ELSE 0)
  BY <1>1, <1>5, <1>6
<1> HIDE DEF top
<1>9. /\ q \in Seq(Nat) /\ Ordered(q) /\ (Distinct(buf) => Distinct(q))
      /\ Len(q) = top - lo
      /\ \A i \in 1..Len(q) : q[i] = buf[lo + i] /\ (lo + i) \in 1..Len(buf)
  <2>1. lo + 1 \in Nat \ {0} /\ top \in Nat /\ top <= Len(buf)
    BY <1>1, <1>3, <1>8
  <2>2. /\ q \in Seq(Nat) /\ Ordered(q)
        /\ Len(q) = IF lo + 1 <= top THEN top - (lo + 1) + 1 ELSE 0
        /\ \A i \in 1..Len(q) : q[i] = buf[lo + 1 + i - 1] /\ (lo + 1 + i - 1) \in 1..Len(buf)
    BY <2>1, StretchOrdered
  <2>3. Distinct(buf) => Distinct(q)
    BY <2>1, StretchDistinct
  <2> HIDE DEF q
  <2>4. Len(q) = top - lo
    BY <1>1, <1>3, <1>5, <1>7, <1>8, <2>2
  <2>5. \A i \in 1..Len(q) : lo + 1 + i - 1 = lo + i
    BY <1>1, <1>3, <2>2
  <2>6. QED
    BY <2>2, <2>3, <2>4, <2>5
<1> HIDE DEF q
<1>10. DOMAIN q = 1..Len(q) /\ Len(q) \in Nat /\ (q = <<>> <=> Len(q) = 0)
  BY <1>9, EmptySeq
<1>11. \A i \in DOMAIN q : q[i] > c.cov
  <2> SUFFICES ASSUME NEW i \in 1..Len(q) PROVE q[i] > c.cov
    BY <1>10
  <2>1. q[i] = buf[lo + i] /\ lo + i \in 1..Len(buf) /\ lo + 1 <= lo + i /\ lo + 1 \in 1..Len(buf)
    BY <1>1, <1>3, <1>9
  <2>2. buf[lo + 1] <= buf[lo + i]
    BY <1>1, <2>1 DEF Ordered
  <2>3. buf[lo + 1] > c.cov
    BY <1>1, <1>3, <1>4, <2>1
  <2>4. QED
    BY <1>1, <1>2, <2>1, <2>2, <2>3
<1>12. RightOf(q, target) <=> right
  <2>1. CASE right
    <3>1. Len(q) = hi + 1 - lo /\ Len(q) \in 1..Len(q) /\ lo + Len(q) = hi + 1 /\ Len(q) # 0
      BY <1>1, <1>3, <1>5, <1>7, <1>8, <1>9, <2>1
    <3>2. q[Len(q)] = buf[hi + 1] /\ hi < Len(buf)
      BY <1>6, <1>9, <2>1, <3>1
    <3>3. QED
      BY <1>5, <1>10, <2>1, <3>1, <3>2 DEF RightOf
  <2>2. CASE ~right
    <3>1. Len(q) = hi - lo
      BY <1>8, <1>9, <2>2, <1>1, <1>3, <1>5
    <3>2. CASE Len(q) = 0
      BY <1>10, <2>2, <3>2 DEF RightOf
    <3>3. CASE Len(q) # 0
      <4>1. Len(q) \in 1..Len(q) /\ lo + Len(q) = hi /\ hi \in 1..hi /\ hi \in 1..Len(buf)
        <5>1. Len(q) \in Nat /\ lo \in Nat /\ hi \in Nat /\ hi <= Len(buf)
          BY <1>1, <1>3, <1>5, <1>10
        <5>2. QED
          BY <1>1, <3>1, <3>3, <5>1
      <4>2. q[Len(q)] = buf[hi] /\ buf[hi] <= target /\ buf[hi] \in Nat
        BY <1>1, <1>5, <1>9, <4>1
      <4>3. QED
        BY <2>2, <4>2 DEF RightOf
    <3>4. QED
      BY <3>2, <3>3
  <2>3. QED
    BY <2>1, <2>2
<1>13. CountOf(q, target) = hi - lo
  BY <1>1, <1>3, <1>5, <1>8, <1>9, <1>12 DEF CountOf
<1>14. LastOf(c, q, target) = last
  <2>1. CASE hi = lo
    BY <1>1, <1>3, <1>13, <2>1 DEF LastOf, last
  <2>2. CASE hi # lo
    <3>1. hi > lo /\ hi - lo # 0 /\ hi - lo \in 1..Len(q) /\ lo + (hi - lo) = hi
      BY <1>1, <1>3, <1>5, <1>7, <1>8, <1>9, <2>2
    <3>2. q[hi - lo] = buf[hi]
      BY <1>9, <3>1
    <3>3. QED
      BY <1>13, <3>1, <3>2 DEF LastOf, last
  <2>3. QED
    BY <2>1, <2>2
<1>15. SupportsOf(c, q, target)
  BY <1>12, <1>13, <1>14 DEF SupportsOf, right
<1>16. QED
  BY <1>6, <1>9, <1>11, <1>15

LEMMA WalkSamples ==
  ASSUME TypeOK
  PROVE  /\ event.imu \in Seq(Nat) /\ Len(event.imu) \in Nat
         /\ DOMAIN event.imu = 1..Len(event.imu)
         /\ Len(Walk) = Len(event.imu) + 1 /\ Walk[1] = core.carry
         /\ \A i \in 1..Len(event.imu) : Walk[i + 1] = event.imu[i] /\ event.imu[i] \in Nat
<1>1. event.imu \in Seq(Nat) /\ Len(event.imu) \in Nat /\ core.carry \in Nat
      /\ \A i \in 1..Len(event.imu) : event.imu[i] \in Nat
  <2>1. event.imu \in Seq(ImuStamps) /\ core.carry \in Nat
    BY DEF TypeOK, Events, Core
  <2>2. event.imu \in Seq(Nat) /\ Len(event.imu) \in Nat
        /\ \A i \in 1..Len(event.imu) : event.imu[i] \in ImuStamps
    BY <2>1, SeqOfStamps, ParameterTypes
  <2>3. QED
    BY <2>1, <2>2, ParameterTypes
<1> DEFINE q == event.imu
           w == <<core.carry>>
<1>2. w \in Seq(Nat) /\ Len(w) = 1 /\ w[1] = core.carry
  BY <1>1
<1> HIDE DEF q, w
<1>3. q \in Seq(Nat) /\ Len(q) \in Nat /\ \A i \in 1..Len(q) : q[i] \in Nat
  BY <1>1 DEF q
<1>4. /\ Len(w \o q) = Len(w) + Len(q)
      /\ \A i \in 1..(Len(w) + Len(q)) :
           (w \o q)[i] = IF i <= Len(w) THEN w[i] ELSE q[i - Len(w)]
  BY <1>2, <1>3, ConcatProperties
<1>5. Walk = w \o q
  BY DEF Walk, w, q
<1>6. Len(Walk) = Len(q) + 1 /\ Walk[1] = core.carry
  BY <1>2, <1>3, <1>4, <1>5
<1>7. \A i \in 1..Len(q) : Walk[i + 1] = q[i]
  <2> SUFFICES ASSUME NEW i \in 1..Len(q) PROVE Walk[i + 1] = q[i]
    OBVIOUS
  <2>1. i + 1 \in 1..(Len(w) + Len(q)) /\ ~(i + 1 <= Len(w)) /\ i + 1 - Len(w) = i
    BY <1>2, <1>3
  <2>2. QED
    BY <1>4, <1>5, <2>1
<1>8. DOMAIN q = 1..Len(q)
  BY <1>3
<1>9. QED
  BY <1>3, <1>6, <1>7, <1>8 DEF q

LEMMA WalkSupport ==
  ASSUME TypeOK
  PROVE  /\ HasRight <=> RightOf(event.imu, event.time)
         /\ NewCount = CountOf(event.imu, event.time) /\ NewCount \in Nat
         /\ NewCount <= Len(event.imu)
         /\ LastSelected = LastOf(core, event.imu, event.time)
         /\ Deficient <=> NeedsRight(core, event.time, CountOf(event.imu, event.time),
                                     LastOf(core, event.imu, event.time))
<1>1. /\ event.imu \in Seq(Nat) /\ Len(event.imu) \in Nat
      /\ Walk[1] = core.carry
      /\ \A i \in 1..Len(event.imu) : Walk[i + 1] = event.imu[i]
  BY WalkSamples
<1>2. event.imu # <<>> <=> Len(event.imu) # 0
  BY <1>1, EmptySeq
<1>3. HasRight <=> RightOf(event.imu, event.time)
  BY DEF HasRight, RightOf
<1>4. NewCount = CountOf(event.imu, event.time)
  BY <1>3 DEF NewCount, CountOf
<1>5. NewCount \in Nat /\ NewCount <= Len(event.imu)
  <2>1. HasRight => Len(event.imu) # 0
    BY <1>2 DEF HasRight
  <2>2. CASE HasRight
    <3>1. NewCount = Len(event.imu) - 1
      BY <2>2 DEF NewCount
    <3>2. QED
      BY <1>1, <2>1, <2>2, <3>1
  <2>3. CASE ~HasRight
    <3>1. NewCount = Len(event.imu)
      BY <1>1, <2>3 DEF NewCount
    <3>2. QED
      BY <1>1, <3>1
  <2>4. QED
    BY <2>2, <2>3
<1>6. LastSelected = LastOf(core, event.imu, event.time)
  <2>1. CASE NewCount = 0
    BY <1>1, <1>4, <2>1 DEF LastSelected, LastOf
  <2>2. CASE NewCount # 0
    <3>1. NewCount \in 1..Len(event.imu)
      BY <1>1, <1>5, <2>2
    <3>2. Walk[NewCount + 1] = event.imu[NewCount]
      BY <1>1, <3>1
    <3>3. QED
      BY <1>4, <2>2, <3>2 DEF LastSelected, LastOf
  <2>3. QED
    BY <2>1, <2>2
<1>7. QED
  BY <1>3, <1>4, <1>5, <1>6 DEF Deficient

\* The right support is a sample the next event starts from, not a hole.
LEMMA RightCompletes ==
  ASSUME TypeOK, HasRight, Deficient, core.carry <= core.cov,
         \A i \in DOMAIN event.imu : event.imu[i] > core.cov
  PROVE  CoverageComplete
<1> DEFINE q == event.imu
           n == NewCount
           T == event.time
           C == core.cov
           K == core.carry
<1>1. /\ Len(q) \in Nat /\ Len(Walk) = Len(q) + 1 /\ Walk[1] = K
      /\ \A i \in 1..Len(q) : Walk[i + 1] = q[i] /\ q[i] \in Nat /\ q[i] > C
      /\ C \in Nat /\ K \in Nat /\ T \in Nat
  BY WalkSamples DEF TypeOK, Core, Events
<1>2. n = Len(q) - 1 /\ n \in Nat /\ Len(q) \in 1..Len(q) /\ q[Len(q)] > T
  BY <1>1, WalkSupport, EmptySeq DEF HasRight, NewCount
<1>3. T > C /\ n <= 1 /\ LastSelected < T /\ (n = 0 \/ K < C)
  BY DEF Deficient, NeedsRight
<1>4. CASE n = 0
  <2>1. Len(q) = 1 /\ Walk[2] = q[1] /\ q[1] > T /\ Len(Walk) - 1 = 1
    BY <1>1, <1>2, <1>4
  <2>2. IntervalStart(1) = C
    BY <1>1 DEF IntervalStart
  <2>3. IntervalEnd(1) = T
    BY <2>1, <1>1 DEF IntervalEnd
  <2>4. QED
    BY <1>1, <1>3, <2>1, <2>2, <2>3 DEF CoverageComplete
<1>5. CASE n = 1
  <2>1. /\ Len(q) = 2 /\ Len(Walk) - 1 = 2 /\ Walk[2] = q[1] /\ Walk[3] = q[2] /\ q[2] > T
        /\ q[1] \in Nat /\ q[1] > C /\ q[2] \in Nat
    <3>1. Len(q) = 2
      BY <1>1, <1>2, <1>5
    <3>2. 1 \in 1..Len(q) /\ 2 \in 1..Len(q) /\ Len(Walk) - 1 = 2
      BY <1>1, <3>1
    <3>3. Walk[1 + 1] = q[1] /\ Walk[2 + 1] = q[2] /\ q[Len(q)] > T
      BY <1>1, <1>2, <3>2
    <3>4. q[1] \in Nat /\ q[1] > C /\ q[2] \in Nat
      BY <1>1, <3>2
    <3>5. QED
      BY <3>1, <3>2, <3>3, <3>4
  <2>2. q[1] < T
    BY <1>3, <1>5, <2>1 DEF LastSelected
  <2>3. IntervalStart(1) = C /\ IntervalStart(2) = q[1]
    BY <1>1, <2>1 DEF IntervalStart
  <2>4. IntervalEnd(1) = q[1]
    BY <1>1, <2>1, <2>2 DEF IntervalEnd
  <2>5. IntervalEnd(2) = T
    BY <1>1, <2>1 DEF IntervalEnd
  <2>8. Len(Walk) - 1 = 2
    BY <2>1
  <2>6. 1..(Len(Walk) - 1) = {1, 2}
    <3>1. 1..2 = {1, 2}
      OBVIOUS
    <3>2. QED
      BY <2>8, <3>1
  <2>7. QED
    BY <1>1, <2>1, <2>2, <2>3, <2>4, <2>5, <2>6 DEF CoverageComplete
<1> HIDE DEF n
<1>6. n = 0 \/ n = 1
  <2>1. n \in Nat
    BY <1>2
  <2>2. n <= 1
    BY <1>3
  <2>3. QED
    BY <2>1, <2>2
<1>7. QED
  BY <1>4, <1>5, <1>6

\* Without it the samples tile the interval, when no stamp comes twice.
LEMMA SamplesTile ==
  ASSUME TypeOK, ~HasRight, ~Deficient, core.carry <= core.cov, core.cov <= event.time,
         \A i \in DOMAIN event.imu : event.imu[i] > core.cov,
         Ordered(event.imu), Distinct(event.imu)
  PROVE  CoverageComplete
<1> DEFINE q == event.imu
           n == Len(q)
           T == event.time
           C == core.cov
           K == core.carry
<1>1. /\ n \in Nat /\ Len(Walk) - 1 = n /\ Walk[1] = K /\ DOMAIN q = 1..n
      /\ \A i \in 1..n : Walk[i + 1] = q[i] /\ q[i] \in Nat /\ q[i] > C
      /\ C \in Nat /\ K \in Nat /\ T \in Nat /\ K <= C /\ C <= T
  BY SMTT(30), WalkSamples DEF TypeOK, Core, Events
<1>2. NewCount = n
  BY <1>1 DEF NewCount
<1>3. \A i \in 1..n : i > 1 => q[i - 1] < q[i]
  <2> SUFFICES ASSUME NEW i \in 1..n, i > 1 PROVE q[i - 1] < q[i]
    OBVIOUS
  <2>1. i - 1 \in 1..n /\ i - 1 < i /\ i - 1 # i
    BY <1>1
  <2>2. q[i - 1] <= q[i] /\ q[i - 1] # q[i] /\ q[i] \in Nat /\ q[i - 1] \in Nat
    BY <1>1, <2>1 DEF Ordered, Distinct
  <2>3. QED
    BY <2>2
<1>4. n # 0 => q[n] <= T
  <2>1. n # 0 => q # <<>> /\ n \in 1..n
    BY <1>1
  <2>2. QED
    BY <2>1, <1>1 DEF HasRight
<1>5. IntervalStart(1) = C
  BY <1>1 DEF IntervalStart
<1>6. \A i \in 1..n : i > 1 => IntervalStart(i) = q[i - 1] /\ Walk[i] = q[i - 1]
  <2> SUFFICES ASSUME NEW i \in 1..n, i > 1
               PROVE  IntervalStart(i) = q[i - 1] /\ Walk[i] = q[i - 1]
    OBVIOUS
  <2>1. i - 1 \in 1..n /\ (i - 1) + 1 = i
    BY <1>1
  <2>2. Walk[i] = q[i - 1] /\ q[i - 1] \in Nat /\ q[i - 1] > C
    BY <1>1, <2>1
  <2>3. QED
    BY <1>1, <2>2 DEF IntervalStart
<1>7. \A i \in 1..n : i # n => IntervalEnd(i) = q[i]
  BY <1>1 DEF IntervalEnd
<1> HIDE DEF q, n, T, C, K
<1>8. CASE n = 0
  <2>1. LastSelected = K
    BY <1>1, <1>2, <1>8 DEF LastSelected
  <2>2. T = C
    <3>1. ~(T > C /\ 0 <= 1 /\ K < T)
      BY <1>2, <1>8, <2>1 DEF Deficient, NeedsRight, T, C, K
    <3>2. QED
      BY <1>1, <3>1
  <2>3. 1..(Len(Walk) - 1) = {}
    <3>1. Len(Walk) - 1 = 0 /\ 1..0 = {}
      BY <1>1, <1>8
    <3>2. QED
      BY <3>1
  <2>4. QED
    BY <2>2, <2>3 DEF CoverageComplete, T, C
<1>9. CASE n # 0
  <2>1. n \in 1..n /\ 1 \in 1..n
    BY <1>1, <1>9
  <2>2. IntervalEnd(n) = T
    <3>1. CASE n = 1
      <4>1. LastSelected = q[1]
        BY <1>1, <1>2, <2>1, <3>1 DEF LastSelected
      <4>2. ~(T > C /\ q[1] < T /\ K < C)
        BY <1>2, <3>1, <4>1 DEF Deficient, NeedsRight, T, C, K
      <4>3. q[1] = T \/ K = C
        BY <1>1, <1>4, <2>1, <3>1, <4>2
      <4>4. Walk[1] = K /\ Walk[1 + 1] = q[1] /\ Len(Walk) - 1 = 1
        BY <1>1, <2>1, <3>1
      <4>5. QED
        BY <1>1, <3>1, <4>3, <4>4 DEF IntervalEnd, T, C, K
    <3>2. CASE n > 1
      <4>1. Walk[n] = q[n - 1] /\ n - 1 \in 1..n
        BY <1>1, <1>6, <2>1, <3>2
      <4>2. Walk[n] >= C
        BY <1>1, <4>1
      <4>3. QED
        BY <1>1, <4>2 DEF IntervalEnd, T, C
    <3>3. QED
      BY <2>1, <3>1, <3>2, <1>1
  <2>3. q[n] \in Nat /\ q[n] <= T /\ q[n] > C
    BY <1>1, <1>4, <1>9, <2>1
  <2>4. ASSUME NEW i \in 1..n
        PROVE  /\ IntervalEnd(i) > IntervalStart(i)
               /\ IntervalStart(i) = IF i = 1 THEN C ELSE IntervalEnd(i - 1)
    <3>1. /\ q[i] \in Nat /\ q[i] > C
          /\ i > 1 => q[i - 1] < q[i] /\ q[i - 1] \in Nat
      <4>1. i > 1 => i - 1 \in 1..n
        BY <1>1
      <4>2. QED
        BY <1>1, <1>3, <4>1
    <3>2. IntervalStart(i) < q[i] /\ IntervalStart(i) \in Nat
      BY <1>1, <1>5, <1>6, <3>1
    <3>3. IntervalEnd(i) >= q[i] /\ IntervalEnd(i) \in Nat
      BY SMTT(30), <1>1, <1>7, <2>2, <2>3, <3>1
    <3>4. i # 1 => IntervalStart(i) = IntervalEnd(i - 1)
      <4> SUFFICES ASSUME i # 1 PROVE IntervalStart(i) = IntervalEnd(i - 1)
        OBVIOUS
      <4>1. i > 1 /\ i - 1 \in 1..n /\ i - 1 # n
        BY <1>1
      <4>2. QED
        BY <1>6, <1>7, <4>1
    <3>5. IntervalEnd(i) > IntervalStart(i)
      BY <3>1, <3>2, <3>3
    <3>6. IntervalStart(i) = IF i = 1 THEN C ELSE IntervalEnd(i - 1)
      BY <1>5, <3>4
    <3>7. QED
      BY <3>5, <3>6
  <2>5. Len(Walk) - 1 = n /\ 1..(Len(Walk) - 1) # {}
    BY <1>1, <2>1
  <2>6. QED
    BY <2>2, <2>4, <2>5 DEF CoverageComplete, T, C
<1>10. QED
  BY <1>8, <1>9

LEMMA ImuBufferTypes ==
  ASSUME TypeOK
  PROVE  /\ imu_buffer \in Seq(ImuStamps) /\ imu_buffer \in Seq(Nat)
         /\ sent.imu \in [ImuStamps -> Nat]
         /\ Elements(imu_buffer) \subseteq ImuStamps
<1>1. imu_buffer \in Seq(ImuStamps) /\ sent.imu \in [ImuStamps -> 0..ImuCopies]
  BY DEF TypeOK, Sensors
<1>2. ImuCopies \in Nat /\ ImuStamps \in SUBSET Nat
  BY ParameterTypes
<1>3. /\ imu_buffer \in Seq(Nat) /\ DOMAIN imu_buffer = 1..Len(imu_buffer)
      /\ \A i \in 1..Len(imu_buffer) : imu_buffer[i] \in ImuStamps
  BY <1>1, <1>2, SeqOfStamps
<1>4. sent.imu \in [ImuStamps -> Nat]
  BY <1>1, <1>2
<1>5. QED
  BY <1>1, <1>3, <1>4 DEF Elements

LEMMA ReceiveImuSamples ==
  ASSUME Inv, SamplesInv, NEW t \in ImuStamps, ReceiveImu(t), Unique' => Unique
  PROVE  SamplesInv'
<1>1. /\ imu_buffer \in Seq(Nat) /\ sent.imu \in [ImuStamps -> Nat] /\ t \in Nat
      /\ Elements(imu_buffer) \subseteq ImuStamps /\ MaxImu \in Nat
  BY ImuBufferTypes, ParameterTypes DEF Inv
<1>2. sent'.imu = [sent.imu EXCEPT ![t] = sent.imu[t] + 1]
  BY DEF ReceiveImu, Inv, TypeOK, Sensors
<1>3. /\ \A u \in ImuStamps : sent.imu[u] > 0 => sent'.imu[u] > 0
      /\ sent'.imu[t] = sent.imu[t] + 1 /\ sent'.imu[t] > 0
      /\ sent.imu[t] \in Nat
  BY <1>1, <1>2
<1>4. Unique' => t \notin Elements(imu_buffer)
  <2> SUFFICES ASSUME Unique', t \in Elements(imu_buffer) PROVE FALSE
    OBVIOUS
  <2>1. sent'.imu[t] <= 1 /\ sent.imu[t] > 0
    BY DEF Unique, SamplesInv
  <2>2. QED
    BY <1>3, <2>1
<1>5. CASE imu_buffer' = imu_buffer
  BY <1>1, <1>3, <1>5 DEF SamplesInv
<1>6. CASE imu_buffer' = KeepNewest(Append(imu_buffer, t), MaxImu)
  <2> DEFINE a == Append(imu_buffer, t)
  <2>1. /\ a \in Seq(Nat) /\ Elements(a) \subseteq Elements(imu_buffer) \cup {t}
        /\ Distinct(imu_buffer) /\ t \notin Elements(imu_buffer) => Distinct(a)
    BY <1>1, AppendDistinct
  <2> HIDE DEF a
  <2>2. /\ Elements(KeepNewest(a, MaxImu)) \subseteq Elements(a)
        /\ Distinct(a) => Distinct(KeepNewest(a, MaxImu))
    BY <1>1, <2>1, KeepNewestDistinct
  <2>3. imu_buffer' = KeepNewest(a, MaxImu)
    BY <1>6 DEF a
  <2>4. \A x \in Elements(imu_buffer') : sent'.imu[x] > 0
    BY <1>1, <1>3, <2>1, <2>2, <2>3 DEF SamplesInv
  <2>5. Unique' => Distinct(imu_buffer')
    BY <1>4, <2>1, <2>2, <2>3 DEF SamplesInv
  <2>6. QED
    BY <2>4, <2>5 DEF SamplesInv
<1>7. QED
  BY <1>5, <1>6 DEF ReceiveImu

LEMMA SortedSamples ==
  ASSUME Inv, SamplesInv, NEW buf \in SortedForms(imu_buffer) \cup {imu_buffer}
  PROVE  /\ buf \in Seq(Nat) /\ Elements(buf) = Elements(imu_buffer)
         /\ Unique => Distinct(buf)
         /\ buf \in SortedForms(imu_buffer) => Ordered(buf)
<1>1. imu_buffer \in Seq(Nat)
  BY ImuBufferTypes DEF Inv
<1>2. CASE buf = imu_buffer
  <2>1. buf \in SortedForms(imu_buffer) => Ordered(buf)
    BY <1>1, SortedFormsType
  <2>2. QED
    BY <1>1, <1>2, <2>1 DEF SamplesInv
<1>3. CASE buf \in SortedForms(imu_buffer)
  <2>1. Unique => Distinct(buf)
    BY <1>1, <1>3, SortedDistinct DEF SamplesInv
  <2>2. QED
    BY <1>1, <1>3, <2>1, SortedFormsType
<1>4. QED
  BY <1>2, <1>3

LEMMA SamplesStep ==
  ASSUME Inv, SamplesInv, [Next]_vars
  PROVE  SamplesInv'
<1>0. Unique' => Unique
  BY UniqueStays DEF Inv
<1>1. CASE UNCHANGED <<imu_buffer, sent>>
  BY <1>1 DEF SamplesInv, Unique
<1>2. CASE ReceiveScan \/ ReceiveAnyImg
  <2>1. /\ imu_buffer' = imu_buffer
        /\ (\E n : sent' = [sent EXCEPT !.lid = n]) \/ (\E g : sent' = [sent EXCEPT !.img = g])
    BY <1>2 DEF ReceiveScan, ReceiveAnyImg, ReceiveImg
  <2>2. sent'.imu = sent.imu
    BY <2>1 DEF Inv, TypeOK, Sensors
  <2>3. QED
    BY <2>1, <2>2 DEF SamplesInv, Unique
<1>3. CASE ReceiveAnyImu
  BY <1>0, <1>3, ReceiveImuSamples DEF ReceiveAnyImu
<1>4. ASSUME SyncFrame, lid_buffer # <<>>, NEW buf \in SortedForms(imu_buffer) \cup {imu_buffer},
             SyncWait(buf) \/ DispatchVIO(buf) \/ DispatchLIO(buf)
      PROVE  SamplesInv'
  <2>1. /\ buf \in Seq(Nat) /\ Elements(buf) = Elements(imu_buffer)
        /\ Unique => Distinct(buf)
    BY <1>4, SortedSamples
  <2>2. sent' = sent /\ EventTime \in Int
    <3>1. EventTime \in Nat
      BY <1>4, OpenedTypes DEF Inv
    <3>2. QED
      BY <1>4, <3>1 DEF SyncFrame, sensorVars
  <2>3. imu_buffer' \in {buf, PopUpto(buf, EventTime)}
    BY <1>4 DEF SyncWait, DispatchVIO, DispatchLIO
  <2>4. /\ Elements(PopUpto(buf, EventTime)) \subseteq Elements(buf)
        /\ Distinct(buf) => Distinct(PopUpto(buf, EventTime))
    BY <2>1, <2>2, PopUptoDistinct
  <2>5. Elements(imu_buffer') \subseteq Elements(imu_buffer)
        /\ (Unique => Distinct(imu_buffer'))
    BY <2>1, <2>3, <2>4
  <2>6. QED
    BY <2>2, <2>5 DEF SamplesInv, Unique
<1>5. CASE Finish /\ ~Throw
  <2>1. sent' = sent /\ imu_buffer' \in {imu_buffer, PopUpto(imu_buffer, core.cov)}
    BY <1>5, FinishCases DEF sensorVars
  <2>2. imu_buffer \in Seq(Nat) /\ core.cov \in Int
    BY ImuBufferTypes DEF Inv, TypeOK, Core
  <2>3. /\ Elements(PopUpto(imu_buffer, core.cov)) \subseteq Elements(imu_buffer)
        /\ Distinct(imu_buffer) => Distinct(PopUpto(imu_buffer, core.cov))
    BY <2>2, PopUptoDistinct
  <2>4. Elements(imu_buffer') \subseteq Elements(imu_buffer)
        /\ (Unique => Distinct(imu_buffer'))
    BY <2>1, <2>3 DEF SamplesInv
  <2>5. QED
    BY <2>1, <2>4 DEF SamplesInv, Unique
<1>6. CASE Sync /\ ~Throw
  BY <1>4, <1>6, SyncOutcomes
<1>7. CASE Throw
  BY <1>1, <1>7 DEF Throw, sensorVars, bufferVars
<1>8. ~(\/ ReceiveScan \/ ReceiveAnyImg \/ ReceiveAnyImu \/ Finish \/ Sync \/ Throw)
        => UNCHANGED <<imu_buffer, sent>>
  BY DEF Next, Step, ProcessImu, HandleVIO, HandleLIO, ImuPropTimer, vars, sensorVars, bufferVars
<1>9. QED
  BY <1>1, <1>2, <1>3, <1>5, <1>6, <1>7, <1>8

\* The event sync_packages hands over comes with a view that supports it.
LEMMA ViewStep ==
  ASSUME Inv, FreshInv, ScanInv, SamplesInv, ViewInv, [Next]_vars
  PROVE  ViewInv'
<1>1. ASSUME SyncFrame, pc = "spin", lid_buffer # <<>>, ~BeginThrows, core' = OpenedCore,
             NEW buf \in SortedForms(imu_buffer), ~need_init, EventTime >= OpenedCore.cov,
             View(buf, OpenedCore, EventTime).ready,
             event'.imu = View(buf, OpenedCore, EventTime).imu, event'.time = EventTime
      PROVE  ViewInv'
  <2>1. sent' = sent /\ core' = core /\ OpenedCore = core
    BY <1>1, OpenedStays DEF SyncFrame, sensorVars
  <2>2. core \in Core /\ core.cov \in Nat /\ EventTime \in Nat
    BY <1>1, OpenedTypes DEF Inv, TypeOK, Core
  <2>3. buf \in Seq(Nat) /\ Ordered(buf) /\ (Unique => Distinct(buf))
    BY <1>1, SortedSamples
  <2>4. View(buf, core, EventTime).ready /\ core.cov <= EventTime
    BY <1>1, <2>1, <2>2
  <2> DEFINE q == View(buf, core, EventTime).imu
  <2>5. /\ q \in Seq(Nat) /\ Ordered(q) /\ \A i \in DOMAIN q : q[i] > core.cov
        /\ Distinct(buf) => Distinct(q)
        /\ SupportsOf(core, q, EventTime)
    BY <2>2, <2>3, <2>4, ViewSamples
  <2>6. event'.imu = q
    BY <1>1, <2>1
  <2> HIDE DEF q
  <2>7. Ordered(event.imu)' /\ (\A i \in DOMAIN event'.imu : event'.imu[i] > core'.cov)
    BY <2>1, <2>5, <2>6
  <2>8. Unique' => Distinct(event.imu)'
    BY <2>1, <2>3, <2>5, <2>6 DEF Unique
  <2>9. SupportsOf(core, event.imu, event.time)'
    BY <1>1, <2>1, <2>5, <2>6
  <2>10. QED
    BY <2>7, <2>8, <2>9 DEF ViewInv
<1>2. CASE Sync /\ ~Throw
  <2>1. /\ pc = "spin" /\ lid_buffer # <<>> /\ ~BeginThrows /\ SyncFrame /\ core' = OpenedCore
    BY <1>2, SyncOutcomes
  <2>2. need_init' = need_init
    BY <2>1 DEF SyncFrame, imuVars
  <2>3. PICK buf \in SortedForms(imu_buffer) \cup {imu_buffer} :
          \/ SyncWait(buf)
          \/ /\ ~StreamsBehind /\ buf \in SortedForms(imu_buffer)
             /\ need_init \/ (EventTime >= OpenedCore.cov
                              /\ View(buf, OpenedCore, EventTime).ready)
             /\ DispatchVIO(buf) \/ DispatchLIO(buf)
    BY <1>2, SyncOutcomes
  <2>4. CASE SyncWait(buf) \/ need_init
    <3>1. pc' # "imu" \/ need_init'
      BY <2>1, <2>2, <2>4 DEF SyncWait
    <3>2. QED
      BY <3>1 DEF ViewInv
  <2>5. CASE ~need_init /\ (DispatchVIO(buf) \/ DispatchLIO(buf))
    <3>1. event'.imu = View(buf, OpenedCore, EventTime).imu /\ event'.time = EventTime
      BY <2>5 DEF DispatchVIO, DispatchLIO
    <3>2. CASE SyncWait(buf)
      BY <2>4, <3>2
    <3>3. CASE ~SyncWait(buf)
      BY <2>1, <2>3, <2>5, <3>1, <3>3, <1>1
    <3>4. QED
      BY <3>2, <3>3
  <2>6. QED
    BY <2>3, <2>4, <2>5
<1>3. CASE UNCHANGED vars
  BY <1>3 DEF vars, ViewInv, Unique, sensorVars, syncVars, imuVars, txVars
<1>4. ~Sync /\ ~UNCHANGED vars => pc' # "imu"
  BY DEF Next, Step, Throw, ReceiveScan, ReceiveAnyImu, ReceiveImu, ReceiveAnyImg, ReceiveImg,
         ProcessImu, HandleVIO, HandleLIO, Finish, ImuPropTimer
<1>5. CASE Throw
  BY <1>5 DEF Throw, ViewInv
<1>6. QED
  BY <1>2, <1>3, <1>4, <1>5 DEF ViewInv

-----------------------------------------------------------------------------
(* No exception leaves run().                                              *)

\* While stamps are unique a prediction is complete, and nobody has died.
FaultInv ==
  /\ Unique /\ working /\ pc \in {"estimate", "finish"} => core.complete
  /\ pc = "dead" => ~Unique

FrontInv == Inv /\ LifeInv /\ FreshInv /\ ScanInv /\ SamplesInv /\ ViewInv /\ FaultInv

LEMMA SyncNoThrow ==
  ASSUME FrontInv, Sync
  PROVE  pc' # "dead"
<1>1. pc = "spin" /\ lid_buffer # <<>> /\ (lidar_pushed \/ ~Head(lid_buffer).tiny)
  BY DEF Sync, FrontInv, Inv, OpenScanBuffered
<1>2. ~BeginThrows
  <2> SUFFICES ASSUME ~lidar_pushed PROVE ~ScanIncomplete /\ ~(Opened.end <= Opened.beg)
    BY DEF BeginThrows
  <2>1. ~ScanIncomplete
    BY <1>1 DEF FrontInv, LifeInv, ScanIncomplete
  <2>2. Opened = Head(lid_buffer) /\ ~Head(lid_buffer).tiny
    BY <1>1 DEF Opened
  <2>3. Head(lid_buffer) = lid_buffer[1] /\ 1 \in DOMAIN lid_buffer
    BY <1>1, TailAhead DEF FrontInv, Inv, TypeOK, ScanInv
  <2>4. Opened.beg < Opened.end
    BY <2>2, <2>3 DEF FrontInv, ScanInv, QueueInOrder
  <2>5. Opened.beg \in Nat /\ Opened.end \in Nat
    BY <1>1, OpenedTypes DEF FrontInv, Inv, Scan
  <2>6. QED
    BY <2>1, <2>4, <2>5
<1>3. /\ EventTime \in Nat /\ OpenedClock <= EventTime
      /\ OpenedLife.last_t <= EventTime /\ OpenedLife.last_t \in Int /\ OpenedClock \in Int
  BY <1>1, <1>2, EventAhead, OpenedAhead DEF FrontInv
<1>4. ~need_init => ~(EventTime < OpenedCore.cov)
  <2> SUFFICES ASSUME ~need_init PROVE ~(EventTime < OpenedCore.cov)
    OBVIOUS
  <2>1. OpenedClock = clock /\ OpenedCore = core
    BY OpenedStays DEF FrontInv
  <2>2. core.cov <= clock /\ core.cov \in Nat
    BY DEF FrontInv, Inv, CoreInv, TypeOK, Core
  <2>3. QED
    BY <1>3, <2>1, <2>2
<1>5. \A buf : SyncWait(buf) \/ DispatchVIO(buf) \/ DispatchLIO(buf) => pc' # "dead"
  <2>1. ~(EventTime < OpenedLife.last_t)
    BY <1>3
  <2>2. QED
    BY <1>1, <2>1 DEF SyncWait, DispatchVIO, DispatchLIO
<1>6. \A buf : SyncEvent(buf) => pc' # "dead"
  BY <1>4, <1>5 DEF SyncEvent
<1>7. QED
  BY <1>2, <1>5, <1>6 DEF Sync

LEMMA ProcessImuNoThrow ==
  ASSUME FrontInv, ProcessImu
  PROVE  /\ pc' = "estimate"
         /\ Unique /\ ~need_init => CoverageComplete
<1>1. /\ pc = "imu" /\ TypeOK /\ event.time \in Nat /\ clock \in Int /\ life.last_t \in Int
      /\ core \in Core /\ core.cov \in Nat
  BY DEF ProcessImu, FrontInv, Inv, TypeOK, Events, Times, Unset, Lifecycle, Core
<1>2. ~(event.time < clock) /\ ~(event.time < life.last_t)
  BY <1>1 DEF FrontInv, ScanInv
<1>3. ~NoteLioThrows
  BY <1>1, <1>2 DEF NoteLioThrows, FrontInv, LifeInv, Busy, Scanned
<1>4. CASE need_init
  <2>1. ~InitThrows
    <3>1. event.imu # <<>> => ~HasRight
      <4>1. /\ Len(event.imu) \in Nat
            /\ \A i \in 1..Len(event.imu) : event.imu[i] <= event.time /\ event.imu[i] \in Nat
        BY <1>1, <1>4, WalkSamples DEF FrontInv, Inv, EventInv
      <4>2. event.imu # <<>> => Len(event.imu) \in 1..Len(event.imu)
        BY <1>1, <4>1, WalkSamples, EmptySeq
      <4>3. QED
        BY <1>1, <4>1, <4>2 DEF HasRight
    <3>2. QED
      BY <3>1 DEF InitThrows
  <2>2. ~PredictionThrows
    BY <1>4, <2>1 DEF PredictionThrows
  <2>3. QED
    BY <1>2, <1>3, <1>4, <2>2 DEF ProcessImu
<1>5. CASE ~need_init
  <2>1. /\ ~working /\ core.carry <= core.cov /\ core.cov <= clock
        /\ clock <= event.time
    BY <1>1, <1>5 DEF FrontInv, Inv, TransactionInv, CoreInv, ScanInv
  <2>2. core.cov <= event.time
    BY <1>1, <2>1
  <2>3. /\ \A i \in DOMAIN event.imu : event.imu[i] > core.cov
        /\ Ordered(event.imu) /\ (Unique => Distinct(event.imu))
        /\ SupportsOf(core, event.imu, event.time)
    BY <1>1, <1>5 DEF FrontInv, ViewInv
  <2>4. Deficient <=> HasRight
    BY <1>1, <2>3, WalkSupport DEF SupportsOf
  <2>5. HasRight => CoverageComplete
    BY <1>1, <2>1, <2>3, <2>4, RightCompletes
  <2>6. Unique /\ ~HasRight => CoverageComplete
    BY <1>1, <2>1, <2>2, <2>3, <2>4, SamplesTile
  <2>7. Deficient \in BOOLEAN /\ HasRight \in BOOLEAN
    BY DEF Deficient, NeedsRight, HasRight
  <2>8. ~PropagationThrows
    <3>1. Deficient = HasRight
      BY <2>4, <2>7
    <3>2. ~(core.carry > core.cov) /\ ~(event.time < core.cov)
      <4>1. core.carry \in Nat
        BY <1>1 DEF Core
      <4>2. QED
        BY <1>1, <2>1, <2>2, <4>1
    <3>3. QED
      BY <2>5, <3>1, <3>2 DEF PropagationThrows
  <2>9. ~PredictionThrows
    BY <1>5, <2>1, <2>8 DEF PredictionThrows
  <2>10. QED
    BY <1>2, <1>3, <2>5, <2>6, <2>9 DEF ProcessImu
<1>6. QED
  BY <1>4, <1>5

LEMMA FaultStep ==
  ASSUME FrontInv, [Next]_vars
  PROVE  FaultInv'
<1>0. Unique' => Unique
  BY UniqueStays DEF FrontInv, Inv
<1> SUFFICES ASSUME Unique', Unique
             PROVE  /\ working' /\ pc' \in {"estimate", "finish"} => core'.complete
                    /\ pc' # "dead"
  BY <1>0 DEF FaultInv
<1>1. pc # "dead" /\ (working /\ pc \in {"estimate", "finish"} => core.complete)
  BY DEF FrontInv, FaultInv
<1>2. CASE ReceiveScan \/ ReceiveAnyImu \/ ReceiveAnyImg \/ ImuPropTimer
  <2>1. pc = "spin" /\ pc' = pc
    BY <1>2 DEF ReceiveScan, ReceiveAnyImu, ReceiveImu, ReceiveAnyImg, ReceiveImg, ImuPropTimer
  <2>2. QED
    BY <2>1
<1>3. CASE Sync
  <2>1. pc' # "dead"
    BY <1>3, SyncNoThrow
  <2>2. pc' \in {"spin", "imu", "dead"}
    BY <1>3 DEF Sync, SyncEvent, Throw, SyncWait, DispatchVIO, DispatchLIO
  <2>3. QED
    BY <2>1, <2>2
<1>4. CASE ProcessImu
  <2>1. pc' = "estimate" /\ (~need_init => CoverageComplete)
    BY <1>4, ProcessImuNoThrow
  <2>2. InitImu \/ Propagate
    BY <1>4, <2>1 DEF ProcessImu, Throw
  <2>3. CASE InitImu
    BY <2>1, <2>3 DEF InitImu, FrontInv, Inv, TransactionInv
  <2>4. CASE Propagate
    <3>1. core' = Propagated /\ ~need_init
      BY <2>4 DEF Propagate
    <3>2. core'.complete
      BY <2>1, <3>1 DEF Propagated
    <3>3. QED
      BY <2>1, <3>2
  <2>5. QED
    BY <2>2, <2>3, <2>4
<1>5. CASE \E outcome \in VioOutcomes : HandleVIO(outcome)
  <2>1. pc = "estimate" /\ event.kind = "VIO"
    BY <1>5 DEF HandleVIO
  <2>2. working /\ core.complete
    BY <1>1, <2>1 DEF FrontInv, Inv, TransactionInv
  <2>3. pc' = "finish" /\ core' = core
    BY <1>5, <2>2 DEF HandleVIO
  <2>4. QED
    BY <2>2, <2>3
<1>6. CASE \E outcome \in LioOutcomes, insert \in BOOLEAN : HandleLIO(outcome, insert)
  <2>1. pc = "estimate" /\ event.kind = "LIO"
    BY <1>6 DEF HandleLIO
  <2>2. life.required => life.lio = 1 /\ life.ins = 0
    BY <2>1 DEF FrontInv, LifeInv, Scanned
  <2>3. pc' = "finish" /\ UNCHANGED <<core, working>>
    BY <1>6, <2>2 DEF HandleLIO, MapNoted
  <2>4. QED
    BY <1>1, <2>1, <2>3
<1>7. CASE Finish
  <2>1. ~CommitThrows
    BY <1>1, <1>7 DEF CommitThrows, Finish
  <2>2. pc' = "spin"
    BY <1>7, <2>1 DEF Finish
  <2>3. QED
    BY <2>2
<1>8. CASE UNCHANGED vars
  BY <1>1, <1>8 DEF vars, txVars
<1>9. QED
  BY <1>2, <1>3, <1>4, <1>5, <1>6, <1>7, <1>8 DEF Next, Step

LEMMA FrontStep == ScansInOrder /\ FrontInv /\ [Next]_vars => FrontInv'
<1> SUFFICES ASSUME ScansInOrder, FrontInv, [Next]_vars PROVE FrontInv'
  OBVIOUS
<1>1. Inv /\ LifeInv /\ FreshInv /\ ScanInv /\ SamplesInv /\ ViewInv
  BY DEF FrontInv
<1>2. Inv'
  BY <1>1, NextInv
<1>3. LifeInv'
  BY <1>1, LifeStep
<1>4. FreshInv'
  BY <1>1, FreshStep
<1>5. ScanInv'
  BY <1>1, ScanStep
<1>6. SamplesInv'
  BY <1>1, SamplesStep
<1>7. ViewInv'
  BY <1>1, ViewStep
<1>8. FaultInv'
  BY FaultStep
<1>9. QED
  BY <1>2, <1>3, <1>4, <1>5, <1>6, <1>7, <1>8 DEF FrontInv

LEMMA FrontInit == Init => FrontInv
<1> SUFFICES ASSUME Init PROVE FrontInv
  OBVIOUS
<1>1. Inv
  BY InitInv
<1>2. LifeInv
  BY DEF Init, LifeInv, Busy
<1>3. FreshInv
  BY DEF Init, FreshInv, Ordered, Elements
<1>4. ScanInv
  BY ScanInit
<1>5. SamplesInv /\ ViewInv /\ FaultInv
  BY DEF Init, SamplesInv, Elements, Distinct, ViewInv, FaultInv
<1>6. QED
  BY <1>1, <1>2, <1>3, <1>4, <1>5 DEF FrontInv

\* No contract of the runtime stops the estimator while IMU stamps are unique
\* and the scans come in order: the scan life cycle, the IMU view, the coverage
\* of the propagation, the clock and the transaction agree, whatever the other
\* messages do (LivoScanLifecycle, imu_transaction, WorkingCheckpoint).
THEOREM ContractsHold ==
  ASSUME ScansInOrder
  PROVE  Spec => []NoFault
<1>1. FrontInv => NoFault
  <2> SUFFICES ASSUME FrontInv, pc = "dead" PROVE \E t \in ImuStamps : sent.imu[t] > 1
    BY DEF NoFault
  <2>1. PICK t \in ImuStamps : ~(sent.imu[t] <= 1)
    BY DEF FrontInv, FaultInv, Unique
  <2>2. sent.imu[t] \in Nat
    BY ImuBufferTypes DEF FrontInv, Inv
  <2>3. QED
    BY <2>1, <2>2
<1>2. FrontInv /\ [Next]_vars => FrontInv'
  BY FrontStep
<1>3. QED
  BY <1>1, <1>2, FrontInit, PTL DEF Spec
=============================================================================
