----------------------------- MODULE LidarProofs -----------------------------
(***************************************************************************)
(* What is proved of the LiDAR's points: of the Livox driver that receives *)
(* and publishes them (LivoxDriver), for any number of LiDARs, settings,   *)
(* ring and gate sizes, its types and the three safety invariants of its   *)
(* run, with nothing assumed of the threads' fairness; of UndistortPcl     *)
(* (ScanDeskew), for every message, history of poses and filter, that it   *)
(* moves each point by the pose it belongs to; and of the P4 fork harness  *)
(* (P4Fork), where the scans end, that no capture is of a moving input,    *)
(* that every map, from the octrees up (VoxelTree, VoxelMap), stays        *)
(* coherent, and that a copy is what was captured and goes on as the       *)
(* estimator does (P4Snapshot).                                            *)
(***************************************************************************)
EXTENDS P4Fork, LivoxDriver, ScanDeskew, StampSets, SequenceTheorems

(***************************************************************************)
(* Arithmetic modulo the ring's size and the index's width.                *)
(***************************************************************************)
LEMMA ModRange ==
  \A n \in Nat \ {0}, a \in Int : a % n \in 0..n-1 /\ \E d \in Int : a = n * d + (a % n)
<1> TAKE n \in Nat \ {0}, a \in Int
<1>1. a % n \in 0..n-1 /\ a \div n \in Int /\ a = n * (a \div n) + (a % n)
  OBVIOUS
<1> QED BY <1>1

LEMMA ModUnique == \A n \in Nat \ {0}, q \in Int : \A b \in 0..n-1 : (n * q + b) % n = b
  OBVIOUS

LEMMA ModShift == \A n \in Nat \ {0}, a, q \in Int : (a + n * q) % n = a % n
<1> SUFFICES ASSUME NEW n \in Nat \ {0}, NEW a \in Int, NEW q \in Int
             PROVE  (a + n * q) % n = a % n
  OBVIOUS
<1>1. PICK b \in 0..n-1 : b = a % n BY ModRange
<1>2. PICK d \in Int : a = n * d + b BY <1>1, ModRange
<1>3. PICK c \in Int : c = d + q OBVIOUS
<1>4. a + n * q = n * c + b BY <1>2, <1>3
<1>5. (n * c + b) % n = b BY ModUnique
<1> QED BY <1>1, <1>4, <1>5

\* Two numbers of one residue are at least the modulus apart.
LEMMA ModApart == \A n \in Nat \ {0}, a, b \in Int : a % n = b % n /\ a < b => b >= a + n
<1> SUFFICES ASSUME NEW n \in Nat \ {0}, NEW a \in Int, NEW b \in Int, a % n = b % n, a < b
             PROVE  b >= a + n
  OBVIOUS
<1>1. PICK c \in 0..n-1 : c = a % n BY ModRange
<1>2. PICK d \in Int : a = n * d + c BY <1>1, ModRange
<1>3. PICK e \in Int : b = n * e + c BY <1>1, ModRange
<1>4. n * d < n * e BY <1>2, <1>3
<1>5. d < e BY <1>4
<1>6. n * e >= n * d + n BY <1>5
<1> QED BY <1>2, <1>3, <1>6

\* The index's width is a multiple of the ring's size: wrapping the index does
\* not change the slot.
LEMMA ModMod ==
  \A n \in Nat \ {0}, w \in Nat \ {0}, a \in Int : w % n = 0 => (a + w) % n = a % n
<1> SUFFICES ASSUME NEW n \in Nat \ {0}, NEW w \in Nat \ {0}, NEW a \in Int, w % n = 0
             PROVE  (a + w) % n = a % n
  OBVIOUS
<1>1. PICK e \in Int : w = n * e BY ModRange
<1> QED BY <1>1, ModShift

LEMMA RingSizePositive == RingSize \in Nat \ {0}
<1>1. QueueSize \in 1..101 BY DriverAssumption
<1>2. \E p \in Powers : p >= QueueSize /\ \A q \in Powers : q >= QueueSize => p <= q
  <2>1. CASE QueueSize <= 1 BY <1>1, <2>1 DEF Powers
  <2>2. CASE QueueSize > 1 /\ QueueSize <= 2
    <3>1. 2 \in Powers /\ 2 >= QueueSize /\ \A q \in Powers : q >= QueueSize => 2 <= q
      BY <1>1, <2>2 DEF Powers
    <3> QED BY <3>1
  <2>3. CASE QueueSize > 2 /\ QueueSize <= 4
    <3>1. 4 \in Powers /\ 4 >= QueueSize /\ \A q \in Powers : q >= QueueSize => 4 <= q
      BY <1>1, <2>3 DEF Powers
    <3> QED BY <3>1
  <2>4. CASE QueueSize > 4 /\ QueueSize <= 8
    <3>1. 8 \in Powers /\ 8 >= QueueSize /\ \A q \in Powers : q >= QueueSize => 8 <= q
      BY <1>1, <2>4 DEF Powers
    <3> QED BY <3>1
  <2>5. CASE QueueSize > 8 /\ QueueSize <= 16
    <3>1. 16 \in Powers /\ 16 >= QueueSize /\ \A q \in Powers : q >= QueueSize => 16 <= q
      BY <1>1, <2>5 DEF Powers
    <3> QED BY <3>1
  <2>6. CASE QueueSize > 16 /\ QueueSize <= 32
    <3>1. 32 \in Powers /\ 32 >= QueueSize /\ \A q \in Powers : q >= QueueSize => 32 <= q
      BY <1>1, <2>6 DEF Powers
    <3> QED BY <3>1
  <2>7. CASE QueueSize > 32 /\ QueueSize <= 64
    <3>1. 64 \in Powers /\ 64 >= QueueSize /\ \A q \in Powers : q >= QueueSize => 64 <= q
      BY <1>1, <2>7 DEF Powers
    <3> QED BY <3>1
  <2>8. CASE QueueSize > 64
    <3>1. 128 \in Powers /\ 128 >= QueueSize /\ \A q \in Powers : q >= QueueSize => 128 <= q
      BY <1>1, <2>8 DEF Powers
    <3> QED BY <3>1
  <2> QED BY <1>1, <2>1, <2>2, <2>3, <2>4, <2>5, <2>6, <2>7, <2>8
<1>3. RingSize \in Powers BY <1>2 DEF RingSize
<1> QED BY <1>3 DEF Powers

\* The indices' and the sizes' arithmetic, without the operator %.
LEMMA WrapAround ==
  /\ RingSize \in Nat \ {0} /\ IndexWidth \in Nat \ {0} /\ IndexWidth > RingSize
  /\ \A i \in 0..IndexWidth - 1 : Bump(i) = IF i = IndexWidth - 1 THEN 0 ELSE i + 1
  /\ \A a, b \in 0..IndexWidth - 1 :
       (a - b) % IndexWidth = IF a >= b THEN a - b ELSE a - b + IndexWidth
  /\ \A a \in Int : (a + IndexWidth) % RingSize = a % RingSize
  /\ \A a \in Int : a % RingSize \in 0..RingSize - 1
<1>1. RingSize \in Nat \ {0} /\ IndexWidth \in Nat \ {0} /\ IndexWidth > RingSize
  BY RingSizePositive, DriverAssumption
<1>2. \A b \in 0..IndexWidth - 1 : (IndexWidth * 0 + b) % IndexWidth = b
  BY <1>1, ModUnique
<1>3. \A b \in 0..IndexWidth - 1 : b % IndexWidth = b
  BY <1>1, <1>2
<1>4. \A b \in 0..IndexWidth - 1 : (IndexWidth * (-1) + b) % IndexWidth = b
  BY <1>1, ModUnique
<1>5. \A b \in 0..IndexWidth - 1 : (IndexWidth * 1 + b) % IndexWidth = b
  BY <1>1, ModUnique
<1>6. ASSUME NEW i \in 0..IndexWidth - 1
      PROVE  Bump(i) = IF i = IndexWidth - 1 THEN 0 ELSE i + 1
  <2>1. CASE i = IndexWidth - 1
    <3>1. i + 1 = IndexWidth * 1 + 0 BY <2>1, <1>1
    <3>2. (IndexWidth * 1 + 0) % IndexWidth = 0 BY <1>5, <1>1
    <3> QED BY <3>1, <3>2, <2>1 DEF Bump
  <2>2. CASE i # IndexWidth - 1
    <3>1. i + 1 \in 0..IndexWidth - 1 BY <2>2, <1>1
    <3> QED BY <3>1, <1>3, <2>2 DEF Bump
  <2> QED BY <2>1, <2>2
<1>7. ASSUME NEW a \in 0..IndexWidth - 1, NEW b \in 0..IndexWidth - 1
      PROVE  (a - b) % IndexWidth = IF a >= b THEN a - b ELSE a - b + IndexWidth
  <2>1. CASE a >= b
    <3>1. a - b \in 0..IndexWidth - 1 BY <2>1, <1>1
    <3> QED BY <3>1, <1>3, <2>1
  <2>2. CASE a < b
    <3>1. PICK c \in 0..IndexWidth - 1 : c = a - b + IndexWidth BY <2>2, <1>1
    <3>2. a - b = IndexWidth * (-1) + c BY <3>1, <1>1
    <3>3. (a - b) % IndexWidth = c BY <3>2, <1>4
    <3> QED BY <3>1, <3>3, <2>2, <1>1
  <2> QED BY <2>1, <2>2
<1>8. \A a \in Int : (a + IndexWidth) % RingSize = a % RingSize
  BY <1>1, ModMod, DriverAssumption
<1>9. \A a \in Int : a % RingSize \in 0..RingSize - 1
  BY <1>1, ModRange
<1> QED BY <1>1, <1>6, <1>7, <1>8, <1>9

LEMMA SizesAre == RingSize \in Nat \ {0} /\ IndexWidth \in Nat \ {0} /\ IndexWidth > RingSize
  BY WrapAround

LEMMA BumpIs ==
  \A i \in 0..IndexWidth - 1 :
    /\ Bump(i) \in 0..IndexWidth - 1
    /\ Bump(i) = IF i = IndexWidth - 1 THEN 0 ELSE i + 1
<1> SUFFICES ASSUME NEW i \in 0..IndexWidth - 1
             PROVE  Bump(i) \in 0..IndexWidth - 1 /\ Bump(i) = IF i = IndexWidth - 1 THEN 0 ELSE i + 1
  OBVIOUS
<1>1. Bump(i) = IF i = IndexWidth - 1 THEN 0 ELSE i + 1 BY WrapAround
<1>2. IndexWidth \in Nat \ {0} BY SizesAre
<1>3. (IF i = IndexWidth - 1 THEN 0 ELSE i + 1) \in 0..IndexWidth - 1 BY <1>2
<1> QED BY <1>1, <1>3

(***************************************************************************)
(* The ring seen from its reader: the frame j places behind the next one.   *)
(***************************************************************************)
Clocks == TimeTypes \cup {"none"}
Frame == [n : Nat, base : Nat, clock : Clocks]
Ring ==
  [rd : 0..IndexWidth - 1, wr : 0..IndexWidth - 1, exists : BOOLEAN,
   slot : [0..RingSize - 1 -> Frame]]

Place(r, j) == (r.rd + j) % RingSize
Waiting(r, j) == r.slot[Place(r, j)]

LEMMA UsedIs ==
  \A r \in Ring :
    /\ Used(r) \in 0..IndexWidth - 1
    /\ Used(r) = IF r.wr >= r.rd THEN r.wr - r.rd ELSE r.wr - r.rd + IndexWidth
    /\ Empty(r) <=> Used(r) = 0
<1> TAKE r \in Ring
<1>1. r.rd \in 0..IndexWidth - 1 /\ r.wr \in 0..IndexWidth - 1
  BY DEF Ring
<1>2. Used(r) = IF r.wr >= r.rd THEN r.wr - r.rd ELSE r.wr - r.rd + IndexWidth
  BY <1>1, WrapAround DEF Used
<1>3. IndexWidth \in Nat \ {0} BY SizesAre
<1>4. PICK u \in Int : u = IF r.wr >= r.rd THEN r.wr - r.rd ELSE r.wr - r.rd + IndexWidth BY <1>1, <1>3
<1>5. u \in 0..IndexWidth - 1 /\ (r.rd = r.wr <=> u = 0) BY <1>1, <1>3, <1>4
<1> QED BY <1>2, <1>4, <1>5 DEF Empty

LEMMA PlaceType == \A r \in Ring, j \in Int : Place(r, j) \in 0..RingSize - 1 /\ Waiting(r, j) \in Frame
<1> TAKE r \in Ring, j \in Int
<1>1. r.rd + j \in Int BY WrapAround DEF Ring
<1>2. (r.rd + j) % RingSize \in 0..RingSize - 1 BY <1>1, WrapAround
<1> QED BY <1>2 DEF Ring, Place, Waiting

\* Different frames of one filling have different slots.
LEMMA PlacesApart ==
  \A r \in Ring : \A j, k \in 0..RingSize - 1 : j # k => Place(r, j) # Place(r, k)
<1> SUFFICES ASSUME NEW r \in Ring, NEW j \in 0..RingSize - 1, NEW k \in 0..RingSize - 1,
                    j < k, Place(r, j) = Place(r, k)
             PROVE  FALSE
  BY SizesAre
<1>0. RingSize \in Nat \ {0} BY SizesAre
<1>1. r.rd \in Int BY SizesAre DEF Ring
<1>2. PICK a \in Int : a = r.rd + j BY <1>0, <1>1
<1>3. PICK b \in Int : b = r.rd + k BY <1>0, <1>1
<1>4. a < b /\ b < a + RingSize BY <1>0, <1>1, <1>2, <1>3
<1>5. a % RingSize = b % RingSize BY <1>2, <1>3 DEF Place
<1>6. b >= a + RingSize BY <1>0, <1>4, <1>5, ModApart
<1> QED BY <1>0, <1>4, <1>6

\* The writer's slot is behind the last frame waiting, and the slot two before
\* it holds the last but one.
LEMMA WriterPlace ==
  \A r \in Ring :
    /\ r.wr % RingSize = Place(r, Used(r))
    /\ Used(r) >= 2 => At(r, r.wr + IndexWidth - 2) = Waiting(r, Used(r) - 2)
<1> SUFFICES ASSUME NEW r \in Ring
             PROVE  /\ r.wr % RingSize = Place(r, Used(r))
                    /\ Used(r) >= 2 => At(r, r.wr + IndexWidth - 2) = Waiting(r, Used(r) - 2)
  OBVIOUS
<1>1. PICK u \in 0..IndexWidth - 1 : u = Used(r) BY UsedIs
<1>2. PICK w \in 0..IndexWidth - 1 : w = r.wr BY DEF Ring
<1>3. PICK d \in 0..IndexWidth - 1 : d = r.rd BY DEF Ring
<1>4. IndexWidth \in Nat BY WrapAround
<1>5. \A a \in Int : (a + IndexWidth) % RingSize = a % RingSize BY WrapAround
<1>6. CASE w >= d
  <2>1. d + u = w BY <1>1, <1>2, <1>3, <1>4, <1>6, UsedIs
  <2>2. w % RingSize = (d + u) % RingSize BY <2>1
  <2>3. w + IndexWidth - 2 = (d + (u - 2)) + IndexWidth BY <2>1, <1>4
  <2>4. (w + IndexWidth - 2) % RingSize = (d + (u - 2)) % RingSize BY <2>3, <1>5
  <2> QED BY <2>2, <2>4, <1>1, <1>2, <1>3 DEF Place, At, Waiting
<1>7. CASE w < d
  <2>1. d + u = w + IndexWidth BY <1>1, <1>2, <1>3, <1>4, <1>7, UsedIs
  <2>2. w % RingSize = (d + u) % RingSize BY <2>1, <1>5
  <2>3. w + IndexWidth - 2 = d + (u - 2) BY <2>1, <1>4
  <2>4. (w + IndexWidth - 2) % RingSize = (d + (u - 2)) % RingSize BY <2>3
  <2> QED BY <2>2, <2>4, <1>1, <1>2, <1>3 DEF Place, At, Waiting
<1> QED BY <1>6, <1>7

LEMMA WriterMoves ==
  ASSUME NEW r \in Ring, Used(r) < RingSize, NEW s, s = [r EXCEPT !.wr = Bump(r.wr)]
  PROVE  /\ s \in Ring /\ s.exists = r.exists /\ Used(s) = Used(r) + 1
         /\ \A j \in Int : Waiting(s, j) = Waiting(r, j) /\ Place(s, j) = Place(r, j)
<1>1. r.wr \in 0..IndexWidth - 1 /\ r.rd \in 0..IndexWidth - 1 BY DEF Ring
<1>2. Bump(r.wr) \in 0..IndexWidth - 1 BY <1>1, BumpIs
<1>3. s \in Ring BY <1>2 DEF Ring
<1>4. s.rd = r.rd /\ s.slot = r.slot /\ s.wr = Bump(r.wr) /\ s.exists = r.exists BY DEF Ring
<1>5. PICK t \in 0..IndexWidth - 1 : t = Used(s) BY <1>3, UsedIs
<1>6. PICK u \in 0..IndexWidth - 1 : u = Used(r) BY UsedIs
<1>7. PICK w \in 0..IndexWidth - 1 : w = r.wr BY <1>1
<1>8. PICK d \in 0..IndexWidth - 1 : d = r.rd BY <1>1
<1>9. PICK v \in 0..IndexWidth - 1 : v = Bump(w) BY <1>2, <1>7
<1>10. v = IF w = IndexWidth - 1 THEN 0 ELSE w + 1 BY <1>9, BumpIs
<1>11. t = IF v >= d THEN v - d ELSE v - d + IndexWidth BY <1>3, <1>4, <1>5, <1>7, <1>8, <1>9, UsedIs
<1>12. u = IF w >= d THEN w - d ELSE w - d + IndexWidth BY <1>6, <1>7, <1>8, UsedIs
<1>13. t = u + 1 BY <1>6, <1>10, <1>11, <1>12, SizesAre
<1> QED BY <1>3, <1>4, <1>13, <1>5, <1>6 DEF Place, Waiting

LEMMA ReaderMoves ==
  ASSUME NEW r \in Ring, Used(r) > 0, NEW s, s = [r EXCEPT !.rd = Bump(r.rd)]
  PROVE  /\ s \in Ring /\ s.exists = r.exists /\ Used(s) = Used(r) - 1
         /\ \A j \in Int : Waiting(s, j) = Waiting(r, j + 1) /\ Place(s, j) = Place(r, j + 1)
<1>1. r.wr \in 0..IndexWidth - 1 /\ r.rd \in 0..IndexWidth - 1 BY DEF Ring
<1>2. Bump(r.rd) \in 0..IndexWidth - 1 BY <1>1, BumpIs
<1>3. s \in Ring BY <1>2 DEF Ring
<1>4. s.rd = Bump(r.rd) /\ s.slot = r.slot /\ s.wr = r.wr /\ s.exists = r.exists BY DEF Ring
<1>5. PICK t \in 0..IndexWidth - 1 : t = Used(s) BY <1>3, UsedIs
<1>6. PICK u \in 0..IndexWidth - 1 : u = Used(r) BY UsedIs
<1>7. PICK w \in 0..IndexWidth - 1 : w = r.wr BY <1>1
<1>8. PICK d \in 0..IndexWidth - 1 : d = r.rd BY <1>1
<1>9. PICK v \in 0..IndexWidth - 1 : v = Bump(d) BY <1>2, <1>8
<1>10. v = IF d = IndexWidth - 1 THEN 0 ELSE d + 1 BY <1>9, BumpIs
<1>11. t = IF w >= v THEN w - v ELSE w - v + IndexWidth BY <1>3, <1>4, <1>5, <1>7, <1>8, <1>9, UsedIs
<1>12. u = IF w >= d THEN w - d ELSE w - d + IndexWidth BY <1>6, <1>7, <1>8, UsedIs
<1>13. t = u - 1 BY <1>6, <1>10, <1>11, <1>12, SizesAre
<1>14. ASSUME NEW j \in Int PROVE Place(s, j) = Place(r, j + 1)
  <2>1. CASE d = IndexWidth - 1
    <3>1. d + (j + 1) = (v + j) + IndexWidth BY <2>1, <1>10, WrapAround
    <3> QED BY <3>1, <1>4, <1>8, <1>9, WrapAround DEF Place
  <2>2. CASE d # IndexWidth - 1
    <3>1. d + (j + 1) = v + j BY <2>2, <1>10
    <3> QED BY <3>1, <1>4, <1>8, <1>9 DEF Place
  <2> QED BY <2>1, <2>2
<1> QED BY <1>3, <1>4, <1>13, <1>14, <1>5, <1>6 DEF Waiting

LEMMA WriterFills ==
  ASSUME NEW r \in Ring, Used(r) < RingSize, NEW f \in Frame,
         NEW s, s = [r EXCEPT !.slot = [r.slot EXCEPT ![r.wr % RingSize] = f]]
  PROVE  /\ s \in Ring /\ s.exists = r.exists /\ Used(s) = Used(r)
         /\ Waiting(s, Used(r)) = f
         /\ \A j \in 0..Used(r) - 1 : Waiting(s, j) = Waiting(r, j)
         /\ \A j \in Int : Place(s, j) = Place(r, j)
<1>1. PICK u \in 0..RingSize - 1 : u = Used(r) BY UsedIs, WrapAround
<1>2. PICK p \in 0..RingSize - 1 : p = Place(r, u) BY PlaceType, <1>1, WrapAround
<1>3. p = r.wr % RingSize BY <1>1, <1>2, WriterPlace
<1>4. s = [r EXCEPT !.slot = [r.slot EXCEPT ![p] = f]] BY <1>3
<1>5. r.slot \in [0..RingSize - 1 -> Frame] BY DEF Ring
<1>6. [r.slot EXCEPT ![p] = f] \in [0..RingSize - 1 -> Frame] BY <1>5
<1>7. s \in Ring BY <1>4, <1>6 DEF Ring
<1>8. s.rd = r.rd /\ s.wr = r.wr /\ s.exists = r.exists /\ s.slot = [r.slot EXCEPT ![p] = f]
  BY <1>4 DEF Ring
<1>9. \A j \in Int : Place(s, j) = Place(r, j) BY <1>8 DEF Place
<1>10. Used(s) = Used(r) BY <1>8 DEF Used
<1>11. Place(s, u) = p BY <1>2, <1>8 DEF Place
<1>13. Waiting(s, u) = f BY <1>8, <1>11, <1>2, <1>5 DEF Waiting
<1>12. ASSUME NEW j \in 0..u - 1 PROVE Waiting(s, j) = Waiting(r, j)
  <2>1. j \in 0..RingSize - 1 /\ j # u BY <1>1, SizesAre
  <2>2. Place(r, j) # p BY <2>1, <1>1, <1>2, PlacesApart
  <2>3. Place(r, j) \in 0..RingSize - 1 BY PlaceType
  <2> QED BY <2>2, <2>3, <1>8, <1>9, <1>5 DEF Waiting
<1> QED BY <1>1, <1>7, <1>8, <1>9, <1>10, <1>13, <1>12

(***************************************************************************)
(* The configuration dialogue.                                             *)
(***************************************************************************)

\* Of one LiDAR: while a command may still be answered, every wanted setting is
\* accepted, asked for, or about to be sent.
Dialogue(l, u) ==
  /\ u.sampling => Wanted(l) \subseteq u.acked
  /\ (u.left # {} \/ \E s \in Settings : u.flying[s] > 0)
       => Wanted(l) \subseteq u.acked \cup u.bits \cup u.left
  /\ u.left # {} => u.known
  /\ l \in Configured => u.known

SetupInv ==
  /\ cfg \in ConfigType
  /\ setup \in [Lidars -> SetupType]
  /\ \A l \in Lidars : Dialogue(l, setup[l])

LEMMA WantedSettings == \A l \in Lidars : Wanted(l) \subseteq Settings
  BY SetupAssumption DEF Wanted

LEMMA StartDialogue ==
  \A l \in Lidars : /\ Fresh(l) \in SetupType /\ Dialogue(l, Fresh(l))
                   /\ SetUp(l) \in SetupType /\ Dialogue(l, SetUp(l))
<1> SUFFICES ASSUME NEW l \in Lidars
             PROVE  /\ Fresh(l) \in SetupType /\ Dialogue(l, Fresh(l))
                    /\ SetUp(l) \in SetupType /\ Dialogue(l, SetUp(l))
  OBVIOUS
<1>1. PICK none \in [Settings -> Nat] : none = [s \in Settings |-> 0]
  OBVIOUS
<1>2. \A s \in Settings : ~(none[s] > 0)
  BY <1>1
<1>8. PICK c \in BOOLEAN : c <=> (l \in Configured)
  <2>1. CASE l \in Configured BY <2>1
  <2>2. CASE l \notin Configured BY <2>2
  <2> QED BY <2>1, <2>2
<1>3. Fresh(l) = [known |-> c, left |-> {}, bits |-> {}, flying |-> none,
                  sampling |-> FALSE, reports |-> 0, acked |-> {}]
  BY <1>1, <1>8 DEF Fresh
<1>10. Fresh(l) \in SetupType
  BY <1>3 DEF SetupType
<1>11. Fresh(l).left = {} /\ Fresh(l).flying = none
  BY <1>3
<1>4. PICK u \in SetupType : u = Fresh(l) /\ u.left = {} /\ u.flying = none
  BY <1>10, <1>11
<1>5. SetUp(l) = [u EXCEPT !.known = TRUE, !.sampling = TRUE, !.reports = MaxInfo, !.acked = Settings]
  BY <1>4 DEF SetUp
<1>6. Dialogue(l, Fresh(l))
  BY <1>2, <1>3, <1>8 DEF Dialogue
<1>7. /\ SetUp(l) \in SetupType /\ SetUp(l).known = TRUE /\ SetUp(l).acked = Settings
      /\ SetUp(l).left = {} /\ SetUp(l).flying = none
  BY <1>4, <1>5, SetupAssumption DEF SetupType
<1>9. Dialogue(l, SetUp(l))
  BY <1>2, <1>7, WantedSettings DEF Dialogue
<1> QED BY <1>4, <1>6, <1>7, <1>9

LEMMA DialogueGoesOn ==
  ASSUME SetupInv, NEW k \in Lidars, SetupStep(k)
  PROVE  /\ setup' \in [Lidars -> SetupType]
         /\ \A l \in Lidars : Dialogue(l, setup'[l])
<1>1. PICK u \in SetupType : u = setup[k]
  BY DEF SetupInv
<1>2. Dialogue(k, u)
  BY <1>1 DEF SetupInv
<1>3. ASSUME NEW v \in SetupType, Dialogue(k, v), setup' = [setup EXCEPT ![k] = v]
      PROVE  /\ setup' \in [Lidars -> SetupType]
             /\ \A l \in Lidars : Dialogue(l, setup'[l])
  <2>1. setup' \in [Lidars -> SetupType]
    BY <1>3 DEF SetupInv
  <2>2. \A l \in Lidars : setup'[l] = IF l = k THEN v ELSE setup[l]
    BY <1>3 DEF SetupInv
  <2> QED BY <2>1, <2>2, <1>3 DEF SetupInv
<1>4. UNCHANGED setup => (/\ setup' \in [Lidars -> SetupType]
                         /\ \A l \in Lidars : Dialogue(l, setup'[l]))
  BY DEF SetupInv
<1>5. CASE InfoChange(k)
  <2>1. u.left = {} /\ u.known \in BOOLEAN /\ u.reports \in Nat
    BY <1>1, <1>5 DEF InfoChange, SetupType
  <2>2. PICK w \in SUBSET Settings : w = IF u.known THEN Wanted(k) ELSE {}
    BY WantedSettings
  <2>3. PICK v : v = [u EXCEPT !.reports = u.reports + 1, !.known = TRUE, !.left = w]
    OBVIOUS
  <2>9. u.reports + 1 \in Nat
    BY <2>1
  <2>4. v \in SetupType
    BY <2>9, <2>2, <2>3 DEF SetupType
  <2>5. /\ v.sampling = u.sampling /\ v.acked = u.acked /\ v.bits = u.bits
        /\ v.flying = u.flying /\ v.left = w /\ v.known = TRUE
    BY <2>3 DEF SetupType
  <2>6. w # {} => Wanted(k) \subseteq w
    BY <2>2
  <2>7. Dialogue(k, v)
    BY <2>1, <2>5, <2>6, <1>2 DEF Dialogue
  <2>8. setup' = [setup EXCEPT ![k] = v]
    BY <1>1, <1>5, <2>2, <2>3 DEF InfoChange
  <2> QED BY <2>4, <2>7, <2>8, <1>3
<1>6. CASE SendSetting(k)
  <2>1. PICK s \in u.left : setup' = [setup EXCEPT ![k] =
      [u EXCEPT !.left = u.left \ {s}, !.bits = u.bits \union {s},
                !.flying = [u.flying EXCEPT ![s] = u.flying[s] + 1]]]
    BY <1>1, <1>6 DEF SendSetting
  <2>2. s \in Settings /\ u.flying \in [Settings -> Nat] /\ u.left \in SUBSET Settings
        /\ u.bits \in SUBSET Settings
    BY DEF SetupType
  <2>9. PICK g \in [Settings -> Nat] : g = u.flying
    BY <2>2
  <2>10. g[s] + 1 \in Nat
    BY <2>2
  <2>3. PICK f \in [Settings -> Nat] : f = [u.flying EXCEPT ![s] = u.flying[s] + 1]
    BY <2>9, <2>10
  <2>4. PICK v : v = [u EXCEPT !.left = u.left \ {s}, !.bits = u.bits \union {s}, !.flying = f]
    OBVIOUS
  <2>5. v \in SetupType
    BY <2>2, <2>3, <2>4 DEF SetupType
  <2>6. /\ v.sampling = u.sampling /\ v.acked = u.acked /\ v.bits = u.bits \union {s}
        /\ v.left = u.left \ {s} /\ v.known = u.known
    BY <2>4 DEF SetupType
  <2>7. Dialogue(k, v)
    BY <2>1, <2>6, <1>2 DEF Dialogue
  <2>8. setup' = [setup EXCEPT ![k] = v]
    BY <1>1, <2>1, <2>3, <2>4
  <2> QED BY <2>5, <2>7, <2>8, <1>3
<1>7. CASE Answer(k)
  <2>1. PICK s \in Settings :
          /\ u.flying[s] > 0
          /\ \/ /\ Unlocked
                /\ setup' = [setup EXCEPT ![k] =
                     [u EXCEPT !.flying = [u.flying EXCEPT ![s] = u.flying[s] - 1], !.bits = u.bits \ {s},
                               !.sampling = u.sampling \/ u.bits \subseteq {s},
                               !.acked = u.acked \union {s}]]
             \/ UNCHANGED setup
             \/ setup' = [setup EXCEPT ![k] = [u EXCEPT !.flying = [u.flying EXCEPT ![s] = u.flying[s] - 1]]]
    BY <1>1, <1>7 DEF Answer
  <2>2. u.flying \in [Settings -> Nat] /\ u.bits \in SUBSET Settings /\ u.acked \in SUBSET Settings
        /\ u.sampling \in BOOLEAN
    BY DEF SetupType
  <2>7. PICK g \in [Settings -> Nat] : g = u.flying
    BY <2>2
  <2>8. g[s] - 1 \in Nat
    BY <2>1, <2>7
  <2>3. PICK f \in [Settings -> Nat] : f = [u.flying EXCEPT ![s] = u.flying[s] - 1]
    BY <2>7, <2>8
  <2>4. Wanted(k) \subseteq u.acked \cup u.bits \cup u.left
    BY <1>2, <2>1 DEF Dialogue
  <2>5. CASE Unlocked /\ setup' = [setup EXCEPT ![k] =
                     [u EXCEPT !.flying = [u.flying EXCEPT ![s] = u.flying[s] - 1], !.bits = u.bits \ {s},
                               !.sampling = u.sampling \/ u.bits \subseteq {s},
                               !.acked = u.acked \union {s}]]
    <3>2. PICK v : v = [u EXCEPT !.flying = f, !.bits = u.bits \ {s}, !.sampling = u.sampling \/ u.bits \subseteq {s},
                                 !.acked = u.acked \union {s}]
      OBVIOUS
    <3>3. v \in SetupType
      BY <2>2, <2>3, <3>2 DEF SetupType
    <3>4. /\ v.bits = u.bits \ {s} /\ (v.sampling <=> u.sampling \/ u.bits \subseteq {s}) /\ v.acked = u.acked \union {s}
          /\ v.left = u.left /\ v.known = u.known
      BY <3>2 DEF SetupType
    <3>5. u.left = {}
      BY <1>1, <2>5 DEF Unlocked
    <3>6. Dialogue(k, v)
      BY <1>2, <2>4, <3>4, <3>5 DEF Dialogue
    <3>7. setup' = [setup EXCEPT ![k] = v]
      BY <1>1, <2>5, <2>3, <3>2
    <3> QED BY <3>3, <3>6, <3>7, <1>3
  <2>6. CASE setup' = [setup EXCEPT ![k] = [u EXCEPT !.flying = [u.flying EXCEPT ![s] = u.flying[s] - 1]]]
    <3>1. PICK v : v = [u EXCEPT !.flying = f]
      OBVIOUS
    <3>2. v \in SetupType
      BY <2>3, <3>1 DEF SetupType
    <3>3. /\ v.bits = u.bits /\ v.sampling = u.sampling /\ v.acked = u.acked
          /\ v.left = u.left /\ v.known = u.known
      BY <3>1 DEF SetupType
    <3>4. Dialogue(k, v)
      BY <1>2, <2>4, <3>3 DEF Dialogue
    <3>5. setup' = [setup EXCEPT ![k] = v]
      BY <1>1, <2>6, <2>3, <3>1
    <3> QED BY <3>2, <3>4, <3>5, <1>3
  <2> QED BY <2>1, <2>5, <2>6, <1>4
<1> QED BY <1>5, <1>6, <1>7 DEF SetupStep

\* Every other action leaves the dialogue alone.
LEMMA SetupAlone ==
  Next => \/ UNCHANGED <<cfg, setup>>
          \/ UNCHANGED cfg /\ \E l \in cfg.lidars : SetupStep(l)
  BY DEF Next, Setup, Tick, Packet, ProcessPacket, Points, Reader, CheckFull, FillSlot,
         AdvanceWriter, SignalReader, TopOfLoop, WaitForPoints, VisitLidar, DropBacklog,
         PollRing, AdvanceReader, PublishFrame, StoreImu, SignalImu, ImuReader, ImuTopOfLoop,
         WaitForImu, PollImu, RequestExit, SignalExit, imuOthers

LEMMA SetupInvariant == Spec => []SetupInv
<1>1. Init => SetupInv
  <2> SUFFICES ASSUME Init PROVE SetupInv
    OBVIOUS
  <2>1. cfg \in ConfigType
    BY DriverAssumption DEF Init
  <2>2. \A l \in Lidars : setup[l] = SetUp(l) \/ setup[l] = Fresh(l)
    BY DEF Init
  <2>3. setup = [l \in Lidars |-> setup[l]]
    BY DEF Init
  <2>4. setup \in [Lidars -> SetupType]
    BY <2>2, <2>3, StartDialogue
  <2> QED BY <2>1, <2>2, <2>4, StartDialogue DEF SetupInv
<1>2. SetupInv /\ [Next]_vars => SetupInv'
  <2> SUFFICES ASSUME SetupInv, [Next]_vars PROVE SetupInv'
    OBVIOUS
  <2>1. CASE UNCHANGED <<cfg, setup>>
    BY <2>1 DEF SetupInv, Dialogue
  <2>2. ASSUME UNCHANGED cfg, NEW l \in cfg.lidars, SetupStep(l) PROVE SetupInv'
    <3>1. l \in Lidars BY DEF SetupInv, ConfigType
    <3>2. /\ setup' \in [Lidars -> SetupType] /\ \A m \in Lidars : Dialogue(m, setup'[m])
      BY <2>2, <3>1, DialogueGoesOn
    <3> QED BY <2>2, <3>2 DEF SetupInv, Dialogue
  <2> QED BY <2>1, <2>2, SetupAlone DEF vars
<1> QED BY <1>1, <1>2, PTL DEF Spec

(* A LiDAR is read only once it accepted every setting asked for, for any     *)
(* number of LiDARs, settings and reports: while a command may still be       *)
(* answered, a wanted setting is accepted, marked in set_bits, or yet to be   *)
(* sent by the report that holds the lock (SamplingConfigured).               *)
THEOREM OnlyConfiguredSample == Spec => []SamplingConfigured
<1>1. SetupInv => SamplingConfigured
  BY DEF SetupInv, Dialogue, SamplingConfigured
<1> QED BY <1>1, SetupInvariant, PTL

(***************************************************************************)
(* One ring between its writer and its reader.  p and c say where the      *)
(* writer and the reader are in this ring, f and g which frames they have  *)
(* in hand; m frames of the LiDAR were made so far.                        *)
(***************************************************************************)
InFlight == {"check", "fill", "advance"}
Dropped  == {"drop", "dropping"}
Writers  == InFlight \cup {"idle", "signal"}
Elsewhere == {"top", "done", "wait", "visit", "poll", "again"}
Readers   == Elsewhere \cup Dropped \cup {"release", "publish"}

\* The last frame that left the writer's hands.
Delivered(p, m) == IF p \in InFlight THEN m - 1 ELSE m

Room(r, p) ==
  /\ Used(r) <= RingSize
  /\ p \in {"fill", "advance"} => Used(r) < RingSize /\ r.exists
  /\ ~r.exists => Used(r) = 0

InHand(r, p, f, m) ==
  /\ p \in InFlight => f.n = m
  /\ p = "advance" => Waiting(r, Used(r)) = f

\* What waits is new to the reader, in order, and delivered.
InOrder(r, p, last, m) ==
  /\ last <= Delivered(p, m)
  /\ \A j \in 0..Used(r) - 1 : last < Waiting(r, j).n /\ Waiting(r, j).n <= Delivered(p, m)
  /\ \A j, k \in 0..Used(r) - 1 : j < k => Waiting(r, j).n < Waiting(r, k).n

\* The backlog of the start, up to frame stale, ends before the newest frame, and
\* is gone once the reader stopped dropping.
NoStale(r, p, c, stale, m) ==
  /\ stale <= Delivered(p, m)
  /\ Used(r) > 0 => stale < Waiting(r, Used(r) - 1).n
  /\ c \notin Dropped => \A j \in 0..Used(r) - 1 : stale < Waiting(r, j).n

Taken(r, p, c, g, last, stale, m) ==
  /\ c = "release" => Used(r) > 0 /\ g = Waiting(r, 0)
  /\ c = "dropping" => Used(r) > 1
  /\ c = "publish" =>
       /\ last < g.n /\ stale < g.n /\ g.n <= Delivered(p, m)
       /\ \A j \in 0..Used(r) - 1 : g.n < Waiting(r, j).n

RowOK(r, p, f, c, g, last, stale, m) ==
  /\ Room(r, p) /\ InHand(r, p, f, m)
  /\ InOrder(r, p, last, m) /\ NoStale(r, p, c, stale, m)
  /\ Taken(r, p, c, g, last, stale, m)

LEMMA WaitingType == \A r \in Ring : Used(r) \in Nat /\ \A j \in Int : Waiting(r, j).n \in Nat
<1>1. \A r \in Ring : Used(r) \in Nat BY UsedIs, SizesAre
<1>2. \A r \in Ring, j \in Int : Waiting(r, j) \in Frame BY PlaceType
<1> QED BY <1>1, <1>2 DEF Frame

(* The writer's steps *)

LEMMA FrameMade ==
  ASSUME NEW r \in Ring, NEW p \in {"idle", "signal"}, NEW f, NEW c \in Readers, NEW g \in Frame,
         NEW last \in Nat, NEW stale \in Nat, NEW m \in Nat, RowOK(r, p, f, c, g, last, stale, m),
         NEW h \in Frame, h.n = m + 1
  PROVE  RowOK(r, "check", h, c, g, last, stale, m + 1)
<1>1. Delivered("check", m + 1) = m /\ Delivered(p, m) = m BY DEF Delivered, InFlight
<1>2. Room(r, "check") BY DEF RowOK, Room
<1>3. InHand(r, "check", h, m + 1) BY DEF InHand
<1> QED BY <1>1, <1>2, <1>3 DEF RowOK, InOrder, NoStale, Taken

LEMMA FrameChecked ==
  ASSUME NEW r \in Ring, NEW f, NEW c \in Readers, NEW g \in Frame,
         NEW last \in Nat, NEW stale \in Nat, NEW m \in Nat, RowOK(r, "check", f, c, g, last, stale, m),
         NEW s, s = [r EXCEPT !.exists = TRUE]
  PROVE  /\ s \in Ring
         /\ RowOK(s, IF r.exists /\ Full(r) THEN "signal" ELSE "fill", f, c, g, last, stale, m)
<1>1. s \in Ring BY DEF Ring
<1>2. Used(s) = Used(r) /\ s.exists = TRUE BY DEF Used, Ring
<1>3. \A j \in Int : Waiting(s, j) = Waiting(r, j) BY DEF Waiting, Place, Ring
<1>4. Used(r) \in Nat /\ \A j \in Int : Waiting(r, j).n \in Nat BY WaitingType
<1>5. PICK q \in {"signal", "fill"} : q = IF r.exists /\ Full(r) THEN "signal" ELSE "fill"
  OBVIOUS
<1>6. Room(s, q)
  <2>1. CASE r.exists /\ Full(r) BY <2>1, <1>2, <1>5 DEF Room, RowOK
  <2>2. CASE ~r.exists BY <2>2, <1>2, <1>5, SizesAre DEF Room, RowOK
  <2>3. CASE ~Full(r) BY <2>3, <1>2, <1>4, <1>5, SizesAre DEF Room, RowOK, Full
  <2> QED BY <2>1, <2>2, <2>3
<1>7. Delivered("check", m) = m - 1 /\ Delivered(q, m) \in {m - 1, m} BY DEF Delivered, InFlight
<1>8. PICK d \in Int : d = Delivered(q, m) /\ m - 1 <= d BY <1>7
<1>13. PICK u \in Nat : u = Used(r) BY <1>4
<1>15. Used(s) = u /\ \A j \in 0..u - 1 : Waiting(s, j) = Waiting(r, j)
  <2>1. \A j \in 0..u - 1 : j \in Int
    OBVIOUS
  <2> QED BY <1>2, <1>3, <1>13, <2>1, Zenon
<1>16. Waiting(s, 0) = Waiting(r, 0)
  <2>1. 0 \in Int
    OBVIOUS
  <2> QED BY <1>3, <2>1, Zenon
<1>14. \A j \in 0..u - 1 : last < Waiting(r, j).n /\ Waiting(r, j).n <= m - 1
  BY <1>7, <1>13 DEF RowOK, InOrder
<1>9. InHand(s, q, f, m) BY DEF RowOK, InHand, InFlight
<1>10. InOrder(s, q, last, m)
  <2>1. last <= d BY <1>7, <1>8 DEF RowOK, InOrder
  <2>2. \A j \in 0..u - 1 : last < Waiting(r, j).n /\ Waiting(r, j).n <= d
    BY <1>4, <1>8, <1>14
  <2>3. \A j, k \in 0..u - 1 : j < k => Waiting(r, j).n < Waiting(r, k).n
    BY <1>13 DEF RowOK, InOrder
  <2> QED BY <1>8, <1>15, <2>1, <2>2, <2>3 DEF InOrder
<1>11. NoStale(s, q, c, stale, m)
  <2>1. stale <= d BY <1>7, <1>8 DEF RowOK, NoStale
  <2>2. u > 0 => stale < Waiting(r, u - 1).n
    BY <1>13 DEF RowOK, NoStale
  <2>3. c \notin Dropped => \A j \in 0..u - 1 : stale < Waiting(r, j).n
    BY <1>13 DEF RowOK, NoStale
  <2>4. u > 0 => u - 1 \in 0..u - 1
    OBVIOUS
  <2> QED BY <1>8, <1>15, <2>1, <2>2, <2>3, <2>4 DEF NoStale
<1>12. Taken(s, q, c, g, last, stale, m)
  <2>1. c = "publish" => g.n <= d BY <1>7, <1>8 DEF RowOK, Taken, Frame
  <2>2. c = "publish" => last < g.n /\ stale < g.n /\ \A j \in 0..u - 1 : g.n < Waiting(r, j).n
    BY <1>13 DEF RowOK, Taken
  <2>3. c = "release" => u > 0 /\ g = Waiting(r, 0)
    BY <1>13 DEF RowOK, Taken
  <2>4. c = "dropping" => u > 1
    BY <1>13 DEF RowOK, Taken
  <2> QED BY <1>8, <1>15, <1>16, <2>1, <2>2, <2>3, <2>4 DEF Taken
<1> QED BY <1>1, <1>5, <1>6, <1>9, <1>10, <1>11, <1>12 DEF RowOK

LEMMA FrameFilled ==
  ASSUME NEW r \in Ring, NEW f \in Frame, NEW c \in Readers, NEW g \in Frame,
         NEW last \in Nat, NEW stale \in Nat, NEW m \in Nat, RowOK(r, "fill", f, c, g, last, stale, m),
         NEW s, s = [r EXCEPT !.slot = [r.slot EXCEPT ![r.wr % RingSize] = f]]
  PROVE  s \in Ring /\ RowOK(s, "advance", f, c, g, last, stale, m)
<1>1. Used(r) < RingSize BY DEF RowOK, Room
<1>2. PICK u \in Nat : u = Used(r) BY WaitingType
<1>3. /\ s \in Ring /\ s.exists = r.exists /\ Used(s) = u /\ Waiting(s, u) = f
      /\ \A j \in 0..u - 1 : Waiting(s, j) = Waiting(r, j)
  BY <1>1, <1>2, WriterFills
<1>4. Delivered("advance", m) = Delivered("fill", m) BY DEF Delivered, InFlight
<1>5. Room(s, "advance") BY <1>1, <1>2, <1>3 DEF RowOK, Room
<1>6. InHand(s, "advance", f, m) BY <1>3 DEF RowOK, InHand, InFlight
<1>7. InOrder(s, "advance", last, m) BY <1>2, <1>3, <1>4 DEF RowOK, InOrder
<1>8. NoStale(s, "advance", c, stale, m)
  <2>1. u > 0 => u - 1 \in 0..u - 1 OBVIOUS
  <2> QED BY <1>2, <1>3, <1>4, <2>1 DEF RowOK, NoStale
<1>9. Taken(s, "advance", c, g, last, stale, m)
  <2>1. u > 0 => 0 \in 0..u - 1 OBVIOUS
  <2> QED BY <1>2, <1>3, <1>4, <2>1 DEF RowOK, Taken
<1> QED BY <1>3, <1>5, <1>6, <1>7, <1>8, <1>9 DEF RowOK

LEMMA FrameDelivered ==
  ASSUME NEW r \in Ring, NEW f \in Frame, NEW c \in Readers, NEW g \in Frame,
         NEW last \in Nat, NEW stale \in Nat, NEW m \in Nat, RowOK(r, "advance", f, c, g, last, stale, m),
         NEW s, s = [r EXCEPT !.wr = Bump(r.wr)]
  PROVE  s \in Ring /\ RowOK(s, "signal", f, c, g, last, stale, m)
<1>1. Used(r) < RingSize BY DEF RowOK, Room
<1>2. PICK u \in Nat : u = Used(r) BY WaitingType
<1>3. /\ s \in Ring /\ s.exists = r.exists /\ Used(s) = u + 1
      /\ \A j \in Int : Waiting(s, j) = Waiting(r, j)
  BY <1>1, <1>2, WriterMoves
<1>4. Delivered("advance", m) = m - 1 /\ Delivered("signal", m) = m BY DEF Delivered, InFlight
<1>5. f = Waiting(r, u) /\ f.n = m BY <1>2 DEF RowOK, InHand, InFlight
<1>6. \A j \in Int : Waiting(r, j).n \in Nat BY WaitingType
<1>7. \A j \in 0..u - 1 : /\ last < Waiting(r, j).n /\ Waiting(r, j).n < m
  BY <1>2, <1>4, <1>6 DEF RowOK, InOrder
<1>8. last < m /\ stale < m BY <1>4 DEF RowOK, InOrder, NoStale
<1>9. Room(s, "signal")
  <2>1. r.exists BY DEF RowOK, Room
  <2> QED BY <1>1, <1>2, <1>3, <2>1, SizesAre DEF RowOK, Room
<1>10. InHand(s, "signal", f, m) BY DEF InHand, InFlight
<1>11. InOrder(s, "signal", last, m)
  <2>1. \A j, k \in 0..u : j < k => Waiting(r, j).n < Waiting(r, k).n
    BY <1>2, <1>5, <1>6, <1>7 DEF RowOK, InOrder
  <2> QED BY <1>3, <1>4, <1>5, <1>6, <1>7, <1>8, <2>1 DEF InOrder
<1>12. NoStale(s, "signal", c, stale, m)
  <2>1. c \notin Dropped => \A j \in 0..u : stale < Waiting(r, j).n
    BY <1>2, <1>5, <1>8 DEF RowOK, NoStale
  <2> QED BY <1>3, <1>4, <1>5, <1>8, <2>1 DEF NoStale
<1>13. Taken(s, "signal", c, g, last, stale, m)
  <2>1. c = "publish" => g.n < m BY <1>4 DEF RowOK, Taken, Frame
  <2>2. c = "publish" => \A j \in 0..u : g.n < Waiting(r, j).n
    BY <1>2, <1>5, <2>1 DEF RowOK, Taken
  <2> QED BY <1>2, <1>3, <1>4, <2>1, <2>2 DEF RowOK, Taken, Frame
<1> QED BY <1>3, <1>9, <1>10, <1>11, <1>12, <1>13 DEF RowOK

(* The reader's steps *)

\* Away from the ring, where the reader is and what it has in hand do not matter;
\* nor does what the writer has in hand once the frame is delivered.
LEMMA ReaderAway ==
  ASSUME NEW r \in Ring, NEW p \in Writers, NEW f, NEW c \in Elsewhere, NEW g,
         NEW last \in Nat, NEW stale \in Nat, NEW m \in Nat, RowOK(r, p, f, c, g, last, stale, m),
         NEW b \in Elsewhere, NEW h
  PROVE  RowOK(r, p, f, b, h, last, stale, m)
<1>1. NoStale(r, p, b, stale, m) BY DEF RowOK, NoStale, Elsewhere, Dropped
<1>2. Taken(r, p, b, h, last, stale, m) BY DEF Taken, Elsewhere
<1> QED BY <1>1, <1>2 DEF RowOK

LEMMA WriterAway ==
  ASSUME NEW r \in Ring, NEW p \in {"idle", "signal"}, NEW f, NEW c \in Readers, NEW g,
         NEW last \in Nat, NEW stale \in Nat, NEW m \in Nat, RowOK(r, p, f, c, g, last, stale, m),
         NEW q \in {"idle", "signal"}, NEW h
  PROVE  RowOK(r, q, h, c, g, last, stale, m)
<1>1. Delivered(p, m) = Delivered(q, m) BY DEF Delivered, InFlight
<1>2. Room(r, q) BY DEF RowOK, Room
<1>3. InHand(r, q, h, m) BY DEF InHand, InFlight
<1> QED BY <1>1, <1>2, <1>3 DEF RowOK, InOrder, NoStale, Taken

\* The backlog found at the first visit is everything but the newest frame.
LEMMA BacklogFound ==
  ASSUME NEW r \in Ring, NEW p \in Writers, NEW f, NEW g, NEW h,
         NEW last \in Nat, NEW stale \in Nat, NEW m \in Nat, RowOK(r, p, f, "visit", g, last, stale, m),
         NEW b \in Nat,
         b = IF Used(r) > 1 THEN At(r, r.wr + IndexWidth - 2).n ELSE stale
  PROVE  RowOK(r, p, f, "drop", h, last, b, m)
<1>1. PICK u \in Nat : u = Used(r) BY WaitingType
<1>2. Taken(r, p, "drop", h, last, b, m) BY DEF Taken
<1>3. CASE u > 1
  <2>1. b = Waiting(r, u - 2).n BY <1>1, <1>3, WriterPlace
  <2>2. u - 2 \in 0..u - 1 /\ u - 1 \in 0..u - 1 /\ u - 2 < u - 1 BY <1>3
  <2>3. b < Waiting(r, u - 1).n BY <1>1, <2>1, <2>2 DEF RowOK, InOrder
  <2>4. b <= Delivered(p, m) BY <1>1, <2>1, <2>2 DEF RowOK, InOrder
  <2>5. NoStale(r, p, "drop", b, m) BY <1>1, <2>3, <2>4 DEF NoStale, Dropped
  <2> QED BY <1>2, <2>5 DEF RowOK
<1>4. CASE ~(u > 1)
  <2>1. b = stale BY <1>1, <1>4
  <2>2. NoStale(r, p, "drop", b, m) BY <2>1 DEF RowOK, NoStale, Dropped
  <2> QED BY <1>2, <2>2 DEF RowOK
<1> QED BY <1>3, <1>4

LEMMA BacklogDropped ==
  ASSUME NEW r \in Ring, NEW p \in Writers, NEW f, NEW g, NEW h,
         NEW last \in Nat, NEW stale \in Nat, NEW m \in Nat, RowOK(r, p, f, "drop", g, last, stale, m)
  PROVE  /\ Used(r) > 1 => RowOK(r, p, f, "dropping", h, last, stale, m)
         /\ ~(Used(r) > 1) => RowOK(r, p, f, "poll", h, last, stale, m)
<1>1. PICK u \in Nat : u = Used(r) BY WaitingType
<1>2. CASE u > 1
  <2>1. NoStale(r, p, "dropping", stale, m) BY DEF RowOK, NoStale, Dropped
  <2>2. Taken(r, p, "dropping", h, last, stale, m) BY <1>1, <1>2 DEF Taken
  <2> QED BY <1>1, <1>2, <2>1, <2>2 DEF RowOK
<1>3. CASE ~(u > 1)
  <2>1. \A j \in 0..u - 1 : u > 0 /\ j = u - 1 BY <1>3
  <2>2. NoStale(r, p, "poll", stale, m) BY <1>1, <2>1 DEF RowOK, NoStale
  <2>3. Taken(r, p, "poll", h, last, stale, m) BY DEF Taken
  <2> QED BY <1>1, <1>3, <2>2, <2>3 DEF RowOK
<1> QED BY <1>2, <1>3

LEMMA FrameTaken ==
  ASSUME NEW r \in Ring, NEW p \in Writers, NEW f, NEW c \in Elsewhere, NEW g,
         NEW last \in Nat, NEW stale \in Nat, NEW m \in Nat, RowOK(r, p, f, c, g, last, stale, m),
         Used(r) > 0
  PROVE  RowOK(r, p, f, "release", Waiting(r, 0), last, stale, m)
<1>1. NoStale(r, p, "release", stale, m) BY DEF RowOK, NoStale, Elsewhere, Dropped
<1>2. Taken(r, p, "release", Waiting(r, 0), last, stale, m) BY DEF Taken
<1> QED BY <1>1, <1>2 DEF RowOK

LEMMA FrameReleased ==
  ASSUME NEW r \in Ring, NEW p \in Writers, NEW f, NEW c \in {"release", "dropping"}, NEW g \in Frame,
         NEW last \in Nat, NEW stale \in Nat, NEW m \in Nat, RowOK(r, p, f, c, g, last, stale, m),
         NEW s, s = [r EXCEPT !.rd = Bump(r.rd)]
  PROVE  s \in Ring /\ RowOK(s, p, f, IF c = "release" THEN "publish" ELSE "drop", g, last, stale, m)
<1>1. PICK u \in Nat : u = Used(r) BY WaitingType
<1>2. u > 0 /\ (c = "dropping" => u > 1) BY <1>1 DEF RowOK, Taken
<1>3. PICK v \in Nat : v = u - 1 BY <1>2
<1>4. /\ s \in Ring /\ s.exists = r.exists /\ Used(s) = v
      /\ \A j \in Int : Waiting(s, j) = Waiting(r, j + 1)
  BY <1>1, <1>2, <1>3, ReaderMoves
<1>5. PICK d \in Int : d = Delivered(p, m) BY DEF Delivered
<1>6. \A j \in 0..u - 1 : last < Waiting(r, j).n /\ Waiting(r, j).n <= d
  BY <1>1, <1>5 DEF RowOK, InOrder
<1>7. \A j, k \in 0..u - 1 : j < k => Waiting(r, j).n < Waiting(r, k).n
  BY <1>1 DEF RowOK, InOrder
<1>8. \A j \in 0..v - 1 : j + 1 \in 0..u - 1 /\ Waiting(s, j) = Waiting(r, j + 1)
  BY <1>3, <1>4
<1>9. Room(s, p)
  <2>1. u <= RingSize /\ (p \in {"fill", "advance"} => u < RingSize /\ r.exists) /\ r.exists
    BY <1>1, <1>2 DEF RowOK, Room
  <2> QED BY <2>1, <1>3, <1>4, SizesAre DEF Room
<1>10. InHand(s, p, f, m)
  <2>1. Waiting(s, v) = Waiting(r, u) BY <1>3, <1>4
  <2> QED BY <2>1, <1>1, <1>4 DEF RowOK, InHand
<1>11. InOrder(s, p, last, m)
  <2>1. last <= d BY <1>5 DEF RowOK, InOrder
  <2>2. \A j \in 0..v - 1 : last < Waiting(s, j).n /\ Waiting(s, j).n <= d
    BY <1>6, <1>8
  <2>3. ASSUME NEW j \in 0..v - 1, NEW k \in 0..v - 1, j < k
        PROVE  Waiting(s, j).n < Waiting(s, k).n
    <3>1. j + 1 < k + 1 BY <2>3
    <3> QED BY <3>1, <1>7, <1>8
  <2> QED BY <1>4, <1>5, <2>1, <2>2, <2>3 DEF InOrder
<1>12. stale <= d BY <1>5 DEF RowOK, NoStale
<1>13. v > 0 => stale < Waiting(s, v - 1).n
  <2>1. SUFFICES ASSUME v > 0 PROVE stale < Waiting(s, v - 1).n
    OBVIOUS
  <2>2. v - 1 \in 0..v - 1 /\ v - 1 + 1 = u - 1 BY <2>1, <1>3
  <2>3. Waiting(s, v - 1) = Waiting(r, u - 1) BY <2>2, <1>8
  <2> QED BY <2>3, <1>1, <1>2 DEF RowOK, NoStale
<1>14. CASE c = "release"
  <2>1. g = Waiting(r, 0) BY <1>14 DEF RowOK, Taken
  <2>2. 0 \in 0..u - 1 BY <1>2
  <2>3. \A j \in 0..u - 1 : stale < Waiting(r, j).n BY <1>1, <1>14 DEF RowOK, NoStale, Dropped
  <2>4. NoStale(s, p, "publish", stale, m)
    <3>1. \A j \in 0..v - 1 : stale < Waiting(s, j).n BY <2>3, <1>8
    <3> QED BY <3>1, <1>4, <1>5, <1>12, <1>13 DEF NoStale
  <2>5. Taken(s, p, "publish", g, last, stale, m)
    <3>1. last < g.n /\ g.n <= d /\ stale < g.n BY <2>1, <2>2, <2>3, <1>6
    <3>2. \A j \in 0..v - 1 : 0 < j + 1 OBVIOUS
    <3>3. \A j \in 0..v - 1 : g.n < Waiting(s, j).n BY <2>1, <2>2, <1>7, <1>8, <3>2
    <3> QED BY <3>1, <3>3, <1>4, <1>5 DEF Taken
  <2> QED BY <1>4, <1>9, <1>10, <1>11, <1>14, <2>4, <2>5 DEF RowOK
<1>15. CASE c = "dropping"
  <2>1. NoStale(s, p, "drop", stale, m) BY <1>4, <1>5, <1>12, <1>13 DEF NoStale, Dropped
  <2>2. Taken(s, p, "drop", g, last, stale, m) BY DEF Taken
  <2> QED BY <1>4, <1>9, <1>10, <1>11, <1>15, <2>1, <2>2 DEF RowOK
<1> QED BY <1>14, <1>15

LEMMA FramePublished ==
  ASSUME NEW r \in Ring, NEW p \in Writers, NEW f, NEW g \in Frame, NEW h,
         NEW last \in Nat, NEW stale \in Nat, NEW m \in Nat, RowOK(r, p, f, "publish", g, last, stale, m)
  PROVE  last < g.n /\ stale < g.n /\ RowOK(r, p, f, "again", h, g.n, stale, m)
<1>1. last < g.n /\ stale < g.n /\ g.n <= Delivered(p, m)
      /\ \A j \in 0..Used(r) - 1 : g.n < Waiting(r, j).n
  BY DEF RowOK, Taken
<1>2. InOrder(r, p, g.n, m) BY <1>1 DEF RowOK, InOrder
<1>3. NoStale(r, p, "again", stale, m) BY DEF RowOK, NoStale, Dropped
<1>4. Taken(r, p, "again", h, g.n, stale, m) BY DEF Taken
<1> QED BY <1>1, <1>2, <1>3, <1>4 DEF RowOK

(***************************************************************************)
(* Types.                                                                  *)
(***************************************************************************)
PacketType == [lidar : Lidars, stamp : Nat, clock : TimeTypes]
ProdType == [pc : Writers, lidar : Lidars, frame : Frame]
ConsType == [pc : Elsewhere \cup {"drop", "release", "publish"}, lidar : Lidars,
             frame : Frame, dropping : BOOLEAN]
SampleType == [stamp : Nat, clock : Clocks, arrival : Nat]
GateType == [count : Nat, stamp : Nat, clock : Clocks, arrival : Nat]
SharedType == [open : BOOLEAN, ready : BOOLEAN, stamp : Nat]
SeenType == [last : [Lidars -> Nat], stale : [Lidars -> Nat], intact : BOOLEAN,
             samples : Seq(SampleType)]

DriverTypeOK ==
  /\ cfg \in ConfigType /\ now \in Nat
  /\ raw \in Seq(PacketType) /\ points \in [Lidars -> Seq(Nat)]
  /\ prod \in ProdType /\ ring \in [Lidars -> Ring] /\ made \in [Lidars -> Nat]
  /\ cons \in ConsType /\ started \in [Lidars -> BOOLEAN]
  /\ gate \in GateType /\ clock \in Clocks /\ shared \in SharedType
  /\ seen \in SeenType

LEMMA OneIsALidar == 1 \in Lidars /\ NumLidars \in Nat \ {0}
  BY SetupAssumption DEF Lidars

LEMMA NoFrameType == NoFrame \in Frame /\ NoGate \in GateType
  BY DEF NoFrame, NoGate, Frame, GateType, Clocks

LEMMA InitType == Init => DriverTypeOK
<1> SUFFICES ASSUME Init PROVE DriverTypeOK
  OBVIOUS
<1>1. cfg \in ConfigType /\ now \in Nat
  BY DriverAssumption DEF Init
<1>2. raw \in Seq(PacketType) /\ points \in [Lidars -> Seq(Nat)] /\ made \in [Lidars -> Nat]
      /\ started \in [Lidars -> BOOLEAN]
  BY DEF Init
<1>3. prod \in ProdType
  BY OneIsALidar, NoFrameType DEF Init, ProdType, Writers
<1>4. cons \in ConsType
  BY OneIsALidar, NoFrameType DEF Init, ConsType, Elsewhere
<1>5. ring \in [Lidars -> Ring]
  <2>1. PICK slots \in [0..RingSize - 1 -> Frame] : slots = [i \in 0..RingSize - 1 |-> NoFrame]
    BY NoFrameType
  <2>2. 0 \in 0..IndexWidth - 1 BY SizesAre
  <2>3. [rd |-> 0, wr |-> 0, exists |-> FALSE, slot |-> slots] \in Ring
    BY <2>2 DEF Ring
  <2> QED BY <2>1, <2>3 DEF Init
<1>6. gate \in GateType /\ clock \in Clocks
  BY NoFrameType DEF Init, Clocks
<1>7. shared \in SharedType
  BY DEF Init, SharedType
<1>8. seen \in SeenType
  <2>4. <<>> \in Seq(SampleType)
    OBVIOUS
  <2>1. PICK none \in Seq(SampleType) : none = <<>>
    BY <2>4
  <2>2. PICK zero \in [Lidars -> Nat] : zero = [l \in Lidars |-> 0]
    OBVIOUS
  <2>3. [last |-> zero, stale |-> zero, intact |-> TRUE, samples |-> none] \in SeenType
    BY DEF SeenType
  <2> QED BY <2>1, <2>2, <2>3 DEF Init
<1> QED BY <1>1, <1>2, <1>3, <1>4, <1>5, <1>6, <1>7, <1>8 DEF DriverTypeOK

\* What each action of the data path leaves in its variables.

LEMMA PacketStep ==
  ASSUME DriverTypeOK, NEW l \in cfg.lidars, NEW type \in cfg.clocks, Packet(l, type)
  PROVE  DriverTypeOK'
<1>1. l \in Lidars /\ type \in TimeTypes BY DEF DriverTypeOK, ConfigType
<1>2. Offset[type] \in Nat BY <1>1, DriverAssumption
<1>3. now' = now + 1 /\ raw' = Append(raw, [lidar |-> l, stamp |-> now' + Offset[type], clock |-> type])
  BY DEF Packet
<1>4. now' \in Nat BY <1>3 DEF DriverTypeOK
<1>5. PICK t \in Nat : t = now' + Offset[type] BY <1>2, <1>4
<1>6. [lidar |-> l, stamp |-> t, clock |-> type] \in PacketType BY <1>1 DEF PacketType
<1>7. raw' \in Seq(PacketType)
  <2>1. raw \in Seq(PacketType) BY DEF DriverTypeOK
  <2> QED BY <1>3, <1>5, <1>6, <2>1
<1> QED BY <1>4, <1>7 DEF DriverTypeOK, Packet, lddc

LEMMA ProcessStep ==
  ASSUME DriverTypeOK, ProcessPacket
  PROVE  /\ DriverTypeOK'
         /\ prod.pc = "idle" /\ UNCHANGED <<ring, cons, started, seen>>
         /\ \/ UNCHANGED <<prod, made>>
            \/ \E l \in Lidars, f \in Frame :
                 /\ f.n = made[l] + 1 /\ made' = [made EXCEPT ![l] = made[l] + 1]
                 /\ prod' = [pc |-> "check", lidar |-> l, frame |-> f]
<1>1. PICK p \in PacketType : p = Head(raw)
  BY DEF DriverTypeOK, ProcessPacket
<1>2. p.lidar \in Lidars /\ p.stamp \in Nat /\ p.clock \in Clocks
  BY DEF PacketType, Clocks
<1>3. PICK pts \in Seq(Nat) : pts = Append(points[p.lidar], p.stamp)
  <2>1. PICK old \in Seq(Nat) : old = points[p.lidar] BY <1>2 DEF DriverTypeOK
  <2>2. Append(old, p.stamp) \in Seq(Nat) BY <1>2
  <2> QED BY <2>1, <2>2
<1>4. Head(pts) \in Nat
  <2>1. PICK old \in Seq(Nat) : old = points[p.lidar] BY <1>2 DEF DriverTypeOK
  <2>2. pts # <<>> BY <1>2, <1>3, <2>1
  <2> QED BY <2>2
<1>5. raw' \in Seq(PacketType)
  BY DEF DriverTypeOK, ProcessPacket
<1>6. PICK due : due = Due(p.lidar, p.clock, pts)
  OBVIOUS
<1>7. <<>> \in Seq(Nat) /\ <<Head(pts), p.stamp>> \in Seq(Nat)
  BY <1>2, <1>4
<1>8. points' \in [Lidars -> Seq(Nat)]
  BY <1>1, <1>2, <1>3, <1>7 DEF DriverTypeOK, ProcessPacket
<1>9. PICK f \in Frame : f = [n |-> made[p.lidar] + 1, base |-> Head(pts), clock |-> p.clock]
  <2>1. made[p.lidar] + 1 \in Nat BY <1>2 DEF DriverTypeOK
  <2> QED BY <1>2, <1>4, <2>1 DEF Frame
<1>10. prod.pc = "idle" /\ UNCHANGED <<cfg, now, ring, cons, started, gate, clock, shared, seen>>
  BY DEF ProcessPacket, lddc
<1>11. \/ UNCHANGED <<prod, made>>
       \/ /\ made' = [made EXCEPT ![p.lidar] = made[p.lidar] + 1]
          /\ prod' = [pc |-> "check", lidar |-> p.lidar, frame |-> f]
  BY <1>1, <1>3, <1>9 DEF ProcessPacket
<1>12. f.n = made[p.lidar] + 1 BY <1>9
<1>13. prod' \in ProdType /\ made' \in [Lidars -> Nat]
  <2>1. CASE UNCHANGED <<prod, made>> BY <2>1 DEF DriverTypeOK
  <2>2. CASE /\ made' = [made EXCEPT ![p.lidar] = made[p.lidar] + 1]
             /\ prod' = [pc |-> "check", lidar |-> p.lidar, frame |-> f]
    <3>1. made[p.lidar] + 1 \in Nat BY <1>2 DEF DriverTypeOK
    <3> QED BY <2>2, <3>1, <1>2 DEF DriverTypeOK, ProdType, Writers, InFlight
  <2> QED BY <1>11, <2>1, <2>2
<1>14. DriverTypeOK' BY <1>5, <1>8, <1>10, <1>13 DEF DriverTypeOK
<1> QED BY <1>2, <1>10, <1>11, <1>12, <1>14

(***************************************************************************)
(* The rings of all LiDARs.                                                *)
(***************************************************************************)
WriterAt(pr, l) == IF pr.lidar = l THEN pr.pc ELSE "idle"
ReaderAt(co, l) ==
  IF co.lidar = l THEN IF co.dropping THEN "dropping" ELSE co.pc ELSE "top"

Rows(rg, pr, co, se, md) ==
  \A l \in Lidars :
    RowOK(rg[l], WriterAt(pr, l), pr.frame, ReaderAt(co, l), co.frame, se.last[l], se.stale[l], md[l])

RingInv ==
  /\ seen.intact
  /\ cons.dropping => cons.pc = "release"
  /\ Rows(ring, prod, cons, seen, made)

LEMMA WhereType ==
  /\ \A pr \in ProdType, l \in Lidars : WriterAt(pr, l) \in Writers /\ pr.frame \in Frame
  /\ \A co \in ConsType, l \in Lidars : ReaderAt(co, l) \in Readers /\ co.frame \in Frame
<1>1. \A pr \in ProdType, l \in Lidars : WriterAt(pr, l) \in Writers /\ pr.frame \in Frame
  BY DEF ProdType, WriterAt, Writers
<1>2. \A co \in ConsType, l \in Lidars : ReaderAt(co, l) \in Readers /\ co.frame \in Frame
  BY DEF ConsType, ReaderAt, Readers, Elsewhere, Dropped
<1> QED BY <1>1, <1>2

LEMMA SeenTypes == \A se \in SeenType, l \in Lidars : se.last[l] \in Nat /\ se.stale[l] \in Nat
  BY DEF SeenType

\* A step of the writer in the ring of l.
WriterSteps(rg, pr, co, se, md, rg2, pr2, md2, l) ==
  /\ rg \in [Lidars -> Ring] /\ pr \in ProdType /\ co \in ConsType /\ se \in SeenType
  /\ md \in [Lidars -> Nat] /\ Rows(rg, pr, co, se, md)
  /\ rg2 \in [Lidars -> Ring] /\ pr2 \in ProdType /\ md2 \in [Lidars -> Nat]
  /\ l \in Lidars /\ pr2.lidar = l /\ (pr.lidar = l \/ pr.pc = "idle")
  /\ \A k \in Lidars : k # l => rg2[k] = rg[k] /\ md2[k] = md[k]
  /\ RowOK(rg2[l], pr2.pc, pr2.frame, ReaderAt(co, l), co.frame, se.last[l], se.stale[l], md2[l])

LEMMA WriterRows ==
  ASSUME NEW rg, NEW pr, NEW co, NEW se, NEW md, NEW rg2, NEW pr2, NEW md2, NEW l,
         WriterSteps(rg, pr, co, se, md, rg2, pr2, md2, l)
  PROVE  Rows(rg2, pr2, co, se, md2)
<1> USE DEF WriterSteps
<1> SUFFICES ASSUME NEW k \in Lidars
             PROVE  RowOK(rg2[k], WriterAt(pr2, k), pr2.frame, ReaderAt(co, k), co.frame,
                          se.last[k], se.stale[k], md2[k])
  BY DEF Rows
<1>1. CASE k = l BY <1>1 DEF WriterAt
<1>2. CASE k # l
  <2>1. WriterAt(pr, k) = "idle" /\ WriterAt(pr2, k) = "idle" BY <1>2 DEF WriterAt
  <2>2. RowOK(rg[k], "idle", pr.frame, ReaderAt(co, k), co.frame, se.last[k], se.stale[k], md[k])
    BY <2>1 DEF Rows
  <2>3. PICK c \in Readers : c = ReaderAt(co, k) BY WhereType
  <2>4. PICK r \in Ring : r = rg[k] /\ r = rg2[k] BY <1>2
  <2>5. PICK m \in Nat : m = md[k] /\ m = md2[k] BY <1>2
  <2>6. PICK last \in Nat : last = se.last[k] BY SeenTypes
  <2>7. PICK stale \in Nat : stale = se.stale[k] BY SeenTypes
  <2>8. RowOK(r, "idle", pr.frame, c, co.frame, last, stale, m) BY <2>2, <2>3, <2>4, <2>5, <2>6, <2>7
  <2>9. RowOK(r, "idle", pr2.frame, c, co.frame, last, stale, m) BY <2>8, WriterAway
  <2> QED BY <2>1, <2>3, <2>4, <2>5, <2>6, <2>7, <2>9
<1> QED BY <1>1, <1>2

\* A step of the reader in the ring of l.
LEMMA ReaderRows ==
  ASSUME NEW rg \in [Lidars -> Ring], NEW pr \in ProdType, NEW co \in ConsType, NEW se \in SeenType,
         NEW md \in [Lidars -> Nat], Rows(rg, pr, co, se, md),
         NEW rg2 \in [Lidars -> Ring], NEW co2 \in ConsType, NEW se2 \in SeenType,
         NEW l \in Lidars, co2.lidar = l, co.lidar = l,
         \A k \in Lidars : k # l => /\ rg2[k] = rg[k]
                                  /\ se2.last[k] = se.last[k] /\ se2.stale[k] = se.stale[k],
         RowOK(rg2[l], WriterAt(pr, l), pr.frame, ReaderAt(co2, l), co2.frame,
               se2.last[l], se2.stale[l], md[l])
  PROVE  Rows(rg2, pr, co2, se2, md)
<1> SUFFICES ASSUME NEW k \in Lidars
             PROVE  RowOK(rg2[k], WriterAt(pr, k), pr.frame, ReaderAt(co2, k), co2.frame,
                          se2.last[k], se2.stale[k], md[k])
  BY DEF Rows
<1>1. CASE k = l BY <1>1
<1>2. CASE k # l
  <2>1. ReaderAt(co, k) = "top" /\ ReaderAt(co2, k) = "top" BY <1>2 DEF ReaderAt
  <2>2. RowOK(rg[k], WriterAt(pr, k), pr.frame, "top", co.frame, se.last[k], se.stale[k], md[k])
    BY <2>1 DEF Rows
  <2>3. PICK p \in Writers : p = WriterAt(pr, k) BY WhereType
  <2>4. PICK r \in Ring : r = rg[k] /\ r = rg2[k] BY <1>2
  <2>5. PICK m \in Nat : m = md[k] OBVIOUS
  <2>6. PICK last \in Nat : last = se.last[k] /\ last = se2.last[k] BY <1>2, SeenTypes
  <2>7. PICK stale \in Nat : stale = se.stale[k] /\ stale = se2.stale[k] BY <1>2, SeenTypes
  <2>8. RowOK(r, p, pr.frame, "top", co.frame, last, stale, m) BY <2>2, <2>3, <2>4, <2>5, <2>6, <2>7
  <2>9. "top" \in Elsewhere BY DEF Elsewhere
  <2>10. RowOK(r, p, pr.frame, "top", co2.frame, last, stale, m) BY <2>8, <2>9, ReaderAway
  <2> QED BY <2>1, <2>3, <2>4, <2>5, <2>6, <2>7, <2>10
<1> QED BY <1>1, <1>2

\* A step of the reader outside the rings.
LEMMA ReaderGoes ==
  ASSUME NEW rg \in [Lidars -> Ring], NEW pr \in ProdType, NEW co \in ConsType, NEW se \in SeenType,
         NEW md \in [Lidars -> Nat], Rows(rg, pr, co, se, md),
         NEW co2 \in ConsType, co.pc \in Elsewhere, co2.pc \in Elsewhere, ~co.dropping, ~co2.dropping
  PROVE  Rows(rg, pr, co2, se, md)
<1> SUFFICES ASSUME NEW k \in Lidars
             PROVE  RowOK(rg[k], WriterAt(pr, k), pr.frame, ReaderAt(co2, k), co2.frame,
                          se.last[k], se.stale[k], md[k])
  BY DEF Rows
<1>1. PICK a \in Elsewhere : a = ReaderAt(co, k) BY DEF ReaderAt, Elsewhere
<1>2. PICK b \in Elsewhere : b = ReaderAt(co2, k) BY DEF ReaderAt, Elsewhere
<1>3. PICK p \in Writers : p = WriterAt(pr, k) BY WhereType
<1>4. PICK last \in Nat : last = se.last[k] BY SeenTypes
<1>5. PICK stale \in Nat : stale = se.stale[k] BY SeenTypes
<1>6. PICK r \in Ring : r = rg[k] OBVIOUS
<1>7. PICK m \in Nat : m = md[k] OBVIOUS
<1>8. RowOK(r, p, pr.frame, a, co.frame, last, stale, m)
  BY <1>1, <1>3, <1>4, <1>5, <1>6, <1>7 DEF Rows
<1>9. RowOK(r, p, pr.frame, b, co2.frame, last, stale, m) BY <1>8, ReaderAway
<1> QED BY <1>2, <1>3, <1>4, <1>5, <1>6, <1>7, <1>9

(* The actions *)

DataInv == DriverTypeOK /\ RingInv

LEMMA InitRows == Init => RingInv
<1> SUFFICES ASSUME Init PROVE RingInv
  OBVIOUS
<1>0. DriverTypeOK BY InitType
<1>1. seen.intact /\ ~cons.dropping
  BY DEF Init
<1>2. ASSUME NEW l \in Lidars
      PROVE  RowOK(ring[l], WriterAt(prod, l), prod.frame, ReaderAt(cons, l), cons.frame,
                   seen.last[l], seen.stale[l], made[l])
  <2>1. PICK r \in Ring : r = ring[l] BY <1>0 DEF DriverTypeOK
  <2>2. r.rd = 0 /\ r.wr = 0 BY <2>1 DEF Init
  <2>3. Used(r) = 0 BY <2>2, UsedIs DEF Empty
  <2>4. WriterAt(prod, l) = "idle" BY DEF Init, WriterAt
  <2>5. ReaderAt(cons, l) = "top" BY DEF Init, ReaderAt
  <2>6. seen.last[l] = 0 /\ seen.stale[l] = 0 /\ made[l] = 0 BY DEF Init
  <2>7. RowOK(r, "idle", prod.frame, "top", cons.frame, 0, 0, 0)
    BY <2>3, SizesAre DEF RowOK, Room, InHand, InOrder, NoStale, Taken, Delivered, InFlight, Dropped
  <2> QED BY <2>1, <2>4, <2>5, <2>6, <2>7
<1> QED BY <1>1, <1>2 DEF RingInv, Rows

LEMMA ProcessRows ==
  ASSUME DataInv, ProcessPacket
  PROVE  DataInv'
<1>1. DriverTypeOK /\ RingInv BY DEF DataInv
<1>2. /\ DriverTypeOK' /\ prod.pc = "idle" /\ UNCHANGED <<ring, cons, started, seen>>
  BY <1>1, ProcessStep
<1>3. CASE UNCHANGED <<prod, made>>
  BY <1>1, <1>2, <1>3 DEF DataInv, RingInv, Rows
<1>4. ASSUME NEW l \in Lidars, NEW f \in Frame, f.n = made[l] + 1,
             made' = [made EXCEPT ![l] = made[l] + 1],
             prod' = [pc |-> "check", lidar |-> l, frame |-> f]
      PROVE  DataInv'
  <2>1. PICK r \in Ring : r = ring[l] BY <1>1 DEF DriverTypeOK
  <2>2. PICK m \in Nat : m = made[l] BY <1>1 DEF DriverTypeOK
  <2>3. PICK c \in Readers : c = ReaderAt(cons, l) BY <1>1, WhereType DEF DriverTypeOK
  <2>4. PICK g \in Frame : g = cons.frame BY <1>1, WhereType DEF DriverTypeOK
  <2>5. PICK last \in Nat : last = seen.last[l] BY <1>1, SeenTypes DEF DriverTypeOK
  <2>6. PICK stale \in Nat : stale = seen.stale[l] BY <1>1, SeenTypes DEF DriverTypeOK
  <2>7. WriterAt(prod, l) = "idle" BY <1>2 DEF WriterAt
  <2>8. RowOK(r, "idle", prod.frame, c, g, last, stale, m)
    BY <1>1, <2>1, <2>2, <2>3, <2>4, <2>5, <2>6, <2>7 DEF RingInv, Rows
  <2>9. RowOK(r, "check", f, c, g, last, stale, m + 1)
    BY <1>4, <2>2, <2>8, FrameMade
  <2>10. made'[l] = m + 1 /\ \A k \in Lidars : k # l => made'[k] = made[k]
    BY <1>1, <1>4, <2>2 DEF DriverTypeOK
  <2>11. /\ ring \in [Lidars -> Ring] /\ prod \in ProdType /\ cons \in ConsType /\ seen \in SeenType
         /\ made \in [Lidars -> Nat] /\ prod' \in ProdType /\ made' \in [Lidars -> Nat]
    BY <1>1, <1>2 DEF DriverTypeOK
  <2>12. prod'.pc = "check" /\ prod'.lidar = l /\ prod'.frame = f
    BY <1>4
  <2>13. RowOK(ring[l], prod'.pc, prod'.frame, ReaderAt(cons, l), cons.frame,
               seen.last[l], seen.stale[l], made'[l])
    BY <2>1, <2>3, <2>4, <2>5, <2>6, <2>9, <2>10, <2>12
  <2>14. Rows(ring, prod, cons, seen, made) BY <1>1 DEF RingInv
  <2>15. Rows(ring, prod', cons, seen, made')
    <3>1. WriterSteps(ring, prod, cons, seen, made, ring, prod', made', l)
      BY <1>2, <2>10, <2>11, <2>12, <2>13, <2>14 DEF WriterSteps
    <3> QED BY Zenon, <3>1, WriterRows
  <2> QED BY <1>1, <1>2, <2>15 DEF DataInv, RingInv, Rows, ReaderAt
<1> QED BY <1>1, <1>3, <1>4, ProcessStep

\* The four steps of PushLidarData: only the ring of prod.lidar may change.
LEMMA PushRows ==
  ASSUME DataInv, UNCHANGED <<cfg, now, raw, points, cons, started, gate, clock, shared, seen, made>>,
         NEW q \in Writers, prod' = [prod EXCEPT !.pc = q],
         NEW s \in Ring, ring' = [ring EXCEPT ![prod.lidar] = s],
         \A c \in Readers : \A g \in Frame : \A last, stale, m \in Nat :
           RowOK(ring[prod.lidar], prod.pc, prod.frame, c, g, last, stale, m)
             => RowOK(s, q, prod.frame, c, g, last, stale, m)
  PROVE  DataInv'
<1>1. DriverTypeOK /\ RingInv BY DEF DataInv
<1>2. PICK pr \in ProdType : pr = prod BY <1>1 DEF DriverTypeOK
<1>3. PICK l \in Lidars : l = pr.lidar BY DEF ProdType
<1>4. PICK pr2 \in ProdType : pr2 = prod' /\ pr2.pc = q /\ pr2.lidar = l /\ pr2.frame = pr.frame
  <2>1. [pr EXCEPT !.pc = q] \in ProdType BY DEF ProdType
  <2> QED BY <2>1, <1>2, <1>3 DEF ProdType
<1>5. ring' \in [Lidars -> Ring] /\ ring'[l] = s /\ \A k \in Lidars : k # l => ring'[k] = ring[k]
  BY <1>1, <1>2, <1>3 DEF DriverTypeOK
<1>6. DriverTypeOK'
  BY <1>1, <1>4, <1>5 DEF DriverTypeOK
<1>7. PICK c \in Readers : c = ReaderAt(cons, l) BY <1>1, WhereType DEF DriverTypeOK
<1>8. PICK g \in Frame : g = cons.frame BY <1>1, WhereType DEF DriverTypeOK
<1>9. PICK last \in Nat : last = seen.last[l] BY <1>1, SeenTypes DEF DriverTypeOK
<1>10. PICK stale \in Nat : stale = seen.stale[l] BY <1>1, SeenTypes DEF DriverTypeOK
<1>11. PICK m \in Nat : m = made[l] BY <1>1 DEF DriverTypeOK
<1>12. RowOK(ring[l], pr.pc, pr.frame, c, g, last, stale, m)
  BY <1>1, <1>2, <1>3, <1>7, <1>8, <1>9, <1>10, <1>11 DEF RingInv, Rows, WriterAt
<1>13. RowOK(s, q, pr.frame, c, g, last, stale, m)
  BY <1>2, <1>3, <1>12
<1>14. RowOK(ring'[l], pr2.pc, pr2.frame, ReaderAt(cons, l), cons.frame, seen.last[l], seen.stale[l], made'[l])
  BY <1>4, <1>5, <1>7, <1>8, <1>9, <1>10, <1>11, <1>13
<1>15. /\ ring \in [Lidars -> Ring] /\ cons \in ConsType /\ seen \in SeenType
       /\ made \in [Lidars -> Nat] /\ made' \in [Lidars -> Nat]
  BY <1>1 DEF DriverTypeOK
<1>16. Rows(ring, pr, cons, seen, made) BY <1>1, <1>2 DEF RingInv
<1>18. \A k \in Lidars : k # l => ring'[k] = ring[k] /\ made'[k] = made[k]
  BY <1>5
<1>17. Rows(ring', pr2, cons, seen, made')
  <2>1. PICK rg2 \in [Lidars -> Ring] : rg2 = ring' BY <1>5
  <2>2. PICK md2 \in [Lidars -> Nat] : md2 = made' BY <1>15
  <2>3. \A k \in Lidars : k # l => rg2[k] = ring[k] /\ md2[k] = made[k]
    BY <2>1, <2>2, <1>18
  <2>4. RowOK(rg2[l], pr2.pc, pr2.frame, ReaderAt(cons, l), cons.frame, seen.last[l], seen.stale[l], md2[l])
    BY <2>1, <2>2, <1>14
  <2>5. pr2.lidar = l /\ (pr.lidar = l \/ pr.pc = "idle") BY <1>3, <1>4
  <2>6. Rows(rg2, pr2, cons, seen, md2)
    <3>1. WriterSteps(ring, pr, cons, seen, made, rg2, pr2, md2, l)
      BY <2>3, <2>4, <2>5, <1>15, <1>16 DEF WriterSteps
    <3> QED BY Zenon, <3>1, WriterRows
  <2> QED BY <2>1, <2>2, <2>6
<1> QED BY <1>1, <1>4, <1>6, <1>17 DEF DataInv, RingInv, Rows, ReaderAt

LEMMA CheckRows == ASSUME DataInv, CheckFull PROVE DataInv'
<1>1. PICK l \in Lidars : l = prod.lidar BY DEF DataInv, DriverTypeOK, ProdType
<1>2. PICK r \in Ring : r = ring[l] BY DEF DataInv, DriverTypeOK
<1>3. PICK q \in {"signal", "fill"} : q = IF r.exists /\ Full(r) THEN "signal" ELSE "fill"
  OBVIOUS
<1>4. PICK s \in Ring : s = [r EXCEPT !.exists = TRUE] BY DEF Ring
<1>5. prod.pc = "check" /\ prod' = [prod EXCEPT !.pc = q] /\ ring' = [ring EXCEPT ![prod.lidar] = s]
  BY <1>1, <1>2, <1>3, <1>4 DEF CheckFull, Produce
<1>6. UNCHANGED <<cfg, now, raw, points, cons, started, gate, clock, shared, seen, made>>
  BY DEF CheckFull, pipe, lddc
<1>7. \A c \in Readers : \A g \in Frame : \A last, stale, m \in Nat :
        RowOK(r, "check", prod.frame, c, g, last, stale, m) => RowOK(s, q, prod.frame, c, g, last, stale, m)
  BY <1>3, <1>4, FrameChecked
<1>8. q \in Writers BY DEF Writers, InFlight
<1> QED BY <1>1, <1>2, <1>5, <1>6, <1>7, <1>8, PushRows

LEMMA FillRows == ASSUME DataInv, FillSlot PROVE DataInv'
<1>1. PICK l \in Lidars : l = prod.lidar BY DEF DataInv, DriverTypeOK, ProdType
<1>2. PICK r \in Ring : r = ring[l] BY DEF DataInv, DriverTypeOK
<1>3. PICK f \in Frame : f = prod.frame BY DEF DataInv, DriverTypeOK, ProdType
<1>4. PICK s : s = [r EXCEPT !.slot = [r.slot EXCEPT ![r.wr % RingSize] = f]] OBVIOUS
<1>5. prod.pc = "fill" /\ prod' = [prod EXCEPT !.pc = "advance"] /\ ring' = [ring EXCEPT ![prod.lidar] = s]
  BY <1>1, <1>2, <1>3, <1>4 DEF FillSlot, Produce
<1>6. UNCHANGED <<cfg, now, raw, points, cons, started, gate, clock, shared, seen, made>>
  BY DEF FillSlot, pipe, lddc
<1>7. \A c \in Readers : \A g \in Frame : \A last, stale, m \in Nat :
        RowOK(r, "fill", f, c, g, last, stale, m)
          => s \in Ring /\ RowOK(s, "advance", f, c, g, last, stale, m)
  BY <1>4, FrameFilled
<1>8. s \in Ring
  <2>1. r.wr % RingSize \in 0..RingSize - 1
    <3>1. r.wr \in Int BY SizesAre DEF Ring
    <3> QED BY <3>1, WrapAround
  <2> QED BY <1>4, <2>1 DEF Ring
<1>9. "advance" \in Writers BY DEF Writers, InFlight
<1> QED BY <1>1, <1>2, <1>3, <1>5, <1>6, <1>7, <1>8, <1>9, PushRows

LEMMA DeliverRows == ASSUME DataInv, AdvanceWriter PROVE DataInv'
<1>1. PICK l \in Lidars : l = prod.lidar BY DEF DataInv, DriverTypeOK, ProdType
<1>2. PICK r \in Ring : r = ring[l] BY DEF DataInv, DriverTypeOK
<1>3. PICK f \in Frame : f = prod.frame BY DEF DataInv, DriverTypeOK, ProdType
<1>4. PICK s : s = [r EXCEPT !.wr = Bump(r.wr)] OBVIOUS
<1>5. prod.pc = "advance" /\ prod' = [prod EXCEPT !.pc = "signal"] /\ ring' = [ring EXCEPT ![prod.lidar] = s]
  BY <1>1, <1>2, <1>4 DEF AdvanceWriter, Produce
<1>6. UNCHANGED <<cfg, now, raw, points, cons, started, gate, clock, shared, seen, made>>
  BY DEF AdvanceWriter, pipe, lddc
<1>7. \A c \in Readers : \A g \in Frame : \A last, stale, m \in Nat :
        RowOK(r, "advance", f, c, g, last, stale, m)
          => RowOK(s, "signal", f, c, g, last, stale, m)
  BY <1>4, FrameDelivered
<1>8. s \in Ring BY <1>4, BumpIs DEF Ring
<1>9. "signal" \in Writers BY DEF Writers
<1> QED BY <1>1, <1>2, <1>3, <1>5, <1>6, <1>7, <1>8, <1>9, PushRows

LEMMA SignalRows == ASSUME DataInv, SignalReader PROVE DataInv'
<1>1. PICK l \in Lidars : l = prod.lidar BY DEF DataInv, DriverTypeOK, ProdType
<1>2. PICK r \in Ring : r = ring[l] BY DEF DataInv, DriverTypeOK
<1>3. prod.pc = "signal" /\ prod' = [prod EXCEPT !.pc = "idle"] /\ ring' = [ring EXCEPT ![prod.lidar] = r]
  BY <1>1, <1>2 DEF SignalReader, Produce, DataInv, DriverTypeOK
<1>4. UNCHANGED <<cfg, now, raw, points, cons, started, gate, clock, shared, seen, made>>
  BY DEF SignalReader, pipe, lddc
<1>5. \A c \in Readers : \A g \in Frame : \A last, stale, m \in Nat :
        RowOK(r, "signal", prod.frame, c, g, last, stale, m)
          => RowOK(r, "idle", prod.frame, c, g, last, stale, m)
  BY WriterAway
<1>6. "idle" \in Writers BY DEF Writers
<1> QED BY <1>1, <1>2, <1>3, <1>4, <1>5, <1>6, PushRows

\* Steps of the reader that leave the rings alone and move it between places
\* away from them.
LEMMA AwayRows ==
  ASSUME DataInv, UNCHANGED <<cfg, now, raw, points, prod, ring, started, gate, clock, shared, seen, made>>,
         NEW co2 \in ConsType, cons' = co2, cons.pc \in Elsewhere, co2.pc \in Elsewhere,
         co2.dropping = cons.dropping
  PROVE  DataInv'
<1>1. DriverTypeOK /\ RingInv BY DEF DataInv
<1>2. ~cons.dropping BY <1>1 DEF RingInv, Elsewhere
<1>3. DriverTypeOK' BY <1>1 DEF DriverTypeOK
<1>4. Rows(ring, prod, cons, seen, made) BY <1>1 DEF RingInv
<1>5. /\ ring \in [Lidars -> Ring] /\ cons \in ConsType /\ seen \in SeenType /\ prod \in ProdType
      /\ made \in [Lidars -> Nat]
  BY <1>1 DEF DriverTypeOK
<1>6. Rows(ring, prod, co2, seen, made)
  BY <1>2, <1>4, <1>5, ReaderGoes, SMTT(60)
<1> QED BY <1>1, <1>2, <1>3, <1>6 DEF DataInv, RingInv, Rows, WriterAt

\* Steps of the reader at the ring of cons.lidar.
LEMMA TakeRows ==
  ASSUME DataInv, UNCHANGED <<cfg, now, raw, points, prod, made>>, DriverTypeOK',
         NEW l \in Lidars, cons.lidar = l, cons'.lidar = l,
         seen'.intact, cons'.dropping => cons'.pc = "release",
         \A k \in Lidars : k # l => /\ ring'[k] = ring[k]
                                  /\ seen'.last[k] = seen.last[k] /\ seen'.stale[k] = seen.stale[k],
         \A p \in Writers : \A f \in Frame : \A m \in Nat :
           RowOK(ring[l], p, f, ReaderAt(cons, l), cons.frame, seen.last[l], seen.stale[l], m)
             => RowOK(ring'[l], p, f, ReaderAt(cons', l), cons'.frame, seen'.last[l], seen'.stale[l], m)
  PROVE  DataInv'
<1>1. DriverTypeOK /\ RingInv BY DEF DataInv
<1>2. PICK p \in Writers : p = WriterAt(prod, l) BY <1>1, WhereType DEF DriverTypeOK
<1>3. PICK f \in Frame : f = prod.frame BY <1>1, WhereType DEF DriverTypeOK
<1>4. PICK m \in Nat : m = made[l] BY <1>1 DEF DriverTypeOK
<1>5. RowOK(ring[l], p, f, ReaderAt(cons, l), cons.frame, seen.last[l], seen.stale[l], m)
  BY <1>1, <1>2, <1>3, <1>4 DEF RingInv, Rows
<1>6. PICK rg2 \in [Lidars -> Ring] : rg2 = ring' BY DEF DriverTypeOK
<1>7. PICK co2 \in ConsType : co2 = cons' BY DEF DriverTypeOK
<1>8. PICK se2 \in SeenType : se2 = seen' BY DEF DriverTypeOK
<1>9. RowOK(ring'[l], p, f, ReaderAt(cons', l), cons'.frame, seen'.last[l], seen'.stale[l], m)
  BY <1>5
<1>10. RowOK(rg2[l], WriterAt(prod, l), prod.frame, ReaderAt(co2, l), co2.frame,
             se2.last[l], se2.stale[l], made[l])
  BY <1>2, <1>3, <1>4, <1>6, <1>7, <1>8, <1>9 DEF ReaderAt
<1>11. \A k \in Lidars : k # l => /\ rg2[k] = ring[k]
                               /\ se2.last[k] = seen.last[k] /\ se2.stale[k] = seen.stale[k]
  BY <1>6, <1>8
<1>12. /\ ring \in [Lidars -> Ring] /\ cons \in ConsType /\ seen \in SeenType /\ prod \in ProdType
       /\ made \in [Lidars -> Nat] /\ Rows(ring, prod, cons, seen, made)
  BY <1>1 DEF DriverTypeOK, RingInv
<1>13. co2.lidar = l /\ cons.lidar = l BY <1>7
<1>14. Rows(rg2, prod, co2, se2, made)
  BY <1>10, <1>11, <1>12, <1>13, ReaderRows, SMTT(60)
<1> QED BY <1>6, <1>7, <1>8, <1>14 DEF DataInv, RingInv, Rows, WriterAt, ReaderAt

LEMMA NextLidarType ==
  ASSUME NEW c \in ConsType
  PROVE  NextLidar(c) \in ConsType /\ NextLidar(c).pc \in Elsewhere /\ NextLidar(c).dropping = c.dropping
<1>1. CASE c.lidar = NumLidars
  BY <1>1 DEF NextLidar, ConsType, Elsewhere
<1>2. CASE c.lidar # NumLidars
  <2>1. PICK k \in Lidars : k = c.lidar + 1 BY <1>2, OneIsALidar DEF ConsType, Lidars
  <2>2. NextLidar(c) = [c EXCEPT !.pc = "visit", !.lidar = k] BY <1>2, <2>1 DEF NextLidar
  <2> QED BY <2>2 DEF ConsType, Elsewhere
<1> QED BY <1>1, <1>2

LEMMA TopRows == ASSUME DataInv, TopOfLoop PROVE DataInv'
<1>1. PICK c \in ConsType : c = cons BY DEF DataInv, DriverTypeOK
<1>2. PICK q \in {"done", "wait"} : q = IF exit # "no" THEN "done" ELSE "wait" OBVIOUS
<1>3. PICK co2 \in ConsType : co2 = [c EXCEPT !.pc = q] BY <1>2 DEF ConsType, Elsewhere
<1>4. co2.pc \in Elsewhere /\ co2.dropping = c.dropping BY <1>3 DEF ConsType, Elsewhere
<1>5. cons.pc \in Elsewhere /\ cons' = co2 BY <1>1, <1>2, <1>3 DEF TopOfLoop, Consume, Elsewhere
<1>6. UNCHANGED <<cfg, now, raw, points, prod, ring, started, gate, clock, shared, seen, made>>
  BY DEF TopOfLoop, pipe
<1> QED BY <1>1, <1>4, <1>5, <1>6, AwayRows

LEMMA WaitRows == ASSUME DataInv, WaitForPoints PROVE DataInv'
<1>1. PICK c \in ConsType : c = cons BY DEF DataInv, DriverTypeOK
<1>3. PICK co2 \in ConsType : co2 = [c EXCEPT !.pc = "visit", !.lidar = 1]
  BY OneIsALidar DEF ConsType, Elsewhere
<1>4. co2.pc \in Elsewhere /\ co2.dropping = c.dropping BY <1>3 DEF ConsType, Elsewhere
<1>5. cons.pc \in Elsewhere /\ cons' = co2 BY <1>1, <1>3 DEF WaitForPoints, Elsewhere
<1>6. UNCHANGED <<cfg, now, raw, points, prod, ring, started, gate, clock, shared, seen, made>>
  BY DEF WaitForPoints, pipe
<1> QED BY <1>1, <1>4, <1>5, <1>6, AwayRows

LEMMA VisitRows == ASSUME DataInv, VisitLidar PROVE DataInv'
<1>1. PICK c \in ConsType : c = cons BY DEF DataInv, DriverTypeOK
<1>2. PICK l \in Lidars : l = c.lidar BY DEF ConsType
<1>3. PICK r \in Ring : r = ring[l] BY DEF DataInv, DriverTypeOK
<1>4. UNCHANGED <<cfg, now, raw, points, prod, ring, gate, clock, shared, made>>
  BY DEF VisitLidar, pipe
<1>5. c.pc = "visit" /\ ~c.dropping BY <1>1 DEF VisitLidar, DataInv, RingInv
<1>6. CASE ~(setup[l].sampling /\ r.exists)
  <2>1. cons' = NextLidar(c) /\ UNCHANGED <<started, seen>>
    BY <1>1, <1>2, <1>3, <1>6 DEF VisitLidar
  <2> QED BY <2>1, <1>1, <1>4, <1>5, NextLidarType, AwayRows DEF Elsewhere
<1>7. CASE setup[l].sampling /\ r.exists /\ started[l]
  <2>1. PICK co2 \in ConsType : co2 = [c EXCEPT !.pc = "poll"] BY DEF ConsType, Elsewhere
  <2>2. cons' = co2 /\ started' = [started EXCEPT ![l] = TRUE] /\ seen' = seen
    BY <1>1, <1>2, <1>3, <1>7, <2>1 DEF VisitLidar
  <2>3. started' = started BY <1>7, <2>2 DEF DataInv, DriverTypeOK
  <2>4. co2.pc \in Elsewhere /\ co2.dropping = c.dropping BY <2>1 DEF ConsType, Elsewhere
  <2> QED BY <1>1, <1>4, <1>5, <2>2, <2>3, <2>4, AwayRows DEF Elsewhere
<1>8. CASE setup[l].sampling /\ r.exists /\ ~started[l]
  <2>1. PICK co2 \in ConsType : co2 = [c EXCEPT !.pc = "drop"] BY DEF ConsType
  <2>2. /\ cons' = co2 /\ started' = [started EXCEPT ![l] = TRUE]
        /\ seen' = IF Used(r) > 1
                   THEN [seen EXCEPT !.stale = [seen.stale EXCEPT ![l] = At(r, r.wr + IndexWidth - 2).n]]
                   ELSE seen
    BY <1>1, <1>2, <1>3, <1>8, <2>1 DEF VisitLidar
  <2>3. PICK se \in SeenType : se = seen BY DEF DataInv, DriverTypeOK
  <2>4. PICK b \in Nat : b = IF Used(r) > 1 THEN At(r, r.wr + IndexWidth - 2).n ELSE se.stale[l]
    <3>1. CASE Used(r) > 1
      <4>1. PICK j \in Int : j = Used(r) - 2 BY WaitingType
      <4>2. At(r, r.wr + IndexWidth - 2).n = Waiting(r, j).n BY <3>1, <4>1, WriterPlace, WaitingType
      <4> QED BY <3>1, <4>2, WaitingType
    <3>2. CASE ~(Used(r) > 1) BY <3>2, SeenTypes
    <3> QED BY <3>1, <3>2
  <2>5. PICK st \in [Lidars -> Nat] : st = [se.stale EXCEPT ![l] = b] BY DEF SeenType
  <2>6. PICK se2 \in SeenType : se2 = [se EXCEPT !.stale = st] BY DEF SeenType
  <2>7. seen' = se2
    <3>1. CASE Used(r) > 1 BY <2>2, <2>3, <2>4, <2>5, <2>6, <3>1
    <3>2. CASE ~(Used(r) > 1)
      <4>1. st = se.stale BY <2>4, <2>5, <3>2 DEF SeenType
      <4>2. se2 = se BY <2>6, <4>1 DEF SeenType
      <4> QED BY <2>2, <2>3, <3>2, <4>2
    <3> QED BY <3>1, <3>2
  <2>8. /\ se2.last = se.last /\ se2.intact = se.intact /\ se2.stale[l] = b
        /\ \A k \in Lidars : k # l => se2.stale[k] = se.stale[k]
    BY <2>5, <2>6 DEF SeenType
  <2>9. co2.pc = "drop" /\ co2.lidar = l /\ ~co2.dropping BY <1>2, <1>5, <2>1 DEF ConsType
  <2>10. DriverTypeOK'
    <3>1. cons' \in ConsType /\ started' \in [Lidars -> BOOLEAN] /\ seen' \in SeenType
      BY <2>2, <2>7 DEF DataInv, DriverTypeOK
    <3> QED BY <1>4, <3>1 DEF DataInv, DriverTypeOK
  <2>11. ReaderAt(cons, l) = "visit" BY <1>1, <1>2, <1>5 DEF ReaderAt
  <2>12. ReaderAt(cons', l) = "drop" BY <2>2, <2>9 DEF ReaderAt
  <2>17. /\ ring[l] = r /\ ring'[l] = r /\ cons'.frame = co2.frame
         /\ seen.last[l] = se.last[l] /\ seen'.last[l] = se.last[l]
         /\ seen.stale[l] = se.stale[l] /\ seen'.stale[l] = b
    BY <1>3, <1>4, <2>2, <2>3, <2>7, <2>8
  <2>13. \A p \in Writers : \A f \in Frame : \A m \in Nat :
           RowOK(ring[l], p, f, ReaderAt(cons, l), cons.frame, seen.last[l], seen.stale[l], m)
             => RowOK(ring'[l], p, f, ReaderAt(cons', l), cons'.frame, seen'.last[l], seen'.stale[l], m)
    <3> SUFFICES ASSUME NEW p \in Writers, NEW f \in Frame, NEW m \in Nat,
                        RowOK(r, p, f, "visit", cons.frame, se.last[l], se.stale[l], m)
                 PROVE  RowOK(r, p, f, "drop", co2.frame, se.last[l], b, m)
      BY <2>11, <2>12, <2>17, Zenon
    <3>1. PICK last \in Nat : last = se.last[l] BY SeenTypes
    <3>2. PICK stale \in Nat : stale = se.stale[l] BY SeenTypes
    <3>3. b = IF Used(r) > 1 THEN At(r, r.wr + IndexWidth - 2).n ELSE stale BY <2>4, <3>2
    <3> QED BY <3>1, <3>2, <3>3, BacklogFound
  <2>14. seen'.intact BY <2>3, <2>7, <2>8 DEF DataInv, RingInv
  <2>15. \A k \in Lidars : k # l => /\ ring'[k] = ring[k]
                                 /\ seen'.last[k] = seen.last[k] /\ seen'.stale[k] = seen.stale[k]
    BY <1>4, <2>3, <2>7, <2>8
  <2>16. cons.lidar = l /\ cons'.lidar = l /\ (cons'.dropping => cons'.pc = "release")
    BY <1>1, <1>2, <2>2, <2>9
  <2> QED BY <1>4, <2>10, <2>13, <2>14, <2>15, <2>16, TakeRows
<1> QED BY <1>6, <1>7, <1>8

\* What the steps at one ring share: only cons, ring and seen change.
LEMMA PopType ==
  ASSUME DriverTypeOK, NEW l \in Lidars, cons.lidar = l
  PROVE  /\ Pop(cons) \in ConsType /\ Pop(cons).pc = "release" /\ Pop(cons).lidar = l
         /\ Pop(cons).dropping = cons.dropping
         /\ Pop(cons).frame = Waiting(ring[l], 0)
<1>1. PICK c \in ConsType : c = cons BY DEF DriverTypeOK
<1>2. PICK r \in Ring : r = ring[l] BY DEF DriverTypeOK
<1>3. At(r, r.rd) = Waiting(r, 0)
  <2>1. r.rd + 0 = r.rd BY SizesAre DEF Ring
  <2> QED BY <2>1 DEF At, Waiting, Place
<1>4. PICK f \in Frame : f = At(r, r.rd) BY <1>3, PlaceType
<1>5. Pop(cons) = [c EXCEPT !.pc = "release", !.frame = f] BY <1>1, <1>2, <1>4 DEF Pop
<1> QED BY <1>1, <1>2, <1>3, <1>4, <1>5 DEF ConsType

LEMMA DropRows == ASSUME DataInv, DropBacklog PROVE DataInv'
<1>1. PICK c \in ConsType : c = cons BY DEF DataInv, DriverTypeOK
<1>2. PICK l \in Lidars : l = cons.lidar BY <1>1 DEF ConsType
<1>3. PICK r \in Ring : r = ring[l] BY DEF DataInv, DriverTypeOK
<1>4. UNCHANGED <<cfg, now, raw, points, prod, ring, started, gate, clock, shared, seen, made>>
  BY DEF DropBacklog, pipe
<1>5. cons.pc = "drop" /\ ~cons.dropping BY DEF DropBacklog, DataInv, RingInv
<1>6. PICK last \in Nat : last = seen.last[l] BY SeenTypes DEF DataInv, DriverTypeOK
<1>7. PICK stale \in Nat : stale = seen.stale[l] BY SeenTypes DEF DataInv, DriverTypeOK
<1>8. ReaderAt(cons, l) = "drop" BY <1>2, <1>5 DEF ReaderAt
<1>9. ASSUME NEW co2 \in ConsType, cons' = co2, co2.lidar = l, co2.dropping => co2.pc = "release",
             NEW q, q = ReaderAt(co2, l), q \in {"dropping", "poll"}, q = "dropping" <=> Used(r) > 1
      PROVE  DataInv'
  <2>1. DriverTypeOK' BY <1>4, <1>9 DEF DataInv, DriverTypeOK
  <2>2. seen'.intact BY <1>4 DEF DataInv, RingInv
  <2>3. \A k \in Lidars : k # l => /\ ring'[k] = ring[k]
                                /\ seen'.last[k] = seen.last[k] /\ seen'.stale[k] = seen.stale[k]
    BY <1>4
  <2>4. /\ ring[l] = r /\ ring'[l] = r /\ seen.last[l] = last /\ seen'.last[l] = last
        /\ seen.stale[l] = stale /\ seen'.stale[l] = stale /\ cons'.frame = co2.frame
        /\ ReaderAt(cons', l) = q
    BY <1>3, <1>4, <1>6, <1>7, <1>9
  <2>5. \A p \in Writers : \A f \in Frame : \A m \in Nat :
           RowOK(ring[l], p, f, ReaderAt(cons, l), cons.frame, seen.last[l], seen.stale[l], m)
             => RowOK(ring'[l], p, f, ReaderAt(cons', l), cons'.frame, seen'.last[l], seen'.stale[l], m)
    <3> SUFFICES ASSUME NEW p \in Writers, NEW f \in Frame, NEW m \in Nat,
                        RowOK(r, p, f, "drop", cons.frame, last, stale, m)
                 PROVE  RowOK(r, p, f, q, co2.frame, last, stale, m)
      BY <1>8, <2>4, Zenon
    <3>1. /\ Used(r) > 1 => RowOK(r, p, f, "dropping", co2.frame, last, stale, m)
          /\ ~(Used(r) > 1) => RowOK(r, p, f, "poll", co2.frame, last, stale, m)
      BY BacklogDropped
    <3> QED BY <3>1, <1>9
  <2>6. cons.lidar = l /\ cons'.lidar = l /\ (cons'.dropping => cons'.pc = "release")
    BY <1>2, <1>9
  <2> QED BY <1>4, <2>1, <2>2, <2>3, <2>5, <2>6, TakeRows
<1>10. CASE Used(r) > 1
  <2>1. PICK d \in ConsType : d = Pop(cons) /\ d.pc = "release" /\ d.lidar = l
    BY <1>2, PopType DEF DataInv
  <2>2. PICK co2 \in ConsType : co2 = [d EXCEPT !.dropping = TRUE] BY DEF ConsType
  <2>3. cons' = co2 BY <1>2, <1>3, <1>10, <2>1, <2>2 DEF DropBacklog, Backlog
  <2>4. co2.lidar = l /\ co2.pc = "release" /\ co2.dropping BY <2>1, <2>2 DEF ConsType
  <2>5. ReaderAt(co2, l) = "dropping" BY <2>4 DEF ReaderAt
  <2> QED BY <1>9, <1>10, <2>3, <2>4, <2>5
<1>11. CASE ~(Used(r) > 1)
  <2>1. PICK co2 \in ConsType : co2 = [c EXCEPT !.pc = "poll"] BY DEF ConsType, Elsewhere
  <2>2. cons' = co2 BY <1>1, <1>2, <1>3, <1>11, <2>1 DEF DropBacklog, Backlog
  <2>3. co2.lidar = l /\ co2.pc = "poll" /\ ~co2.dropping BY <1>1, <1>2, <1>5, <2>1 DEF ConsType
  <2>4. ReaderAt(co2, l) = "poll" BY <2>3 DEF ReaderAt
  <2> QED BY <1>9, <1>11, <2>2, <2>3, <2>4
<1> QED BY <1>10, <1>11

LEMMA PollRows == ASSUME DataInv, PollRing PROVE DataInv'
<1>1. PICK c \in ConsType : c = cons BY DEF DataInv, DriverTypeOK
<1>2. PICK l \in Lidars : l = cons.lidar BY <1>1 DEF ConsType
<1>3. PICK r \in Ring : r = ring[l] BY DEF DataInv, DriverTypeOK
<1>4. UNCHANGED <<cfg, now, raw, points, prod, ring, started, gate, clock, shared, seen, made>>
  BY DEF PollRing, pipe
<1>5. PICK a \in {"poll", "again"} : a = cons.pc BY DEF PollRing
<1>6. ~cons.dropping BY <1>5 DEF DataInv, RingInv
<1>7. a \in Elsewhere BY DEF Elsewhere
<1>8. ReaderAt(cons, l) = a BY <1>2, <1>5, <1>6 DEF ReaderAt
<1>9. CASE cons' = NextLidar(cons)
  BY <1>1, <1>4, <1>5, <1>7, <1>9, NextLidarType, AwayRows
<1>10. CASE cons' = [cons EXCEPT !.pc = "poll"]
  <2>1. PICK co2 \in ConsType : co2 = [c EXCEPT !.pc = "poll"] BY DEF ConsType, Elsewhere
  <2>2. co2.pc \in Elsewhere /\ co2.dropping = c.dropping BY <2>1 DEF ConsType, Elsewhere
  <2> QED BY <1>1, <1>4, <1>5, <1>7, <1>10, <2>1, <2>2, AwayRows
<1>11. CASE cons' = Pop(cons) /\ ~Empty(r)
  <2>1. PICK co2 \in ConsType : co2 = cons' /\ co2.pc = "release" /\ co2.lidar = l
                               /\ ~co2.dropping /\ co2.frame = Waiting(r, 0)
    BY <1>2, <1>3, <1>6, <1>11, PopType DEF DataInv
  <2>2. Used(r) > 0 BY <1>11, UsedIs, WaitingType
  <2>3. DriverTypeOK' BY <1>4, <2>1 DEF DataInv, DriverTypeOK
  <2>4. seen'.intact BY <1>4 DEF DataInv, RingInv
  <2>5. \A k \in Lidars : k # l => /\ ring'[k] = ring[k]
                                /\ seen'.last[k] = seen.last[k] /\ seen'.stale[k] = seen.stale[k]
    BY <1>4
  <2>6. PICK last \in Nat : last = seen.last[l] BY SeenTypes DEF DataInv, DriverTypeOK
  <2>7. PICK stale \in Nat : stale = seen.stale[l] BY SeenTypes DEF DataInv, DriverTypeOK
  <2>8. /\ ring[l] = r /\ ring'[l] = r /\ seen.last[l] = last /\ seen'.last[l] = last
        /\ seen.stale[l] = stale /\ seen'.stale[l] = stale /\ cons'.frame = Waiting(r, 0)
        /\ ReaderAt(cons', l) = "release"
    BY <1>3, <1>4, <2>1, <2>6, <2>7 DEF ReaderAt
  <2>9. \A p \in Writers : \A f \in Frame : \A m \in Nat :
           RowOK(ring[l], p, f, ReaderAt(cons, l), cons.frame, seen.last[l], seen.stale[l], m)
             => RowOK(ring'[l], p, f, ReaderAt(cons', l), cons'.frame, seen'.last[l], seen'.stale[l], m)
    <3> SUFFICES ASSUME NEW p \in Writers, NEW f \in Frame, NEW m \in Nat,
                        RowOK(r, p, f, a, cons.frame, last, stale, m)
                 PROVE  RowOK(r, p, f, "release", Waiting(r, 0), last, stale, m)
      BY <1>8, <2>8, Zenon
    <3> QED BY <1>7, <2>2, FrameTaken
  <2>10. cons.lidar = l /\ cons'.lidar = l /\ (cons'.dropping => cons'.pc = "release")
    BY <1>2, <2>1
  <2> QED BY <1>4, <2>3, <2>4, <2>5, <2>9, <2>10, TakeRows
<1> QED BY <1>2, <1>3, <1>9, <1>10, <1>11 DEF PollRing

LEMMA ReleaseRows == ASSUME DataInv, AdvanceReader PROVE DataInv'
<1>1. PICK c \in ConsType : c = cons BY DEF DataInv, DriverTypeOK
<1>2. PICK l \in Lidars : l = cons.lidar BY <1>1 DEF ConsType
<1>3. PICK r \in Ring : r = ring[l] BY DEF DataInv, DriverTypeOK
<1>4. UNCHANGED <<cfg, now, raw, points, prod, started, gate, clock, shared, seen, made>>
  BY DEF AdvanceReader, pipe
<1>5. cons.pc = "release" BY DEF AdvanceReader
<1>6. PICK last \in Nat : last = seen.last[l] BY SeenTypes DEF DataInv, DriverTypeOK
<1>7. PICK stale \in Nat : stale = seen.stale[l] BY SeenTypes DEF DataInv, DriverTypeOK
<1>8. PICK a \in {"release", "dropping"} : a = ReaderAt(cons, l)
  BY <1>2, <1>5 DEF ReaderAt
<1>9. PICK q \in {"drop", "publish"} : q = IF a = "release" THEN "publish" ELSE "drop"
  OBVIOUS
<1>10. PICK co2 \in ConsType : co2 = [c EXCEPT !.pc = q, !.dropping = FALSE] BY DEF ConsType
<1>11. cons' = co2
  BY <1>1, <1>2, <1>5, <1>8, <1>9, <1>10 DEF AdvanceReader, ReaderAt
<1>12. co2.pc = q /\ co2.lidar = l /\ co2.dropping = FALSE /\ co2.frame = c.frame
  BY <1>1, <1>2, <1>10 DEF ConsType
<1>13. PICK s \in Ring : s = [r EXCEPT !.rd = Bump(r.rd)] BY BumpIs DEF Ring
<1>14. ring' = [ring EXCEPT ![l] = s] BY <1>2, <1>3, <1>13 DEF AdvanceReader
<1>15. ring' \in [Lidars -> Ring] /\ ring'[l] = s /\ \A k \in Lidars : k # l => ring'[k] = ring[k]
  BY <1>14 DEF DataInv, DriverTypeOK
<1>16. DriverTypeOK' BY <1>4, <1>11, <1>15 DEF DataInv, DriverTypeOK
<1>17. seen'.intact BY <1>4 DEF DataInv, RingInv
<1>18. \A k \in Lidars : k # l => /\ ring'[k] = ring[k]
                               /\ seen'.last[k] = seen.last[k] /\ seen'.stale[k] = seen.stale[k]
  BY <1>4, <1>15
<1>19. PICK g \in Frame : g = cons.frame BY <1>1 DEF ConsType
<1>20. /\ ring[l] = r /\ ring'[l] = s /\ seen.last[l] = last /\ seen'.last[l] = last
       /\ seen.stale[l] = stale /\ seen'.stale[l] = stale /\ cons'.frame = g
       /\ ReaderAt(cons', l) = q
  BY <1>1, <1>3, <1>4, <1>6, <1>7, <1>11, <1>12, <1>15, <1>19 DEF ReaderAt
<1>21. \A p \in Writers : \A f \in Frame : \A m \in Nat :
         RowOK(ring[l], p, f, ReaderAt(cons, l), cons.frame, seen.last[l], seen.stale[l], m)
           => RowOK(ring'[l], p, f, ReaderAt(cons', l), cons'.frame, seen'.last[l], seen'.stale[l], m)
  <2> SUFFICES ASSUME NEW p \in Writers, NEW f \in Frame, NEW m \in Nat,
                      RowOK(r, p, f, a, g, last, stale, m)
               PROVE  RowOK(s, p, f, q, g, last, stale, m)
    BY <1>8, <1>19, <1>20, Zenon
  <2> QED BY <1>9, <1>13, FrameReleased
<1>22. cons.lidar = l /\ cons'.lidar = l /\ (cons'.dropping => cons'.pc = "release")
  BY <1>2, <1>11, <1>12
<1> QED BY <1>4, <1>16, <1>17, <1>18, <1>21, <1>22, TakeRows

(***************************************************************************)
(* The ready gate: the frames it counts are the newest samples.            *)
(***************************************************************************)
Series(s, t) ==
  /\ t.clock = s.clock
  /\ t.stamp \in s.stamp + 1..s.stamp + MaxStampGap
  /\ t.arrival \in s.arrival + 1..s.arrival + MaxArrival
  /\ t.arrival >= s.arrival + MinArrival

Counted(g, samples) ==
  /\ g.count <= Len(samples) /\ Len(samples) <= ReadySamples
  /\ g.count > 0 =>
       samples[Len(samples)] = [stamp |-> g.stamp, clock |-> g.clock, arrival |-> g.arrival]
  /\ \A i \in 2..Len(samples) :
       i > Len(samples) - g.count + 1 => Series(samples[i - 1], samples[i])

Earned(sh, samples) ==
  sh.ready => /\ Len(samples) = ReadySamples
              /\ \A i \in 2..ReadySamples : Series(samples[i - 1], samples[i])

GateInv == Counted(gate, seen.samples) /\ Earned(shared, seen.samples)

LEMMA GateNumbers ==
  /\ ReadySamples \in Nat /\ ReadySamples >= 2
  /\ MaxStampGap \in Nat /\ MinArrival \in Nat /\ MaxArrival \in Nat
  BY DriverAssumption

LEMMA ObservedGate ==
  ASSUME NEW g \in GateType, NEW s \in SampleType
  PROVE  \E o \in GateType :
           /\ o = Observed(g, s)
           /\ o.stamp = s.stamp /\ o.clock = s.clock /\ o.arrival = s.arrival /\ o.count > 0
           /\ \/ o.count = 1
              \/ /\ Continuous(g, s)
                 /\ o.count = IF g.count < ReadySamples THEN g.count + 1 ELSE g.count
<1>1. g.count \in Nat /\ s.stamp \in Nat /\ s.arrival \in Nat /\ s.clock \in Clocks
  BY DEF GateType, SampleType
<1>2. CASE Continuous(g, s)
  <2>1. PICK n \in Nat : n = IF g.count < ReadySamples THEN g.count + 1 ELSE g.count
    BY <1>1
  <2>2. n > 0 BY <1>1, <1>2, <2>1, GateNumbers DEF Continuous
  <2>3. PICK o \in GateType : o = [count |-> n, stamp |-> s.stamp, clock |-> s.clock, arrival |-> s.arrival]
    BY <1>1 DEF GateType
  <2>4. o = Observed(g, s) BY <1>2, <2>1, <2>3 DEF Observed
  <2> QED BY <1>2, <2>1, <2>2, <2>3, <2>4
<1>3. CASE ~Continuous(g, s)
  <2>1. PICK o \in GateType : o = [count |-> 1, stamp |-> s.stamp, clock |-> s.clock, arrival |-> s.arrival]
    BY <1>1 DEF GateType
  <2>2. o = Observed(g, s) BY <1>3, <2>1 DEF Observed
  <2> QED BY <2>1, <2>2
<1> QED BY <1>2, <1>3

\* The sample a gate that goes on has seen last is the one before.
LEMMA ContinuousSeries ==
  ASSUME NEW g \in GateType, NEW s \in SampleType, Continuous(g, s),
         NEW t, t = [stamp |-> g.stamp, clock |-> g.clock, arrival |-> g.arrival]
  PROVE  Series(t, s)
<1>1. g.stamp \in Nat /\ g.arrival \in Nat /\ s.stamp \in Nat /\ s.arrival \in Nat
  BY DEF GateType, SampleType
<1>2. t.stamp = g.stamp /\ t.clock = g.clock /\ t.arrival = g.arrival
  OBVIOUS
<1> QED BY <1>1, <1>2, GateNumbers DEF Continuous, Series

LEMMA CountedOn ==
  ASSUME NEW g \in GateType, NEW s \in SampleType, NEW samples \in Seq(SampleType),
         Counted(g, samples), NEW o \in GateType, o = Observed(g, s),
         NEW kept \in Seq(SampleType),
         kept = IF Len(samples) < ReadySamples THEN Append(samples, s) ELSE Append(Tail(samples), s)
  PROVE  Counted(o, kept) /\ (o.count >= ReadySamples => Earned([ready |-> TRUE], kept))
<1>1. PICK n \in Nat : n = Len(samples) OBVIOUS
<1>2. n <= ReadySamples BY <1>1 DEF Counted
<1>3. PICK k \in Nat : k = (IF n < ReadySamples THEN 0 ELSE 1) /\ (k = 0 \/ k = 1) OBVIOUS
\* kept is samples from place k on, and s
<1>14. n + 1 - k \in Nat
  <2>1. CASE k = 0 BY <2>1
  <2>2. CASE k = 1 BY <2>2
  <2> QED BY <1>3, <2>1, <2>2
<1>4. PICK m \in Nat : m = n + 1 - k BY <1>14
<1>5. /\ Len(kept) = m /\ kept[m] = s /\ m <= ReadySamples
      /\ \A i \in 1..m - 1 : kept[i] = samples[i + k] /\ i + k \in 1..n
  <2>1. CASE n < ReadySamples
    <3>1. kept = Append(samples, s) /\ k = 0 /\ m = n + 1 BY <1>1, <1>3, <1>4, <2>1
    <3> QED BY <3>1, <1>1, <2>1, GateNumbers
  <2>2. CASE ~(n < ReadySamples)
    <3>1. kept = Append(Tail(samples), s) /\ k = 1 /\ m = n /\ n = ReadySamples
      BY <1>1, <1>2, <1>3, <1>4, <2>2, GateNumbers
    <3>2. samples # <<>> BY <1>1, <3>1, GateNumbers
    <3>7. Tail(samples) \in Seq(SampleType) BY <3>2
    <3>3. PICK rest \in Seq(SampleType) : rest = Tail(samples) BY <3>7
    <3>4. Len(rest) = n - 1 /\ \A i \in 1..n - 1 : rest[i] = samples[i + 1] BY <1>1, <3>2, <3>3
    <3>5. kept = Append(rest, s) BY <3>1, <3>3
    <3>8. PICK n1 \in Nat : n1 = n - 1 BY <3>1, GateNumbers
    <3>9. Len(rest) = n1 BY <3>4, <3>8
    <3>10. Len(kept) = n1 + 1 /\ kept[n1 + 1] = s /\ \A i \in 1..n1 : kept[i] = rest[i]
      <4>1. /\ Len(Append(rest, s)) = Len(rest) + 1
            /\ \A i \in 1..Len(rest) : Append(rest, s)[i] = rest[i]
            /\ Append(rest, s)[Len(rest) + 1] = s
        BY AppendProperties
      <4> QED BY <3>5, <3>9, <4>1, Zenon
    <3>11. n1 + 1 = n BY <3>8
    <3>6. Len(kept) = n /\ kept[n] = s /\ \A i \in 1..n - 1 : kept[i] = rest[i] BY <3>8, <3>10, <3>11
    <3> QED BY <3>1, <3>4, <3>6, <1>1
  <2> QED BY <2>1, <2>2
<1>6. g.count \in Nat /\ o.count \in Nat BY DEF GateType
<1>7. /\ o.stamp = s.stamp /\ o.clock = s.clock /\ o.arrival = s.arrival /\ o.count > 0
      /\ \/ o.count = 1
         \/ /\ Continuous(g, s)
            /\ o.count = IF g.count < ReadySamples THEN g.count + 1 ELSE g.count
  BY SMTT(30), ObservedGate
<1>8. s = [stamp |-> o.stamp, clock |-> o.clock, arrival |-> o.arrival]
  BY <1>7 DEF SampleType
<1>9. g.count <= n BY <1>1 DEF Counted
<1>10. o.count <= m
  BY <1>2, <1>3, <1>4, <1>6, <1>7, <1>9, GateNumbers
<1>11. ASSUME NEW i \in 2..m, i > m - o.count + 1
       PROVE  Series(kept[i - 1], kept[i])
  <2>1. Continuous(g, s) /\ o.count = IF g.count < ReadySamples THEN g.count + 1 ELSE g.count
    BY <1>7, <1>11
  <2>2. g.count # 0 BY <2>1 DEF Continuous
  <2>6. i - 1 \in 1..m - 1 OBVIOUS
  <2>3. kept[i - 1] = samples[i - 1 + k] /\ i - 1 + k \in 1..n
    BY <1>5, <2>6
  <2>4. CASE i = m
    <3>1. i - 1 + k = n BY <1>4, <2>4
    <3>2. samples[n] = [stamp |-> g.stamp, clock |-> g.clock, arrival |-> g.arrival]
      BY <1>1, <1>6, <2>2 DEF Counted
    <3>3. PICK t : t = [stamp |-> g.stamp, clock |-> g.clock, arrival |-> g.arrival] OBVIOUS
    <3>4. Series(t, s) BY <2>1, <3>3, ContinuousSeries
    <3>5. kept[i - 1] = t BY <2>3, <3>1, <3>2, <3>3
    <3>6. kept[i] = s BY <2>4, <1>5
    <3> QED BY <3>4, <3>5, <3>6
  <2>5. CASE i # m
    <3>1. i \in 1..m - 1 /\ kept[i] = samples[i + k] BY <1>5, <2>5
    <3>2. PICK j \in 2..n : j = i + k BY <1>3, <1>4, <2>5
    <3>3. j > n - g.count + 1
      <4>1. CASE g.count < ReadySamples
        <5>1. o.count = g.count + 1 BY <2>1, <4>1
        <5> QED BY <1>4, <1>6, <1>11, <3>2, <5>1
      <4>2. CASE ~(g.count < ReadySamples)
        <5>1. n = g.count BY <1>2, <1>6, <1>9, <4>2, GateNumbers
        <5> QED BY <1>6, <3>2, <5>1
      <4> QED BY <4>1, <4>2
    <3>4. Series(samples[j - 1], samples[j]) BY <1>1, <3>2, <3>3 DEF Counted
    <3>5. j - 1 = i - 1 + k BY <3>2, <1>3
    <3> QED BY <2>3, <3>1, <3>2, <3>4, <3>5
  <2> QED BY <2>4, <2>5
<1>12. Counted(o, kept)
  BY <1>5, <1>8, <1>10, <1>11 DEF Counted
<1>13. ASSUME o.count >= ReadySamples PROVE Earned([ready |-> TRUE], kept)
  <2>1. m = ReadySamples /\ o.count = ReadySamples
    BY <1>5, <1>6, <1>10, <1>13, GateNumbers
  <2>2. \A i \in 2..ReadySamples : Series(kept[i - 1], kept[i])
    <3> SUFFICES ASSUME NEW i \in 2..ReadySamples PROVE Series(kept[i - 1], kept[i])
      OBVIOUS
    <3>1. i \in 2..m /\ i > m - o.count + 1 BY <2>1, GateNumbers
    <3> QED BY <1>11, <3>1
  <2> QED BY <1>5, <2>1, <2>2 DEF Earned
<1> QED BY <1>12, <1>13

LEMMA StoredOK ==
  ASSUME NEW g \in GateType, NEW s \in SampleType, NEW samples \in Seq(SampleType),
         Counted(g, samples), NEW o, o = Stored(g, s, samples)
  PROVE  /\ o.gate \in GateType /\ o.shared \in SharedType /\ o.samples \in Seq(SampleType)
         /\ Counted(o.gate, o.samples) /\ Earned(o.shared, o.samples)
<1>1. PICK h \in GateType : h = Observed(g, s) BY ObservedGate
<1>2. IF Len(samples) < ReadySamples THEN Append(samples, s) \in Seq(SampleType)
      ELSE Append(Tail(samples), s) \in Seq(SampleType)
  <2>1. CASE Len(samples) < ReadySamples BY <2>1
  <2>2. CASE ~(Len(samples) < ReadySamples)
    <3>1. samples # <<>> BY <2>2, GateNumbers
    <3>2. Tail(samples) \in Seq(SampleType) BY <3>1
    <3> QED BY <2>2, <3>2
  <2> QED BY <2>1, <2>2
<1>3. PICK kept \in Seq(SampleType) :
        kept = IF Len(samples) < ReadySamples THEN Append(samples, s) ELSE Append(Tail(samples), s)
  BY <1>2
<1>4. Counted(h, kept) /\ (h.count >= ReadySamples => Earned([ready |-> TRUE], kept))
  BY <1>1, <1>3, CountedOn
<1>5. PICK sh : sh = [open |-> TRUE, ready |-> h.count >= ReadySamples, stamp |-> s.stamp]
  OBVIOUS
<1>8. sh \in SharedType /\ (sh.ready => h.count >= ReadySamples)
  <2>1. (h.count >= ReadySamples) \in BOOLEAN OBVIOUS
  <2>2. s.stamp \in Nat BY DEF SampleType
  <2>3. sh \in SharedType BY <1>5, <2>1, <2>2, Zenon DEF SharedType
  <2>4. sh.ready <=> h.count >= ReadySamples BY <1>5
  <2> QED BY <2>3, <2>4
<1>6. o.gate = h /\ o.shared = sh /\ o.samples = kept
  BY <1>1, <1>3, <1>5 DEF Stored
<1>7. Earned(sh, kept) BY <1>4, <1>8 DEF Earned
<1> QED BY <1>4, <1>6, <1>7, <1>8

LEMMA OutcomesOK ==
  ASSUME DriverTypeOK, GateInv, NEW f \in Frame, NEW o \in Outcomes(f)
  PROVE  /\ o.gate \in GateType /\ o.shared \in SharedType /\ o.samples \in Seq(SampleType)
         /\ Counted(o.gate, o.samples) /\ Earned(o.shared, o.samples)
<1>1. PICK samples \in Seq(SampleType) : samples = seen.samples BY DEF DriverTypeOK, SeenType
<1>2. Len(samples) <= ReadySamples /\ Counted(gate, samples) /\ Earned(shared, samples)
  BY <1>1 DEF GateInv, Counted
<1>3. Counted(NoGate, samples)
  <2>1. Len(samples) \in Nat OBVIOUS
  <2> QED BY <1>2, <2>1 DEF Counted, NoGate
<1>4. PICK g \in GateType : g = Tracked(gate, f.clock) /\ Counted(g, samples)
  BY <1>2, <1>3, NoFrameType DEF Tracked, DriverTypeOK
<1>5. PICK s \in SampleType : s = Sample(f.base, f.clock)
  BY DEF Sample, SampleType, Frame, DriverTypeOK
<1>6. PICK none \in Seq(SampleType) : none = <<>>
  <2>1. <<>> \in Seq(SampleType) OBVIOUS
  <2> QED BY <2>1
<1>7. Counted(NoGate, none) /\ NoGate \in GateType
  <2>1. Len(none) = 0 BY <1>6
  <2> QED BY <2>1, GateNumbers, NoFrameType DEF Counted, NoGate
<1>8. \/ o = [gate |-> g, shared |-> shared, samples |-> samples]
      \/ o = Stored(g, s, samples) \/ o = Stored(NoGate, s, none)
  <2>1. CASE f.base = 0 BY <1>1, <1>4, <2>1 DEF Outcomes
  <2>2. CASE f.base # 0 /\ shared.open BY <1>1, <1>4, <1>5, <2>2 DEF Outcomes
  <2>3. CASE f.base # 0 /\ ~shared.open BY <1>1, <1>4, <1>5, <1>6, <2>3 DEF Outcomes
  <2> QED BY <2>1, <2>2, <2>3
<1>9. CASE o = [gate |-> g, shared |-> shared, samples |-> samples]
  BY <1>2, <1>4, <1>9 DEF DriverTypeOK
<1>10. CASE o = Stored(g, s, samples) BY <1>4, <1>10, StoredOK
<1>11. CASE o = Stored(NoGate, s, none) BY <1>7, <1>11, StoredOK
<1> QED BY <1>8, <1>9, <1>10, <1>11

LEMMA PublishStep == ASSUME DataInv, GateInv, PublishFrame PROVE DataInv' /\ GateInv'
<1>1. PICK c \in ConsType : c = cons BY DEF DataInv, DriverTypeOK
<1>2. PICK l \in Lidars : l = cons.lidar BY <1>1 DEF ConsType
<1>3. PICK g \in Frame : g = cons.frame BY <1>1 DEF ConsType
<1>4. PICK se \in SeenType : se = seen BY DEF DataInv, DriverTypeOK
<1>5. cons.pc = "publish" /\ ~cons.dropping BY DEF PublishFrame, DataInv, RingInv
<1>6. PICK r \in Ring : r = ring[l] BY DEF DataInv, DriverTypeOK
<1>7. PICK last \in Nat : last = se.last[l] BY SeenTypes
<1>8. PICK stale \in Nat : stale = se.stale[l] BY SeenTypes
<1>9. ReaderAt(cons, l) = "publish" BY <1>2, <1>5 DEF ReaderAt
<1>10. UNCHANGED <<cfg, now, raw, points, prod, ring, started, made>>
  BY DEF PublishFrame, pipe
<1>11. PICK co2 \in ConsType : co2 = [c EXCEPT !.pc = "again", !.frame = NoFrame]
  BY NoFrameType DEF ConsType, Elsewhere
<1>12. cons' = co2 /\ co2.pc = "again" /\ co2.lidar = l /\ ~co2.dropping
  BY <1>1, <1>2, <1>5, <1>11 DEF PublishFrame, ConsType
\* the frame in hand is new, and no part of the backlog
<1>13. last < g.n /\ stale < g.n
  <2>1. PICK p \in Writers : p = WriterAt(prod, l) BY WhereType DEF DataInv, DriverTypeOK
  <2>2. PICK f \in Frame : f = prod.frame BY WhereType DEF DataInv, DriverTypeOK
  <2>3. PICK m \in Nat : m = made[l] BY DEF DataInv, DriverTypeOK
  <2>4. RowOK(r, p, f, "publish", g, last, stale, m)
    BY <1>3, <1>4, <1>6, <1>7, <1>8, <1>9, <2>1, <2>2, <2>3 DEF DataInv, RingInv, Rows
  <2> QED BY <2>4, FramePublished
<1>14. PICK after \in [Lidars -> Nat] : after = [se.last EXCEPT ![l] = g.n]
  BY DEF SeenType, Frame
<1>15. PICK samples \in Seq(SampleType) :
         /\ seen' = [se EXCEPT !.last = after, !.samples = samples,
                               !.intact = se.intact /\ g.n > se.last[l] /\ g.n > se.stale[l]]
         /\ gate' \in GateType /\ clock' \in Clocks /\ shared' \in SharedType
         /\ Counted(gate', samples) /\ Earned(shared', samples)
  <2>1. CASE l = SharedLidar
    <3>1. PICK o \in Outcomes(g) :
            /\ gate' = o.gate /\ shared' = o.shared /\ clock' = g.clock
            /\ seen' = [se EXCEPT !.last = after, !.samples = o.samples,
                                  !.intact = se.intact /\ g.n > se.last[l] /\ g.n > se.stale[l]]
      BY <1>2, <1>3, <1>4, <1>14, <2>1 DEF PublishFrame
    <3>2. /\ o.gate \in GateType /\ o.shared \in SharedType /\ o.samples \in Seq(SampleType)
          /\ Counted(o.gate, o.samples) /\ Earned(o.shared, o.samples)
      BY OutcomesOK DEF DataInv
    <3>3. g.clock \in Clocks BY DEF Frame
    <3> QED BY <3>1, <3>2, <3>3
  <2>2. CASE l # SharedLidar
    <3>1. /\ UNCHANGED <<gate, shared, clock>>
          /\ seen' = [se EXCEPT !.last = after, !.samples = se.samples,
                                !.intact = se.intact /\ g.n > se.last[l] /\ g.n > se.stale[l]]
      BY <1>2, <1>3, <1>4, <1>14, <2>2 DEF PublishFrame
    <3>2. se.samples \in Seq(SampleType) BY DEF SeenType
    <3>3. Counted(gate, se.samples) /\ Earned(shared, se.samples) BY <1>4 DEF GateInv
    <3> QED BY <3>1, <3>2, <3>3 DEF DataInv, DriverTypeOK
  <2> QED BY <2>1, <2>2
<1>16. se.intact BY <1>4 DEF DataInv, RingInv
<1>17. g.n > se.last[l] /\ g.n > se.stale[l] BY <1>7, <1>8, <1>13 DEF Frame
<1>18. PICK se2 \in SeenType : /\ se2 = seen' /\ se2.intact /\ se2.last = after
                              /\ se2.stale = se.stale /\ se2.samples = samples
  <2>1. se.intact /\ g.n > se.last[l] /\ g.n > se.stale[l] BY <1>16, <1>17
  <2>2. seen' \in SeenType BY <1>15 DEF SeenType
  <2>3. seen'.intact BY <1>15, <2>1 DEF SeenType
  <2>4. seen'.last = after /\ seen'.stale = se.stale /\ seen'.samples = samples BY <1>15 DEF SeenType
  <2> QED BY <2>2, <2>3, <2>4
<1>19. DriverTypeOK' BY <1>10, <1>12, <1>15, <1>18 DEF DataInv, DriverTypeOK
<1>20. GateInv' BY <1>15, <1>18 DEF GateInv
<1>21. \A k \in Lidars : k # l => after[k] = se.last[k] BY <1>14 DEF SeenType
<1>22. after[l] = g.n BY <1>14 DEF SeenType
<1>23. \A k \in Lidars : k # l => /\ ring'[k] = ring[k]
                               /\ seen'.last[k] = seen.last[k] /\ seen'.stale[k] = seen.stale[k]
  BY <1>4, <1>10, <1>18, <1>21
<1>24. /\ ring[l] = r /\ ring'[l] = r /\ seen.last[l] = last /\ seen'.last[l] = g.n
       /\ seen.stale[l] = stale /\ seen'.stale[l] = stale /\ cons'.frame = co2.frame
       /\ ReaderAt(cons', l) = "again"
  BY <1>4, <1>6, <1>7, <1>8, <1>10, <1>12, <1>18, <1>22 DEF ReaderAt
<1>25. \A p \in Writers : \A f \in Frame : \A m \in Nat :
         RowOK(ring[l], p, f, ReaderAt(cons, l), cons.frame, seen.last[l], seen.stale[l], m)
           => RowOK(ring'[l], p, f, ReaderAt(cons', l), cons'.frame, seen'.last[l], seen'.stale[l], m)
  <2> SUFFICES ASSUME NEW p \in Writers, NEW f \in Frame, NEW m \in Nat,
                      RowOK(r, p, f, "publish", g, last, stale, m)
               PROVE  RowOK(r, p, f, "again", co2.frame, g.n, stale, m)
    BY <1>3, <1>9, <1>24, Zenon
  <2> QED BY FramePublished
<1>26. cons.lidar = l /\ cons'.lidar = l /\ (cons'.dropping => cons'.pc = "release")
  BY <1>2, <1>12
<1>27. seen'.intact BY <1>18
<1>28. DataInv' BY <1>10, <1>19, <1>23, <1>25, <1>26, <1>27, TakeRows
<1> QED BY <1>20, <1>28

\* The actions away from the rings, the reader and the gate.
LEMMA ElsewhereStep ==
  ASSUME DataInv, GateInv, DriverTypeOK',
         UNCHANGED <<prod, ring, cons, gate, shared, made, seen>>
  PROVE  DataInv' /\ GateInv'
  BY DEF DataInv, RingInv, Rows, WriterAt, ReaderAt, GateInv, Counted, Earned

\* Every step is one of those above.
LEMMA StepKinds ==
  Next => \/ ProcessPacket \/ CheckFull \/ FillSlot \/ AdvanceWriter \/ SignalReader
          \/ TopOfLoop \/ WaitForPoints \/ VisitLidar \/ DropBacklog \/ PollRing
          \/ AdvanceReader \/ PublishFrame
          \/ \E l \in cfg.lidars, type \in cfg.clocks : Packet(l, type)
          \/ Tick
          \/ UNCHANGED <<cfg, now, raw, points, prod, ring, cons, started, gate, clock, shared, made, seen>>
  BY DEF Next, Setup, Points, Reader, StoreImu, SignalImu, ImuReader, ImuTopOfLoop,
         WaitForImu, PollImu, RequestExit, SignalExit, imuOthers, pipe, lddc

LEMMA DataInvariant == Spec => [](DataInv /\ GateInv)
<1>1. Init => DataInv /\ GateInv
  <2> SUFFICES ASSUME Init PROVE DataInv /\ GateInv
    OBVIOUS
  <2>1. DataInv BY InitType, InitRows DEF DataInv
  <2>2. gate.count = 0 /\ shared.ready = FALSE /\ seen.samples = <<>>
    BY DEF Init, NoGate
  <2>3. Len(seen.samples) = 0 BY <2>2
  <2>4. GateInv BY <2>2, <2>3, GateNumbers DEF GateInv, Counted, Earned
  <2> QED BY <2>1, <2>4
<1>2. DataInv /\ GateInv /\ [Next]_vars => DataInv' /\ GateInv'
  <2> SUFFICES ASSUME DataInv, GateInv, [Next]_vars PROVE DataInv' /\ GateInv'
    OBVIOUS
  <2>0. DriverTypeOK BY DEF DataInv
  <2>1. UNCHANGED <<gate, shared, seen>> => GateInv'
    BY DEF GateInv, Counted, Earned
  <2>2. CASE ProcessPacket
    BY <2>1, <2>2, ProcessRows DEF ProcessPacket, lddc
  <2>3. CASE CheckFull
    BY <2>1, <2>3, CheckRows DEF CheckFull, lddc
  <2>4. CASE FillSlot
    BY <2>1, <2>4, FillRows DEF FillSlot, lddc
  <2>5. CASE AdvanceWriter
    BY <2>1, <2>5, DeliverRows DEF AdvanceWriter, lddc
  <2>6. CASE SignalReader
    BY <2>1, <2>6, SignalRows DEF SignalReader, lddc
  <2>7. CASE TopOfLoop
    BY <2>1, <2>7, TopRows DEF TopOfLoop
  <2>8. CASE WaitForPoints
    BY <2>1, <2>8, WaitRows DEF WaitForPoints
  <2>9. CASE VisitLidar
    <3>1. DataInv' BY <2>9, VisitRows
    <3>2. gate' = gate /\ shared' = shared /\ seen'.samples = seen.samples
      BY <2>0, <2>9 DEF VisitLidar, DriverTypeOK, SeenType
    <3>3. GateInv' BY <3>2 DEF GateInv, Counted, Earned
    <3> QED BY <3>1, <3>3
  <2>10. CASE DropBacklog
    BY <2>1, <2>10, DropRows DEF DropBacklog
  <2>11. CASE PollRing
    BY <2>1, <2>11, PollRows DEF PollRing
  <2>12. CASE AdvanceReader
    BY <2>1, <2>12, ReleaseRows DEF AdvanceReader
  <2>13. CASE PublishFrame
    BY <2>13, PublishStep
  <2>14. CASE \E l \in cfg.lidars, type \in cfg.clocks : Packet(l, type)
    <3>1. DriverTypeOK' BY <2>0, <2>14, PacketStep
    <3>2. UNCHANGED <<prod, ring, cons, gate, shared, made, seen>> BY <2>14 DEF Packet, lddc
    <3> QED BY <3>1, <3>2, ElsewhereStep
  <2>15. CASE Tick
    <3>1. UNCHANGED <<cfg, raw, points, prod, ring, cons, started, gate, clock, shared, made, seen>>
          /\ now' = now + 1
      BY <2>15 DEF Tick, pipe, lddc
    <3>2. now' \in Nat BY <2>0, <3>1 DEF DriverTypeOK
    <3>3. DriverTypeOK' BY <2>0, <3>1, <3>2 DEF DriverTypeOK
    <3> QED BY <3>1, <3>3, ElsewhereStep
  <2>16. CASE UNCHANGED <<cfg, now, raw, points, prod, ring, cons, started, gate, clock, shared, made, seen>>
    <3>1. DriverTypeOK' BY <2>0, <2>16 DEF DriverTypeOK
    <3> QED BY <2>16, <3>1, ElsewhereStep
  <2>17. CASE UNCHANGED vars
    BY <2>16, <2>17 DEF vars
  <2> QED BY <2>2, <2>3, <2>4, <2>5, <2>6, <2>7, <2>8, <2>9, <2>10, <2>11, <2>12, <2>13, <2>14,
             <2>15, <2>16, <2>17, StepKinds
<1> QED BY <1>1, <1>2, PTL DEF Spec

(* The ring stays intact whatever the threads do, for every size of ring and  *)
(* index width that is a multiple of it: the writer and the reader never meet *)
(* in a slot, and every frame published is newer than the one before it and   *)
(* than the backlog found at the start (RingIntact).                          *)
THEOREM RingStaysIntact == Spec => []RingIntact
<1>1. DataInv => RingIntact
  <2> SUFFICES ASSUME DataInv PROVE RingIntact
    OBVIOUS
  <2>1. seen.intact BY DEF DataInv, RingInv
  <2>2. \A l \in Lidars : Used(ring[l]) <= RingSize
    BY DEF DataInv, RingInv, Rows, RowOK, Room
  <2>3. ASSUME prod.pc \in {"fill", "advance"}, cons.pc = "release", prod.lidar = cons.lidar
        PROVE  ring[prod.lidar].wr % RingSize # ring[prod.lidar].rd % RingSize
    <3>1. PICK l \in Lidars : l = prod.lidar BY DEF DataInv, DriverTypeOK, ProdType
    <3>2. PICK r \in Ring : r = ring[l] BY DEF DataInv, DriverTypeOK
    <3>3. PICK u \in Nat : u = Used(r) BY WaitingType
    <3>4. Room(r, prod.pc) /\ (ReaderAt(cons, l) = "release" => u > 0) /\ (ReaderAt(cons, l) = "dropping" => u > 1)
      BY <3>1, <3>2, <3>3 DEF DataInv, RingInv, Rows, RowOK, WriterAt, Taken
    <3>5. ReaderAt(cons, l) \in {"release", "dropping"} BY <2>3, <3>1 DEF ReaderAt
    <3>6. u > 0 /\ u < RingSize BY <2>3, <3>3, <3>4, <3>5 DEF Room
    <3>7. u \in 0..RingSize - 1 /\ 0 \in 0..RingSize - 1 /\ u # 0 BY <3>6, SizesAre
    <3>8. Place(r, u) # Place(r, 0) BY <3>7, PlacesApart
    <3>9. r.wr % RingSize = Place(r, u) BY <3>3, WriterPlace
    <3>10. r.rd % RingSize = Place(r, 0)
      <4>1. r.rd + 0 = r.rd BY SizesAre DEF Ring
      <4> QED BY <4>1 DEF Place
    <3> QED BY <3>1, <3>2, <3>8, <3>9, <3>10
  <2> QED BY <2>1, <2>2, <2>3 DEF RingIntact
<1> QED BY <1>1, DataInvariant, PTL

(* The shared time is said to be ready only after ReadySamples frames of one  *)
(* series: the frames the gate counts are the newest ones it saw, and its     *)
(* last frame is the last of them (ReadyEarned).                              *)
THEOREM ReadyIsEarned == Spec => []ReadyEarned
<1>1. DataInv /\ GateInv => ReadyEarned
  BY DEF GateInv, Earned, Series, ReadyEarned
<1> QED BY <1>1, DataInvariant, PTL

-----------------------------------------------------------------------------
(* ScanDeskew.  The invariant follows the scan.  While it is read, an orderly *)
(* message leaves an ascending cloud, for the time of the point read last     *)
(* bounds the cloud from above and is itself bounded by the raw time of that  *)
(* point, so that a repaired time never overtakes the next one.  While it is  *)
(* walked, the points behind the walk are done, those before it untouched,    *)
(* and the point in hand is before the pose the walk has just left.           *)

DeskewTypeOK ==
  /\ stage \in {"idle", "read", "cut", "walk", "done"}
  /\ lidar_type \in LidarTypes
  /\ msg \in Messages \cup {<<>>}
  /\ reading \in [n : Nat, valid : Nat, last : Int]
  /\ cloud \in Seq(Int)
  /\ poses \in Histories \cup {<<>>}
  /\ walk \in [head : Nat, point : Nat]
  /\ moved \in Seq(Nat)

\* the times of a point that the handlers without repair give
TimeOf(type, m, i) ==
  IF type \in Timeless THEN 0
  ELSE IF type \in FromFirst THEN m[i].t - m[1].t ELSE m[i].t

Reading ==
  stage = "read" =>
    /\ msg \in Messages /\ reading.n \in 0..Len(msg)
    /\ reading.n = 0 => cloud = <<>> /\ reading.last = 0
    /\ Orderly(msg) =>
         /\ Ascending(cloud)
         /\ \A i \in DOMAIN cloud : cloud[i] <= reading.last
         /\ reading.n > 0 /\ lidar_type = "AVIA" => reading.last <= msg[reading.n].t
         /\ reading.n > 0 /\ lidar_type # "AVIA" => reading.last = TimeOf(lidar_type, msg, reading.n)

\* the scans the property is about
Trusted == lidar_type \in Sorting \/ Orderly(msg)

Cut ==
  stage \in {"cut", "walk", "done"} =>
    /\ msg \in Messages
    /\ Trusted => Ascending(cloud)

Deskewed(i) ==
  IF Covered(i)
  THEN /\ moved[i] \in DOMAIN poses /\ poses[moved[i]] <= cloud[i]
       /\ \A j \in DOMAIN poses : j > moved[i] => cloud[i] < poses[j]
  ELSE moved[i] = 0

Walked ==
  /\ stage \in {"walk", "done"} =>
       /\ poses \in Histories /\ moved \in [DOMAIN cloud -> Nat]
       /\ walk.head \in 0..Len(poses) /\ walk.point \in 1..Len(cloud)
  /\ stage = "walk" /\ Trusted =>
       /\ \A i \in DOMAIN cloud : i > walk.point => Deskewed(i)
       /\ \A i \in DOMAIN cloud : i <= walk.point => moved[i] = 0
       /\ walk.head < Len(poses) => cloud[walk.point] < poses[walk.head + 1]

DeskewInv == DeskewTypeOK /\ Reading /\ Cut /\ Walked /\ DeskewExact
-----------------------------------------------------------------------------
\* What DeskewAssumption says of one message and of one history.
LEMMA MessageType ==
  ASSUME NEW m \in Messages
  PROVE  /\ m \in Seq(RawPoint) /\ Len(m) \in Nat \ {0}
         /\ DOMAIN m = 1..Len(m)
         /\ \A i \in DOMAIN m : m[i].t \in Nat
<1>1. m \in Seq(RawPoint) /\ m # <<>>
  BY DeskewAssumption
<1>2. \A i \in DOMAIN m : m[i] \in RawPoint
  BY <1>1
<1> QED BY <1>1, <1>2 DEF RawPoint

LEMMA HistoryType ==
  ASSUME NEW h \in Histories
  PROVE  h \in Seq(Int) /\ Len(h) \in Nat \ {0} /\ Ascending(h)
<1>1. h \in Seq(Int) /\ h # <<>> /\ Ascending(h)
  BY DeskewAssumption
<1> QED BY <1>1

\* A later time at the end keeps a cloud ascending.
LEMMA AppendAscends ==
  ASSUME NEW s \in Seq(Int), NEW t \in Int, Ascending(s), \A i \in DOMAIN s : s[i] <= t
  PROVE  Ascending(Append(s, t)) /\ \A i \in DOMAIN Append(s, t) : Append(s, t)[i] <= t
<1> DEFINE c == Append(s, t)
<1>1. DOMAIN c = 1..(Len(s) + 1) /\ c[Len(s) + 1] = t /\ \A i \in 1..Len(s) : c[i] = s[i]
  OBVIOUS
<1>2. \A i \in DOMAIN c : c[i] <= t /\ c[i] \in Int
  BY <1>1
<1>3. ASSUME NEW i \in DOMAIN c, NEW j \in DOMAIN c, i <= j PROVE c[i] <= c[j]
  <2>1. CASE j = Len(s) + 1
    BY <1>1, <1>2, <2>1
  <2>2. CASE j # Len(s) + 1
    <3>1. i \in 1..Len(s) /\ j \in 1..Len(s)
      BY <1>1, <1>3, <2>2
    <3> QED BY <1>1, <1>3, <3>1 DEF Ascending
  <2> QED BY <2>1, <2>2
<1> QED BY <1>2, <1>3 DEF Ascending

\* std::sort leaves an ascending cloud of the same times.
LEMMA SortedType ==
  ASSUME NEW s \in Seq(Int), NEW c \in SortedForm(s)
  PROVE  c \in Seq(Int) /\ Ascending(c) /\ DOMAIN c = DOMAIN s
<1>1. c \in [DOMAIN s -> Among(s)] /\ Ascending(c)
  BY DEF SortedForm
<1>2. Among(s) \subseteq Int /\ DOMAIN s = 1..Len(s) /\ Len(s) \in Nat
  BY DEF Among
<1>3. c \in [1..Len(s) -> Int]
  BY <1>1, <1>2
<1> QED BY <1>1, <1>2, <1>3
-----------------------------------------------------------------------------
LEMMA DeskewInitInv == DeskewInit => DeskewInv
<1> SUFFICES ASSUME DeskewInit PROVE DeskewInv
  OBVIOUS
<1>1. DeskewTypeOK
  BY DEF DeskewInit, DeskewTypeOK, NoReading, NoWalk
<1>2. Reading /\ Cut /\ Walked /\ DeskewExact
  BY DEF DeskewInit, Reading, Cut, Walked, DeskewExact
<1> QED BY <1>1, <1>2 DEF DeskewInv

\* Reading a message starts with an empty cloud.
LEMMA ReceiveInv ==
  ASSUME DeskewInv, NEW m \in Messages, Receive(m)
  PROVE  DeskewInv'
<1>1. m \in Seq(RawPoint) /\ Len(m) \in Nat \ {0}
  BY MessageType
<1>2. DeskewTypeOK'
  BY DEF DeskewInv, DeskewTypeOK, Receive, NoReading
<1>3. Reading'
  BY <1>1 DEF Receive, Reading, NoReading, Ascending
<1>4. Cut' /\ Walked' /\ DeskewExact'
  BY DEF Receive, Cut, Walked, DeskewExact
<1> QED BY <1>2, <1>3, <1>4 DEF DeskewInv

\* A repaired time of an orderly message is neither before the time before it
\* nor after the raw one.
LEMMA RepairStays ==
  ASSUME NEW t \in Nat, NEW n \in Nat, NEW last \in Int,
         n = 0 => last = 0, n > 0 => last <= t
  PROVE  LET r == IF Apart(t, last) < JumpTime THEN t
                  ELSE IF n = 0 THEN 0 ELSE last + RepairTime
         IN  r \in Int /\ last <= r /\ r <= t
<1>1. JumpTime \in Nat /\ RepairTime \in 0..JumpTime
  BY DeskewAssumption
<1>2. last <= t
  OBVIOUS
<1>3. CASE last < t
  BY <1>1, <1>3 DEF Apart
<1>4. CASE last = t
  <2>1. Apart(t, last) = 0
    BY <1>4 DEF Apart
  <2>2. CASE JumpTime = 0
    BY <1>1, <1>4, <2>1, <2>2
  <2>3. CASE JumpTime # 0
    BY <1>1, <1>4, <2>1, <2>3
  <2> QED BY <2>2, <2>3
<1> QED BY <1>2, <1>3, <1>4

LEMMA ReadAviaInv ==
  ASSUME DeskewInv, ReadAvia
  PROVE  DeskewInv'
<1>1. /\ stage = "read" /\ reading.n < Len(msg) /\ lidar_type = "AVIA"
      /\ UNCHANGED <<stage, lidar_type, msg, poses, walk, moved>>
  BY DEF ReadAvia, Unread
<1>2. /\ msg \in Messages /\ msg \in Seq(RawPoint) /\ Len(msg) \in Nat
      /\ reading.n \in Nat /\ reading.valid \in Nat /\ reading.last \in Int
      /\ cloud \in Seq(Int)
      /\ DOMAIN msg = 1..Len(msg) /\ \A i \in DOMAIN msg : msg[i].t \in Nat
  BY <1>1, MessageType DEF DeskewInv, DeskewTypeOK, Reading
<1>3. PICK n \in Nat : n = reading.n
  BY <1>2
<1>4. PICK last \in Int : last = reading.last
  BY <1>2
<1>5. PICK t \in Nat : t = Point.t
  BY <1>1, <1>2 DEF Point
<1>6. JumpTime \in Nat /\ RepairTime \in Int
  BY DeskewAssumption
<1>7. PICK r \in Int : r = Repaired
  BY <1>3, <1>4, <1>5, <1>6 DEF Repaired
<1>8. /\ reading' \in [n : Nat, valid : Nat, last : Int] /\ reading'.n = n + 1
      /\ cloud' \in {cloud, Append(cloud, r)}
  <2>1. CASE Point.line
    <3>1. reading' = [n |-> n + 1, valid |-> reading.valid + 1, last |-> r]
      BY <1>3, <1>7, <2>1 DEF ReadAvia
    <3>2. cloud' \in {cloud, Append(cloud, r)}
      BY <1>7, <2>1 DEF ReadAvia
    <3> QED BY <1>2, <3>1, <3>2
  <2>2. CASE ~Point.line
    <3>1. reading' = [n |-> n + 1, valid |-> reading.valid, last |-> 0] /\ cloud' = cloud
      BY <1>3, <2>2 DEF ReadAvia
    <3> QED BY <1>2, <1>3, <3>1 DEF DeskewInv, DeskewTypeOK
  <2> QED BY <2>1, <2>2
<1>9. DeskewTypeOK'
  <2>1. cloud' \in Seq(Int)
    <3>1. Append(cloud, r) \in Seq(Int)
      BY <1>2
    <3> QED BY <1>2, <1>8, <3>1
  <2> QED BY <1>1, <1>8, <2>1 DEF DeskewInv, DeskewTypeOK
<1>10. ASSUME Orderly(msg)
       PROVE  /\ Ascending(cloud')
              /\ \A i \in DOMAIN cloud' : cloud'[i] <= reading'.last
              /\ reading'.last <= t
  <2>1. n + 1 \in DOMAIN msg /\ msg[n + 1].t = t
    BY <1>1, <1>2, <1>3, <1>5 DEF Point
  <2>2. Point.line
    BY <1>3, <1>10, <2>1 DEF Orderly, Point
  <2>3. reading'.last = r
    BY <1>7, <2>2 DEF ReadAvia
  <2>4. (n = 0 => last = 0) /\ (n > 0 => last <= t)
    <3>1. CASE n = 0
      BY <1>1, <1>3, <1>4, <3>1 DEF DeskewInv, Reading
    <3>2. CASE n > 0
      <4>1. last <= msg[n].t
        BY <1>1, <1>3, <1>4, <1>10, <3>2 DEF DeskewInv, Reading
      <4>2. n \in DOMAIN msg /\ msg[n].t \in Nat
        BY <1>1, <1>2, <1>3, <3>2
      <4>3. msg[n].t <= t
        BY <1>10, <2>1, <4>2 DEF Orderly
      <4> QED BY <3>2, <4>1, <4>2, <4>3
    <3> QED BY <3>1, <3>2
  <2>5. r = IF Apart(t, last) < JumpTime THEN t
            ELSE IF n = 0 THEN 0 ELSE last + RepairTime
    BY <1>3, <1>4, <1>5, <1>7 DEF Repaired
  <2>6. last <= r /\ r <= t
    BY <2>4, <2>5, RepairStays
  <2>7. Ascending(cloud) /\ \A i \in DOMAIN cloud : cloud[i] <= last
    BY <1>1, <1>4, <1>10 DEF DeskewInv, Reading
  <2>8. \A i \in DOMAIN cloud : cloud[i] <= r
    BY <1>2, <2>6, <2>7
  <2>9. Ascending(Append(cloud, r)) /\ \A i \in DOMAIN Append(cloud, r) : Append(cloud, r)[i] <= r
    BY <1>2, <2>7, <2>8, AppendAscends
  <2>10. CASE cloud' = cloud
    BY <2>3, <2>6, <2>7, <2>8, <2>10
  <2>11. CASE cloud' = Append(cloud, r)
    BY <2>3, <2>6, <2>9, <2>11
  <2> QED BY <1>8, <2>10, <2>11
<1>11. Reading'
  <2>1. /\ msg' \in Messages /\ reading'.n \in 0..Len(msg') /\ reading'.n > 0
    BY <1>1, <1>2, <1>3, <1>8
  <2>2. msg'[reading'.n].t = t
    BY <1>1, <1>3, <1>5, <1>8 DEF Point
  <2>3. Orderly(msg') => Orderly(msg)
    BY <1>1
  <2> QED BY <1>1, <1>10, <2>1, <2>2, <2>3 DEF Reading
<1>12. Cut' /\ Walked' /\ DeskewExact'
  BY <1>1 DEF Cut, Walked, DeskewExact
<1> QED BY <1>9, <1>11, <1>12 DEF DeskewInv

\* Where nothing is repaired, an orderly message has ascending times.
LEMMA TimesAscend ==
  ASSUME NEW type \in AllTypes, NEW m \in Messages, Orderly(m),
         NEW i \in DOMAIN m, NEW j \in DOMAIN m, i <= j
  PROVE  TimeOf(type, m, i) <= TimeOf(type, m, j)
<1>1. 1 \in DOMAIN m /\ m[1].t \in Nat /\ m[i].t \in Nat /\ m[j].t \in Nat
  BY MessageType
<1>2. m[i].t <= m[j].t
  BY DEF Orderly
<1> QED BY <1>1, <1>2 DEF TimeOf

LEMMA ReadOtherInv ==
  ASSUME DeskewInv, ReadOther
  PROVE  DeskewInv'
<1>1. /\ stage = "read" /\ reading.n < Len(msg) /\ lidar_type # "AVIA"
      /\ UNCHANGED <<stage, lidar_type, msg, poses, walk, moved>>
  BY DEF ReadOther, Unread
<1>2. /\ msg \in Messages /\ Len(msg) \in Nat
      /\ reading.n \in Nat /\ reading.valid \in Nat /\ reading.last \in Int
      /\ cloud \in Seq(Int) /\ lidar_type \in AllTypes
      /\ DOMAIN msg = 1..Len(msg) /\ \A i \in DOMAIN msg : msg[i].t \in Nat
  BY <1>1, MessageType, DeskewAssumption DEF DeskewInv, DeskewTypeOK, Reading
<1>3. PICK n \in Nat : n = reading.n
  BY <1>2
<1>4. n + 1 \in DOMAIN msg /\ 1 \in DOMAIN msg /\ (n > 0 => n \in DOMAIN msg)
  BY <1>1, <1>2, <1>3
<1>5. PICK r \in Int : r = TimeOf(lidar_type, msg, n + 1)
  <2>1. msg[n + 1].t \in Int /\ msg[1].t \in Int
    BY <1>2, <1>4
  <2> QED BY <2>1 DEF TimeOf
<1>6. PointTime = r
  BY <1>3, <1>5 DEF PointTime, TimeOf, Point
<1>7. /\ reading' \in [n : Nat, valid : Nat, last : Int]
      /\ reading'.n = n + 1 /\ reading'.last = r
      /\ cloud' \in {cloud, Append(cloud, r)}
  <2>1. reading' = [n |-> n + 1, valid |-> reading.valid, last |-> r]
    BY <1>3, <1>6 DEF ReadOther
  <2>2. cloud' \in {cloud, Append(cloud, r)}
    BY <1>6 DEF ReadOther
  <2> QED BY <1>2, <2>1, <2>2
<1>8. DeskewTypeOK'
  <2>1. cloud' \in Seq(Int)
    <3>1. Append(cloud, r) \in Seq(Int)
      BY <1>2
    <3> QED BY <1>2, <1>7, <3>1
  <2> QED BY <1>1, <1>7, <2>1 DEF DeskewInv, DeskewTypeOK
<1>9. ASSUME Orderly(msg)
      PROVE  Ascending(cloud') /\ \A i \in DOMAIN cloud' : cloud'[i] <= r
  <2>1. Ascending(cloud)
    BY <1>1, <1>9 DEF DeskewInv, Reading
  <2>2. \A i \in DOMAIN cloud : cloud[i] <= r
    <3>1. CASE n = 0
      BY <1>1, <1>3, <3>1 DEF DeskewInv, Reading
    <3>2. CASE n > 0
      <4>1. PICK q \in Int : q = reading.last
        BY <1>2
      <4>2. q = TimeOf(lidar_type, msg, n) /\ \A i \in DOMAIN cloud : cloud[i] <= q
        BY <1>1, <1>3, <1>9, <3>2, <4>1 DEF DeskewInv, Reading
      <4>3. n <= n + 1
        OBVIOUS
      <4>4. q <= r
        BY <1>2, <1>4, <1>5, <1>9, <3>2, <4>2, <4>3, TimesAscend
      <4> QED BY <1>2, <4>2, <4>4
    <3> QED BY <3>1, <3>2
  <2>3. Ascending(Append(cloud, r)) /\ \A i \in DOMAIN Append(cloud, r) : Append(cloud, r)[i] <= r
    BY <1>2, <2>1, <2>2, AppendAscends
  <2> QED BY <1>7, <2>1, <2>2, <2>3
<1>10. Reading'
  <2>1. /\ msg' \in Messages /\ reading'.n \in 0..Len(msg') /\ reading'.n > 0
        /\ lidar_type' # "AVIA"
    BY <1>1, <1>2, <1>3, <1>7
  <2>2. reading'.last = TimeOf(lidar_type', msg', reading'.n)
    BY <1>1, <1>5, <1>7
  <2>3. Orderly(msg') => Orderly(msg)
    BY <1>1
  <2> QED BY <1>7, <1>9, <2>1, <2>2, <2>3 DEF Reading
<1>11. Cut' /\ Walked' /\ DeskewExact'
  BY <1>1 DEF Cut, Walked, DeskewExact
<1> QED BY <1>8, <1>10, <1>11 DEF DeskewInv

\* The handler ends: sorted, or as it was read.
LEMMA HandledInv ==
  ASSUME DeskewInv, Handled
  PROVE  DeskewInv'
<1>1. /\ stage = "read" /\ stage' = "cut" /\ msg \in Messages /\ cloud \in Seq(Int)
      /\ UNCHANGED <<lidar_type, msg, reading, poses, walk, moved>>
  BY DEF DeskewInv, DeskewTypeOK, Reading, Handled
<1>2. /\ cloud' \in Seq(Int)
      /\ Trusted => Ascending(cloud')
  <2>1. CASE lidar_type \in Sorting
    BY <1>1, <2>1, SortedType DEF Handled
  <2>2. CASE lidar_type \notin Sorting
    <3>1. cloud' = cloud
      BY <2>2 DEF Handled
    <3> QED BY <1>1, <2>2, <3>1 DEF DeskewInv, Reading, Trusted
  <2> QED BY <2>1, <2>2
<1>3. DeskewTypeOK'
  BY <1>1, <1>2 DEF DeskewInv, DeskewTypeOK
<1>4. Cut'
  BY <1>1, <1>2 DEF Cut, Trusted
<1>5. Reading' /\ Walked' /\ DeskewExact'
  BY <1>1 DEF Reading, Walked, DeskewExact
<1> QED BY <1>3, <1>4, <1>5 DEF DeskewInv

LEMMA TooShortInv ==
  ASSUME DeskewInv, TooShort
  PROVE  DeskewInv'
BY DEF DeskewInv, DeskewTypeOK, Reading, Cut, Walked, DeskewExact, TooShort

\* The walk starts behind the last point, at the last pose.
LEMMA PropagateInv ==
  ASSUME DeskewInv, NEW h \in Histories, Propagate(h)
  PROVE  DeskewInv'
<1>1. /\ stage = "cut" /\ stage' = "walk" /\ Len(cloud) > 1 /\ poses' = h
      /\ walk' = [head |-> Len(h), point |-> Len(cloud)]
      /\ moved' = [i \in DOMAIN cloud |-> 0]
      /\ UNCHANGED <<lidar_type, msg, reading, cloud>>
  BY DEF Propagate
<1>2. cloud \in Seq(Int) /\ DOMAIN cloud = 1..Len(cloud) /\ Len(cloud) \in Nat
  BY DEF DeskewInv, DeskewTypeOK
<1>3. h \in Seq(Int) /\ Len(h) \in Nat \ {0}
  BY HistoryType
<1>4. DeskewTypeOK'
  <2>1. moved' \in Seq(Nat)
    BY <1>1, <1>2
  <2> QED BY <1>1, <1>2, <1>3, <2>1 DEF DeskewInv, DeskewTypeOK
<1>5. Cut'
  BY <1>1 DEF DeskewInv, Cut, Trusted
<1>6. Walked'
  BY <1>1, <1>2, <1>3 DEF Walked
<1>7. Reading' /\ DeskewExact'
  BY <1>1 DEF Reading, DeskewExact
<1> QED BY <1>4, <1>5, <1>6, <1>7 DEF DeskewInv
-----------------------------------------------------------------------------
\* What is known while the walk is under way.
LEMMA Underway ==
  ASSUME DeskewInv, stage = "walk"
  PROVE  /\ cloud \in Seq(Int) /\ Len(cloud) \in Nat /\ DOMAIN cloud = 1..Len(cloud)
         /\ poses \in Histories /\ poses \in Seq(Int) /\ Len(poses) \in Nat \ {0}
         /\ DOMAIN poses = 1..Len(poses) /\ Ascending(poses)
         /\ moved \in [DOMAIN cloud -> Nat]
         /\ walk.head \in 0..Len(poses) /\ walk.point \in 1..Len(cloud)
         /\ Trusted => Ascending(cloud)
<1>1. poses \in Histories
  BY DEF DeskewInv, Walked
<1>2. poses \in Seq(Int) /\ Len(poses) \in Nat \ {0} /\ Ascending(poses)
  BY <1>1, HistoryType
<1>3. cloud \in Seq(Int)
  BY DEF DeskewInv, DeskewTypeOK
<1> QED BY <1>1, <1>2, <1>3 DEF DeskewInv, Walked, Cut

LEMMA NextPoseInv ==
  ASSUME DeskewInv, NextPose
  PROVE  DeskewInv'
<1>1. /\ stage = "walk" /\ walk.head > 0 /\ cloud[walk.point] < poses[walk.head]
      /\ UNCHANGED <<stage, lidar_type, msg, reading, cloud, poses, moved>>
  BY DEF NextPose, Walking, Here
<1>2. PICK h \in Nat \ {0}, p \in Nat : h = walk.head /\ p = walk.point
  BY <1>1, Underway
<1>3. walk' = [head |-> h - 1, point |-> p]
  BY <1>2 DEF NextPose, DeskewInv, DeskewTypeOK
<1>4. walk'.head = h - 1 /\ walk'.point = p /\ walk'.head + 1 = h
  BY <1>3
<1>5. DeskewTypeOK'
  BY <1>1, <1>2, <1>3 DEF DeskewInv, DeskewTypeOK
<1>6. Walked'
  <2>1. /\ poses' \in Histories /\ moved' \in [DOMAIN cloud' -> Nat]
        /\ walk'.head \in 0..Len(poses') /\ walk'.point \in 1..Len(cloud')
    BY SMTT(30), <1>1, <1>2, <1>4, Underway
  <2>2. ASSUME Trusted
        PROVE  /\ \A i \in DOMAIN cloud : i > p => Deskewed(i)
               /\ \A i \in DOMAIN cloud : i <= p => moved[i] = 0
               /\ cloud[p] < poses[h]
    BY <1>1, <1>2, <2>2 DEF DeskewInv, Walked
  <2>3. ASSUME NEW i, Deskewed(i) PROVE Deskewed(i)'
    BY <1>1, <2>3 DEF Deskewed, Covered
  <2>4. Trusted' => Trusted
    BY <1>1 DEF Trusted
  <2> QED BY <1>1, <1>4, <2>1, <2>2, <2>3, <2>4 DEF Walked
<1>7. Reading' /\ Cut' /\ DeskewExact'
  BY <1>1 DEF DeskewInv, Reading, Cut, Trusted, DeskewExact
<1> QED BY <1>5, <1>6, <1>7 DEF DeskewInv

\* One point is done, and the walk passes to the point before it or ends.
LEMMA PassedInv ==
  ASSUME DeskewInv, stage = "walk", Passed,
         UNCHANGED <<lidar_type, msg, reading, cloud, poses>>,
         moved' \in [DOMAIN cloud -> Nat],
         NEW p \in DOMAIN cloud, p = walk.point,
         Trusted => Deskewed(p)',
         \A i \in DOMAIN cloud : i # p => moved'[i] = moved[i]
  PROVE  DeskewInv'
<1>0. p \in Nat \ {0}
  BY Underway
<1>1. PICK h \in Nat : h = walk.head /\ p = walk.point
  BY Underway
<1>2. /\ cloud \in Seq(Int) /\ Len(cloud) \in Nat /\ DOMAIN cloud = 1..Len(cloud)
      /\ p \in DOMAIN cloud /\ h \in 0..Len(poses) /\ poses \in Histories
      /\ poses \in Seq(Int) /\ Len(poses) \in Nat
      /\ Trusted => Ascending(cloud)
  BY <1>1, Underway
<1>3. Trusted' <=> Trusted
  BY DEF Trusted
<1>4. ASSUME Trusted, NEW i \in DOMAIN cloud, i > p PROVE Deskewed(i)'
  <2>1. Deskewed(i) /\ moved'[i] = moved[i]
    BY <1>1, <1>4 DEF DeskewInv, Walked
  <2> QED BY <2>1 DEF Deskewed, Covered
<1>5. ASSUME Trusted, NEW i \in DOMAIN cloud, i < p PROVE moved'[i] = 0
  <2>1. i <= p /\ i # p
    BY <1>0, <1>2, <1>5
  <2>2. moved[i] = 0
    BY <1>1, <1>5, <2>1 DEF DeskewInv, Walked
  <2> QED BY <2>1, <2>2
<1>6. /\ Cut' /\ moved' \in Seq(Nat)
  <2>1. moved' \in Seq(Nat)
    BY <1>2
  <2>2. stage' \in {"walk", "done"}
    BY DEF Passed
  <2>3. msg \in Messages
    BY DEF DeskewInv, Cut
  <2> QED BY <1>2, <1>3, <2>1, <2>3 DEF Cut
<1>7. CASE p > 1
  <2>1. walk' = [head |-> h, point |-> p - 1] /\ stage' = "walk"
    BY <1>1, <1>7 DEF DeskewInv, DeskewTypeOK, Passed
  <2>2. walk'.head = h /\ walk'.point = p - 1
    BY <2>1
  <2>3. DeskewTypeOK'
    BY SMTT(30), <1>1, <1>6, <1>7, <2>1 DEF DeskewInv, DeskewTypeOK
  <2>4. ASSUME Trusted
        PROVE  /\ \A i \in DOMAIN cloud : i > p - 1 => Deskewed(i)'
               /\ \A i \in DOMAIN cloud : i <= p - 1 => moved'[i] = 0
               /\ h < Len(poses) => cloud[p - 1] < poses[h + 1]
    <3>1. ASSUME NEW i \in DOMAIN cloud, i > p - 1 PROVE Deskewed(i)'
      <4>1. CASE i = p
        BY <2>4, <4>1 DEF Deskewed, Covered
      <4>2. CASE i > p
        BY <1>4, <2>4, <4>2
      <4> QED BY <1>1, <1>2, <3>1, <4>1, <4>2
    <3>2. ASSUME NEW i \in DOMAIN cloud, i <= p - 1 PROVE moved'[i] = 0
      BY <1>2, <1>5, <2>4, <3>2
    <3>3. ASSUME h < Len(poses) PROVE cloud[p - 1] < poses[h + 1]
      <4>1. cloud[p] < poses[h + 1]
        BY <1>1, <2>4, <3>3 DEF DeskewInv, Walked
      <4>2. p - 1 \in DOMAIN cloud /\ p - 1 <= p
        BY <1>2, <1>7
      <4>3. cloud[p - 1] <= cloud[p]
        BY <1>2, <2>4, <4>2 DEF Ascending
      <4>4. cloud[p - 1] \in Int /\ cloud[p] \in Int /\ poses[h + 1] \in Int
        BY SMTT(30), <1>2, <3>3, <4>2
      <4> QED BY <4>1, <4>3, <4>4
    <3> QED BY <3>1, <3>2, <3>3
  <2>5. Walked'
    <3>1. /\ poses' \in Histories /\ moved' \in [DOMAIN cloud' -> Nat]
          /\ walk'.head \in 0..Len(poses') /\ walk'.point \in 1..Len(cloud')
      BY <1>2, <1>7, <2>2
    <3> QED BY <1>3, <2>1, <2>2, <2>4, <3>1 DEF Walked
  <2>6. Reading' /\ DeskewExact'
    BY <2>1 DEF Reading, DeskewExact
  <2> QED BY <1>6, <2>3, <2>5, <2>6 DEF DeskewInv
<1>8. CASE p = 1
  <2>1. walk' = walk /\ stage' = "done"
    BY <1>1, <1>8 DEF Passed
  <2>2. DeskewTypeOK'
    BY <1>6, <2>1 DEF DeskewInv, DeskewTypeOK
  <2>3. Walked'
    BY <1>1, <1>2, <2>1 DEF Walked
  <2>4. DeskewExact'
    <3>1. ASSUME Trusted, NEW i \in DOMAIN cloud PROVE Deskewed(i)'
      <4>1. CASE i = p
        BY <3>1, <4>1 DEF Deskewed, Covered
      <4>2. CASE i > p
        BY <1>4, <3>1, <4>2
      <4> QED BY <1>2, <1>8, <4>1, <4>2
    <3> QED BY <1>3, <3>1 DEF DeskewExact, Trusted, Deskewed
  <2>5. Reading'
    BY <2>1 DEF Reading
  <2> QED BY <1>6, <2>2, <2>3, <2>4, <2>5 DEF DeskewInv
<1> QED BY <1>0, <1>7, <1>8

LEMMA BeyondHistoryInv ==
  ASSUME DeskewInv, BeyondHistory
  PROVE  DeskewInv'
<1>1. /\ stage = "walk" /\ cloud[walk.point] > poses[Len(poses)] /\ Passed
      /\ UNCHANGED <<lidar_type, msg, reading, cloud, poses, moved>>
  BY DEF BeyondHistory, Walking, Here
<1>2. moved' \in [DOMAIN cloud -> Nat] /\ walk.point \in DOMAIN cloud
  BY <1>1, Underway
<1>3. PICK p \in DOMAIN cloud : p = walk.point
  BY <1>2
<1>4. Trusted => Deskewed(p)'
  <2>1. Trusted => moved[p] = 0
    BY <1>1, <1>3, Underway DEF DeskewInv, Walked
  <2>2. cloud[p] \in Int /\ poses[Len(poses)] \in Int
    BY <1>1, Underway
  <2>3. ~Covered(p)'
    BY <1>1, <1>3, <2>2 DEF Covered
  <2> QED BY <1>1, <2>1, <2>3 DEF Deskewed
<1> QED BY <1>1, <1>2, <1>3, <1>4, PassedInv

\* The last pose not after the point: the poses behind the walk are all later.
LEMMA CompensateInv ==
  ASSUME DeskewInv, Compensate
  PROVE  DeskewInv'
<1>1. /\ stage = "walk" /\ walk.head > 0 /\ Passed
      /\ cloud[walk.point] >= poses[walk.head] /\ cloud[walk.point] <= poses[Len(poses)]
      /\ moved' = [moved EXCEPT ![walk.point] = walk.head]
      /\ UNCHANGED <<lidar_type, msg, reading, cloud, poses>>
  BY DEF Compensate, Walking, Here
<1>2. PICK h \in Nat \ {0}, p \in DOMAIN cloud : h = walk.head /\ p = walk.point
  BY <1>1, Underway
<1>3. /\ moved' \in [DOMAIN cloud -> Nat] /\ moved'[p] = h
      /\ \A i \in DOMAIN cloud : i # p => moved'[i] = moved[i]
  BY <1>1, <1>2, Underway
<1>4. Trusted => Deskewed(p)'
  <2>1. /\ h \in DOMAIN poses /\ 1 \in DOMAIN poses /\ Len(poses) \in DOMAIN poses
        /\ \A i \in DOMAIN poses : poses[i] \in Int
        /\ DOMAIN poses = 1..Len(poses) /\ Len(poses) \in Nat
        /\ Ascending(poses) /\ cloud[p] \in Int
    BY <1>1, <1>2, Underway
  <2>2. ASSUME Trusted, NEW j \in DOMAIN poses, j > h PROVE cloud[p] < poses[j]
    <3>1. h + 1 \in DOMAIN poses /\ h + 1 <= j /\ h < Len(poses)
      BY <2>1, <2>2
    <3>2. cloud[p] < poses[h + 1]
      BY <1>1, <1>2, <2>2, <3>1 DEF DeskewInv, Walked
    <3>3. poses[h + 1] <= poses[j]
      BY <2>1, <3>1 DEF Ascending
    <3> QED BY <2>1, <3>1, <3>2, <3>3
  <2>3. poses[1] <= poses[h]
    BY <2>1 DEF Ascending
  <2>4. Covered(p)'
    BY <1>1, <1>2, <2>1, <2>3 DEF Covered
  <2> QED BY <1>1, <1>2, <1>3, <2>1, <2>2, <2>4 DEF Deskewed
<1> QED BY <1>1, <1>2, <1>3, <1>4, PassedInv

LEMMA HistoryExhaustedInv ==
  ASSUME DeskewInv, HistoryExhausted
  PROVE  DeskewInv'
<1>1. /\ stage = "walk" /\ walk.head = 0 /\ stage' = "done"
      /\ UNCHANGED <<lidar_type, msg, reading, cloud, poses, walk, moved>>
  BY DEF HistoryExhausted
<1>2. DeskewTypeOK' /\ Reading' /\ Cut' /\ Walked'
  BY <1>1 DEF DeskewInv, DeskewTypeOK, Reading, Cut, Walked, Trusted
<1>3. DeskewExact'
  <2>1. PICK p \in DOMAIN cloud : p = walk.point
    BY <1>1, Underway
  <2>2. ASSUME Trusted, NEW i \in DOMAIN cloud PROVE Deskewed(i)
    <3>1. CASE i > p
      BY <1>1, <2>1, <2>2, <3>1 DEF DeskewInv, Walked
    <3>2. CASE i <= p
      <4>1. moved[i] = 0
        BY <1>1, <2>1, <2>2, <3>2 DEF DeskewInv, Walked
      <4>2. cloud[p] < poses[1]
        BY <1>1, <2>1, <2>2, Underway DEF DeskewInv, Walked
      <4>3. cloud[i] <= cloud[p]
        BY <1>1, <2>1, <2>2, <3>2, Underway DEF Ascending
      <4>4. cloud[i] \in Int /\ cloud[p] \in Int /\ poses[1] \in Int
        BY <1>1, Underway
      <4>5. ~Covered(i)
        BY <4>2, <4>3, <4>4 DEF Covered
      <4> QED BY <4>1, <4>5 DEF Deskewed
    <3>3. i > p \/ i <= p
      BY <1>1, <2>1, Underway
    <3> QED BY <3>1, <3>2, <3>3
  <2> QED BY <1>1, <2>2 DEF DeskewExact, Trusted, Deskewed, Covered
<1> QED BY <1>2, <1>3 DEF DeskewInv

LEMMA PublishInv ==
  ASSUME DeskewInv, Publish
  PROVE  DeskewInv'
BY DEF DeskewInv, DeskewTypeOK, Reading, Cut, Walked, DeskewExact, Publish, NoWalk
-----------------------------------------------------------------------------
\* The invariant holds in every reachable state.
THEOREM DeskewInvariant == DeskewSpec => []DeskewInv
<1>1. DeskewInv /\ [DeskewNext]_deskewVars => DeskewInv'
  <2> SUFFICES ASSUME DeskewInv, [DeskewNext]_deskewVars PROVE DeskewInv'
    OBVIOUS
  <2>1. ASSUME NEW m \in Messages, Receive(m) PROVE DeskewInv'
    BY <2>1, ReceiveInv
  <2>2. CASE ReadAvia
    BY <2>2, ReadAviaInv
  <2>3. CASE ReadOther
    BY <2>3, ReadOtherInv
  <2>4. CASE Handled
    BY <2>4, HandledInv
  <2>5. CASE TooShort
    BY <2>5, TooShortInv
  <2>6. ASSUME NEW h \in Histories, Propagate(h) PROVE DeskewInv'
    BY <2>6, PropagateInv
  <2>7. CASE NextPose
    BY <2>7, NextPoseInv
  <2>8. CASE BeyondHistory
    BY <2>8, BeyondHistoryInv
  <2>9. CASE Compensate
    BY <2>9, CompensateInv
  <2>10. CASE HistoryExhausted
    BY <2>10, HistoryExhaustedInv
  <2>11. CASE Publish
    BY <2>11, PublishInv
  <2>12. CASE UNCHANGED deskewVars
    BY <2>12 DEF deskewVars, DeskewInv, DeskewTypeOK, Reading, Cut, Trusted, Walked,
       Deskewed, Covered, DeskewExact
  <2> QED BY <2>1, <2>2, <2>3, <2>4, <2>5, <2>6, <2>7, <2>8, <2>9, <2>10, <2>11, <2>12
    DEF DeskewNext
<1> QED BY <1>1, DeskewInitInv, PTL DEF DeskewSpec

\* Whatever a LiDAR sends and wherever the poses lie: a scan that the handler
\* sorts, or whose message is orderly, has each point that the history covers
\* moved by the last pose not after it, and no other point moved.
THEOREM EveryPointByItsPose == DeskewSpec => []DeskewExact
<1>1. DeskewInv => DeskewExact
  BY DEF DeskewInv
<1> QED BY <1>1, DeskewInvariant, PTL

-----------------------------------------------------------------------------
(* The pause of the fork harness: an acknowledgement the guard finds is one *)
(* of its own request, and the script keeps the input stopped until the     *)
(* guard reports done.                                                      *)

Handshakes == [files : SUBSET {"request", "ack", "done", "resumed"},
               guard : {"none", "cleared", "asked", "ready", "late", "reported",
                        "dropped", "leaving"},
               script : {"look", "stop", "tell", "resume", "gone"}, stopped : BOOLEAN]

Expecting == {"cleared", "asked", "ready", "late"}

\* Since the guard has removed the old files none of them has come back, but
\* the acknowledgement of a script that has stopped the input.
Answered(p) ==
  /\ p.guard \in Expecting =>
       /\ "done" \notin p.files
       /\ "ack" \in p.files => p.stopped /\ p.script = "look"
  /\ p.guard = "ready" => "ack" \in p.files

Nodes == [pc : {"spin", "fork", "produce", "capture", "release", "ended"},
          returning : BOOLEAN, time : Nat]

PauseInv ==
  /\ pause \in Handshakes
  /\ config.pauses => Answered(pause)
  /\ node \in Nodes
  /\ node.pc = "ended" => pause.guard = "none"

LEMMA PauseInvInit == ForkInit => PauseInv
<1> SUFFICES ASSUME ForkInit PROVE PauseInv
  OBVIOUS
<1>1. node = [pc |-> "spin", returning |-> FALSE, time |-> 0] /\ pause = NoPause
  BY Zenon DEF ForkInit
<1>2. node \in Nodes /\ node.pc # "ended"
  BY <1>1 DEF Nodes
<1>3. pause \in Handshakes /\ Answered(pause)
  BY <1>1 DEF NoPause, Handshakes, Answered, Expecting
<1> QED BY Zenon, <1>2, <1>3 DEF PauseInv

\* What the guard does to the handshake.
LEMMA GuardKeepsIt ==
  ASSUME pause \in Handshakes, config.pauses => Answered(pause),
         \/ Construct(config.pauses) \/ Ask \/ Acknowledged \/ GiveUp
         \/ ReportDone(config.pauses) \/ Withdraw \/ Leave
  PROVE  pause' \in Handshakes /\ (config.pauses => Answered(pause'))
<1>1. CASE Construct(config.pauses)
  BY <1>1 DEF Construct, Handshakes, Answered, Expecting
<1>2. CASE Ask
  BY <1>2 DEF Ask, Handshakes, Answered, Expecting
<1>3. CASE Acknowledged
  BY <1>3 DEF Acknowledged, Handshakes, Answered, Expecting
<1>4. CASE GiveUp
  BY <1>4 DEF GiveUp, Handshakes, Answered, Expecting
<1>5. CASE ReportDone(config.pauses)
  BY <1>5 DEF ReportDone, Held, Handshakes, Answered, Expecting
<1>6. CASE Withdraw
  BY <1>6 DEF Withdraw, Handshakes, Answered, Expecting
<1>7. CASE Leave
  BY <1>7 DEF Leave, Handshakes, Answered, Expecting
<1> QED BY <1>1, <1>2, <1>3, <1>4, <1>5, <1>6, <1>7

\* What the script does to it.
LEMMA ScriptKeepsIt ==
  ASSUME pause \in Handshakes, config.pauses => Answered(pause),
         SeeRequest \/ ScriptStep \/ (pause.guard = "none" /\ CleanUp)
  PROVE  /\ pause' \in Handshakes /\ pause'.guard = pause.guard
         /\ config.pauses => Answered(pause')
<1>1. CASE SeeRequest
  BY <1>1 DEF SeeRequest, Handshakes, Answered, Expecting
<1>2. CASE SeeDone
  BY <1>2 DEF SeeDone, Handshakes, Answered, Expecting
<1>3. CASE StopInput
  BY <1>3 DEF StopInput, Handshakes, Answered, Expecting
<1>4. CASE Acknowledge
  BY <1>4 DEF Acknowledge, Handshakes, Answered, Expecting
<1>5. CASE ResumeInput
  BY <1>5 DEF ResumeInput, Handshakes, Answered, Expecting
<1>6. CASE TellResumed
  BY <1>6 DEF TellResumed, Handshakes, Answered, Expecting
<1>7. CASE pause.guard = "none" /\ CleanUp
  BY <1>7 DEF CleanUp, Handshakes, Answered, Expecting
<1> QED BY <1>1, <1>2, <1>3, <1>4, <1>5, <1>6, <1>7 DEF ScriptStep

LEMMA PauseInvStep == PauseInv /\ [ForkNext]_forkVars => PauseInv'
<1> SUFFICES ASSUME PauseInv, [ForkNext]_forkVars PROVE PauseInv'
  OBVIOUS
<1>1. pause \in Handshakes /\ (config.pauses => Answered(pause)) /\ node \in Nodes
      /\ (node.pc = "ended" => pause.guard = "none")
  BY DEF PauseInv
\* the node goes on, the files stay as they are
<1>2. ASSUME UNCHANGED <<config, pause>>, node' \in Nodes, node'.pc # "ended"
      PROVE  PauseInv'
  BY <1>1, <1>2 DEF PauseInv
<1>3. CASE Sync
  <2>1. /\ UNCHANGED <<config, pause>> /\ node.time < MaxEvents
        /\ \E pc \in {"fork", "produce"} : node' = [node EXCEPT !.time = node.time + 1, !.pc = pc]
    BY Zenon, <1>3 DEF Sync
  <2>2. PICK pc \in {"fork", "produce"} : node' = [node EXCEPT !.time = node.time + 1, !.pc = pc]
    BY <2>1
  <2>3. node.time + 1 \in Nat /\ node.returning \in BOOLEAN
    BY <1>1 DEF Nodes
  <2>4. node' = [pc |-> pc, returning |-> node.returning, time |-> node.time + 1]
    BY <1>1, <2>2 DEF Nodes
  <2>5. node' \in Nodes /\ node'.pc # "ended"
    BY <2>3, <2>4 DEF Nodes
  <2> QED BY <1>2, <2>1, <2>5
<1>4. CASE Pausing \/ Releasing
  <2>1. /\ UNCHANGED <<config, node>> /\ node.pc # "ended"
        /\ \/ Construct(config.pauses) \/ Ask \/ Acknowledged \/ GiveUp
           \/ ReportDone(config.pauses) \/ Withdraw \/ Leave
    BY <1>4 DEF Pausing, Releasing, nodeVars
  <2>2. pause' \in Handshakes /\ (config.pauses => Answered(pause'))
    BY Zenon, <1>1, <2>1, GuardKeepsIt
  <2> QED BY Zenon, <1>1, <2>1, <2>2 DEF PauseInv
<1>5. CASE PauseRefused \/ Fork \/ ForkThrows \/ ProduceImage \/ ProduceScan
           \/ ProduceNothing \/ Capture
  <2>1. UNCHANGED <<config, pause>>
    BY Zenon, <1>5 DEF PauseRefused, Fork, ForkThrows, ProduceImage, ProduceScan,
                       ProduceNothing, Capture, nodeVars
  <2>2. \/ \E pc \in {"produce", "release", "capture"} : Goto(pc)
        \/ Return
    BY Zenon, <1>5 DEF PauseRefused, Fork, ForkThrows, ProduceImage, ProduceScan,
                       ProduceNothing, Capture
  <2>3. node' \in Nodes /\ node'.pc # "ended"
    BY <1>1, <2>2 DEF Goto, Return, Nodes
  <2> QED BY <1>2, <2>1, <2>3
<1>6. CASE Released
  <2>1. /\ UNCHANGED <<config, pause>> /\ pause.guard = "none"
        /\ \E pc \in {"ended", "spin"} : Goto(pc)
    BY Zenon, <1>6 DEF Released, nodeVars
  <2>2. node' \in Nodes
    BY <1>1, <2>1 DEF Goto, Nodes
  <2> QED BY Zenon, <1>1, <2>1, <2>2 DEF PauseInv
<1>7. CASE ScriptSeesRequest \/ ScriptGoesOn
  <2>1. /\ UNCHANGED <<config, node>>
        /\ SeeRequest \/ ScriptStep \/ (pause.guard = "none" /\ CleanUp)
    BY Zenon, <1>1, <1>7 DEF ScriptSeesRequest, ScriptGoesOn, nodeVars
  <2>2. /\ pause' \in Handshakes /\ pause'.guard = pause.guard
        /\ config.pauses => Answered(pause')
    BY Zenon, <1>1, <2>1, ScriptKeepsIt
  <2> QED BY Zenon, <1>1, <2>1, <2>2 DEF PauseInv
<1>8. CASE UNCHANGED forkVars
  BY Zenon, <1>1, <1>8 DEF forkVars, PauseInv
<1> QED BY Zenon, <1>3, <1>4, <1>5, <1>6, <1>7, <1>8 DEF ForkNext, NodeStep

\* Branches run and captures are taken on a stopped input only, also after an
\* acknowledgement that came too late for its request (CapturePauseGuard).
THEOREM HeldIsStopped == ForkSpec => [](Held /\ config.pauses => pause.stopped)
<1>1. PauseInv => (Held /\ config.pauses => pause.stopped)
  <2>1. \A p : Answered(p) /\ p.guard = "ready" => p.stopped
    BY Zenon DEF Answered, Expecting
  <2> QED BY Zenon, <2>1 DEF PauseInv, Held
<1> QED BY <1>1, PauseInvInit, PauseInvStep, PTL DEF ForkSpec

(***************************************************************************)
(* Numbers in order.                                                       *)
(***************************************************************************)
\* InKeyOrder lists a finite set of numbers, each once.
LEMMA KeyOrder ==
  ASSUME NEW S \in SUBSET Int, IsFiniteSet(S)
  PROVE  /\ Cardinality(S) \in Nat
         /\ InKeyOrder(S) \in [1..Cardinality(S) -> S]
         /\ \A k, n \in 1..Cardinality(S) : InKeyOrder(S)[k] = InKeyOrder(S)[n] => k = n
         /\ \A v \in S : \E k \in 1..Cardinality(S) : InKeyOrder(S)[k] = v
<1> DEFINE R == {e \in S \X S : e[1] < e[2]}
           Upto(v) == {w \in S : w <= v}
<1>1. Cardinality(S) \in Nat
  BY FS_CardinalityType
<1>2. \A x, y \in S : <<x, y>> \in R <=> x < y
  OBVIOUS
<1>3. Orders(R, S)
  <2> HIDE DEF R
  <2> QED BY <1>2 DEF Orders
<1>4. /\ \A x \in S : Cardinality(Preceding(S, R, x)) \in 0..Cardinality(S) - 1
      /\ \A x, y \in S : Cardinality(Preceding(S, R, x)) = Cardinality(Preceding(S, R, y))
                           => x = y
      /\ \A k \in 0..Cardinality(S) - 1 :
           \E x \in S : Cardinality(Preceding(S, R, x)) = k
  <2> HIDE DEF R
  <2>1. WellRanked(S, R)
    BY <1>3, RanksTaken
  <2> QED BY <2>1 DEF WellRanked
<1>5. \A v \in S : Cardinality(Upto(v)) = Cardinality(Preceding(S, R, v)) + 1
  <2> SUFFICES ASSUME NEW v \in S
               PROVE  Cardinality(Upto(v)) = Cardinality(Preceding(S, R, v)) + 1
    OBVIOUS
  <2> DEFINE P == Preceding(S, R, v)
  <2>1. P = {w \in S : w < v}
    <3> HIDE DEF R
    <3> QED BY <1>2 DEF Preceding
  <2>2. Upto(v) = P \cup {v} /\ v \notin P
    <3>1. \A w \in S : (w <= v <=> w < v \/ w = v) /\ ~(v < v)
      OBVIOUS
    <3> HIDE DEF P
    <3> QED BY <2>1, <3>1
  <2>3. P \in SUBSET S
    <3> HIDE DEF P
    <3> QED BY <2>1
  <2>4. IsFiniteSet(P)
    <3> HIDE DEF P
    <3> QED BY <2>3, FS_Subset
  <2> HIDE DEF P
  <2>5. Cardinality(P \cup {v}) = Cardinality(P) + 1
    BY <2>2, <2>4, AddRemove
  <2> QED BY <2>2, <2>5 DEF P
<1>6. /\ \A v \in S : Cardinality(Upto(v)) \in 1..Cardinality(S)
      /\ \A v, w \in S : Cardinality(Upto(v)) = Cardinality(Upto(w)) => v = w
      /\ \A k \in 1..Cardinality(S) : \E v \in S : Cardinality(Upto(v)) = k
  <2> HIDE DEF R, Upto
  <2>1. \A v \in S : Cardinality(Upto(v)) \in 1..Cardinality(S)
    <3> SUFFICES ASSUME NEW v \in S PROVE Cardinality(Upto(v)) \in 1..Cardinality(S)
      OBVIOUS
    <3>1. Cardinality(Preceding(S, R, v)) \in 0..Cardinality(S) - 1
      BY <1>4
    <3> QED BY <1>1, <1>5, <3>1
  <2>2. ASSUME NEW v \in S, NEW w \in S, Cardinality(Upto(v)) = Cardinality(Upto(w))
        PROVE  v = w
    <3>1. /\ Cardinality(Preceding(S, R, v)) \in 0..Cardinality(S) - 1
          /\ Cardinality(Preceding(S, R, w)) \in 0..Cardinality(S) - 1
      BY <1>4
    <3>2. Cardinality(Preceding(S, R, v)) = Cardinality(Preceding(S, R, w))
      BY <1>1, <1>5, <2>2, <3>1
    <3> QED BY <1>4, <3>2
  <2>3. ASSUME NEW k \in 1..Cardinality(S) PROVE \E v \in S : Cardinality(Upto(v)) = k
    <3>1. k - 1 \in 0..Cardinality(S) - 1
      BY <1>1
    <3>2. PICK v \in S : Cardinality(Preceding(S, R, v)) = k - 1
      BY <1>4, <3>1
    <3>3. Cardinality(Upto(v)) = (k - 1) + 1
      BY <1>5, <3>2
    <3>4. (k - 1) + 1 = k
      OBVIOUS
    <3> QED BY <3>3, <3>4
  <2> QED BY <2>1, <2>2, <2>3
<1> DEFINE v(k) == CHOOSE w \in S : Cardinality(Upto(w)) = k
<1>7. \A k \in 1..Cardinality(S) : v(k) \in S /\ Cardinality(Upto(v(k))) = k
  <2> HIDE DEF Upto
  <2> QED BY <1>6
<1>8. InKeyOrder(S) = [k \in 1..Cardinality(S) |-> v(k)]
  BY DEF InKeyOrder
<1> HIDE DEF Upto, v
<1>9. \A k, n \in 1..Cardinality(S) : v(k) = v(n) => k = n
  BY <1>7
<1>10. \A w \in S : v(Cardinality(Upto(w))) = w
  BY <1>6, <1>7
<1> QED BY <1>1, <1>6, <1>7, <1>8, <1>9, <1>10

\* The positions a subset of a sequence's positions picks are positions of it.
LEMMA PickedFrom ==
  ASSUME NEW X, NEW s \in Seq(X), NEW I \in SUBSET (DOMAIN s)
  PROVE  /\ Picked(s, I) \in Seq(X)
         /\ Len(Picked(s, I)) = Cardinality(I)
         /\ Cardinality(I) \in 0..Len(s)
         /\ \A k \in DOMAIN Picked(s, I) : \E i \in I : Picked(s, I)[k] = s[i]
<1>1. DOMAIN s = 1..Len(s) /\ Len(s) \in Nat
  OBVIOUS
<1>2. IsFiniteSet(DOMAIN s) /\ Cardinality(DOMAIN s) = Len(s)
  <2>1. \A n \in Nat : (IF 1 > n THEN 0 ELSE n - 1 + 1) = n
    OBVIOUS
  <2>2. \A n \in Nat : IsFiniteSet(1..n) /\ Cardinality(1..n) = IF 1 > n THEN 0 ELSE n - 1 + 1
    BY FS_Interval
  <2> QED BY <1>1, <2>1, <2>2
<1>3. IsFiniteSet(I) /\ Cardinality(I) <= Cardinality(DOMAIN s)
  BY <1>2, FS_Subset
<1>4. Cardinality(I) \in Nat
  BY <1>3, FS_CardinalityType
<1>5. Cardinality(I) \in 0..Len(s)
  BY <1>1, <1>2, <1>3, <1>4
<1>6. I \in SUBSET Int
  BY <1>1
<1>7. InKeyOrder(I) \in [1..Cardinality(I) -> I]
  BY <1>3, <1>6, KeyOrder
<1> DEFINE t == [k \in 1..Cardinality(I) |-> s[InKeyOrder(I)[k]]]
<1>8. \A k \in 1..Cardinality(I) : InKeyOrder(I)[k] \in I
  BY <1>7
<1>9. \A i \in I : s[i] \in X
  BY <1>1
<1>10. t \in [1..Cardinality(I) -> X]
  BY <1>8, <1>9
<1>11. Picked(s, I) = t
  BY DEF Picked
<1> HIDE DEF t
<1>12. t \in Seq(X) /\ Len(t) = Cardinality(I) /\ DOMAIN t = 1..Cardinality(I)
  BY <1>4, <1>10
<1>13. \A k \in DOMAIN t : t[k] = s[InKeyOrder(I)[k]]
  BY <1>12 DEF t
<1> QED BY <1>5, <1>8, <1>11, <1>12, <1>13

(***************************************************************************)
(* Paths in a tree.                                                        *)
(***************************************************************************)
LEMMA SubSeqIs ==
  \A X : \A s \in Seq(X) : \A n \in 0..Len(s) :
    /\ SubSeq(s, 1, n) \in Seq(X) /\ Len(SubSeq(s, 1, n)) = n
    /\ \A i \in 1..n : SubSeq(s, 1, n)[i] = s[i]
  OBVIOUS

LEMMA SameElements ==
  \A X : \A s, t \in Seq(X) : Len(s) = Len(t) /\ (\A i \in 1..Len(s) : s[i] = t[i]) => s = t
  BY SeqEqual

\* One path is a prefix of another iff it is not longer and agrees with it.
LEMMA PrefixIs ==
  ASSUME NEW X, NEW q \in Seq(X), NEW s \in Seq(X)
  PROVE  IsPrefix(q, s) <=> Len(q) <= Len(s) /\ \A i \in 1..Len(q) : q[i] = s[i]
<1>1. Len(q) \in Nat /\ Len(s) \in Nat
  OBVIOUS
<1>2. CASE Len(q) <= Len(s)
  <2>1. Len(q) \in 0..Len(q) /\ Len(q) \in 0..Len(s)
    BY <1>1, <1>2
  <2> DEFINE a == SubSeq(q, 1, Len(q))
             b == SubSeq(s, 1, Len(q))
  <2>2. /\ a \in Seq(X) /\ b \in Seq(X) /\ Len(a) = Len(q) /\ Len(b) = Len(q)
        /\ \A i \in 1..Len(q) : a[i] = q[i]
        /\ \A i \in 1..Len(q) : b[i] = s[i]
    BY <2>1, SubSeqIs
  <2> HIDE DEF a, b
  <2>3. a = b <=> \A i \in 1..Len(q) : a[i] = b[i]
    BY <2>2, SameElements
  <2>4. a = b <=> \A i \in 1..Len(q) : q[i] = s[i]
    BY <2>2, <2>3
  <2> QED BY <1>2, <2>4 DEF a, b, IsPrefix
<1>3. CASE ~(Len(q) <= Len(s))
  BY <1>3 DEF IsPrefix
<1> QED BY <1>2, <1>3

LEMMA PrefixesAre ==
  ASSUME NEW X, NEW s \in Seq(X)
  PROVE  Prefixes(s) = {q \in Seq(X) : IsPrefix(q, s)}
<1>1. Len(s) \in Nat
  OBVIOUS
<1>2. ASSUME NEW n \in 0..Len(s)
      PROVE  SubSeq(s, 1, n) \in Seq(X) /\ IsPrefix(SubSeq(s, 1, n), s)
  <2>1. /\ SubSeq(s, 1, n) \in Seq(X) /\ Len(SubSeq(s, 1, n)) = n
        /\ \A i \in 1..n : SubSeq(s, 1, n)[i] = s[i]
    BY SubSeqIs
  <2> DEFINE a == SubSeq(s, 1, n)
  <2>2. Len(a) <= Len(s)
    BY <1>1, <2>1
  <2> HIDE DEF a
  <2>3. IsPrefix(a, s)
    BY <2>1, <2>2, PrefixIs DEF a
  <2> QED BY <2>1, <2>3 DEF a
<1>3. ASSUME NEW q \in Seq(X), IsPrefix(q, s)
      PROVE  q \in Prefixes(s)
  <2>1. Len(q) \in 0..Len(s) /\ \A i \in 1..Len(q) : q[i] = s[i]
    BY <1>3, PrefixIs
  <2> DEFINE a == SubSeq(s, 1, Len(q))
  <2>2. a \in Seq(X) /\ Len(a) = Len(q) /\ \A i \in 1..Len(q) : a[i] = s[i]
    BY <2>1, SubSeqIs
  <2>3. a \in Prefixes(s)
    BY <2>1 DEF Prefixes
  <2> HIDE DEF a
  <2>4. a = q
    BY <2>1, <2>2, SameElements
  <2> QED BY <2>3, <2>4
<1>4. \A q \in Prefixes(s) : q \in Seq(X) /\ IsPrefix(q, s)
  BY <1>2 DEF Prefixes
<1> QED BY <1>3, <1>4

\* Prefixes are ordered, those of one path totally.
LEMMA PrefixOrder ==
  ASSUME NEW X
  PROVE  /\ \A q \in Seq(X) : IsPrefix(q, q) /\ IsPrefix(<<>>, q)
         /\ \A q, s \in Seq(X) : IsPrefix(q, s) /\ Len(q) = Len(s) => q = s
         /\ \A q, s \in Seq(X) : IsPrefix(q, s) => Len(q) <= Len(s)
         /\ \A q, s, t \in Seq(X) : IsPrefix(q, s) /\ IsPrefix(s, t) => IsPrefix(q, t)
         /\ \A q, s, t \in Seq(X) : IsPrefix(q, t) /\ IsPrefix(s, t) /\ Len(q) <= Len(s)
                                      => IsPrefix(q, s)
<1>1. <<>> \in Seq(X) /\ Len(<<>>) = 0 /\ \A q \in Seq(X) : Len(q) \in Nat
  OBVIOUS
<1>2. \A q \in Seq(X) : IsPrefix(q, q) /\ IsPrefix(<<>>, q)
  <2> SUFFICES ASSUME NEW q \in Seq(X) PROVE IsPrefix(q, q) /\ IsPrefix(<<>>, q)
    OBVIOUS
  <2>1. Len(q) <= Len(q) /\ Len(<<>>) <= Len(q) /\ 1..Len(<<>>) = {}
    BY <1>1
  <2>2. IsPrefix(q, q)
    BY <2>1, PrefixIs
  <2>3. PICK e \in Seq(X) : e = <<>>
    BY <1>1
  <2>4. IsPrefix(e, q)
    BY <2>1, <2>3, PrefixIs
  <2> QED BY <2>2, <2>3, <2>4
<1>3. \A q, s \in Seq(X) : IsPrefix(q, s) => Len(q) <= Len(s) /\ \A i \in 1..Len(q) : q[i] = s[i]
  BY PrefixIs
<1>4. \A q, s \in Seq(X) : IsPrefix(q, s) /\ Len(q) = Len(s) => q = s
  BY <1>3, SameElements
<1>5. ASSUME NEW q \in Seq(X), NEW s \in Seq(X), NEW t \in Seq(X),
             IsPrefix(q, s), IsPrefix(s, t)
      PROVE  IsPrefix(q, t)
  <2>1. Len(q) <= Len(s) /\ Len(s) <= Len(t) /\ Len(q) \in Nat /\ Len(s) \in Nat /\ Len(t) \in Nat
    BY <1>1, <1>3, <1>5
  <2>2. \A i \in 1..Len(q) : i \in 1..Len(s) /\ q[i] = s[i]
    BY <2>1, <1>3, <1>5
  <2>3. \A i \in 1..Len(s) : s[i] = t[i]
    BY <1>3, <1>5
  <2>4. \A i \in 1..Len(q) : q[i] = t[i]
    BY <2>2, <2>3
  <2>5. Len(q) <= Len(t)
    BY <2>1
  <2> QED BY <2>4, <2>5, PrefixIs
<1>6. ASSUME NEW q \in Seq(X), NEW s \in Seq(X), NEW t \in Seq(X),
             IsPrefix(q, t), IsPrefix(s, t), Len(q) <= Len(s)
      PROVE  IsPrefix(q, s)
  <2>1. Len(q) \in Nat /\ Len(s) \in Nat
    BY <1>1
  <2>2. \A i \in 1..Len(q) : i \in 1..Len(s) /\ q[i] = t[i]
    BY <2>1, <1>3, <1>6
  <2>3. \A i \in 1..Len(s) : s[i] = t[i]
    BY <1>3, <1>6
  <2>4. \A i \in 1..Len(q) : q[i] = s[i]
    BY <2>2, <2>3
  <2> QED BY <2>4, <1>6, PrefixIs
<1> QED BY <1>2, <1>3, <1>4, <1>5, <1>6

\* The parent of a path is its longest proper prefix.
LEMMA Parent ==
  ASSUME NEW X, NEW s \in Seq(X), s # <<>>
  PROVE  /\ Front(s) \in Seq(X) /\ Len(Front(s)) = Len(s) - 1 /\ Front(s) # s
         /\ IsPrefix(Front(s), s)
         /\ \A q \in Seq(X) : IsPrefix(q, s) /\ q # s => IsPrefix(q, Front(s))
<1>1. Len(s) \in Nat \ {0}
  OBVIOUS
<1>2. Len(s) - 1 \in 0..Len(s)
  BY <1>1
<1>3. /\ Front(s) \in Seq(X) /\ Len(Front(s)) = Len(s) - 1
      /\ \A i \in 1..Len(s) - 1 : Front(s)[i] = s[i]
  BY <1>2, SubSeqIs DEF Front
<1>4. Front(s) # s
  BY <1>1, <1>3
<1>5. IsPrefix(Front(s), s)
  BY <1>1, <1>3, PrefixIs
<1>6. ASSUME NEW q \in Seq(X), IsPrefix(q, s), q # s
      PROVE  IsPrefix(q, Front(s))
  <2>1. Len(q) \in Nat /\ Len(q) <= Len(s) /\ Len(q) # Len(s)
    BY <1>6, PrefixOrder
  <2>2. Len(q) <= Len(Front(s))
    BY <1>1, <1>3, <2>1
  <2> QED BY <1>3, <1>5, <1>6, <2>2, PrefixOrder
<1> QED BY <1>3, <1>4, <1>5, <1>6

\* A path has finitely many prefixes.
LEMMA PrefixesFinite ==
  ASSUME NEW X, NEW s \in Seq(X)
  PROVE  IsFiniteSet(Prefixes(s))
<1>1. Len(s) \in Nat /\ IsFiniteSet(0..Len(s))
  BY FS_Interval
<1> DEFINE f == [n \in 0..Len(s) |-> SubSeq(s, 1, n)]
<1>2. Prefixes(s) = {f[n] : n \in 0..Len(s)}
  BY DEF Prefixes
<1> HIDE DEF f
<1> QED BY <1>1, <1>2, ImageFinite

(***************************************************************************)
(* An octree as the map keeps it.                                          *)
(***************************************************************************)
Paths == {q \in Seq(Octants) : Len(q) <= MaxLayer}
MapPoints == [cell : Cells, surf : Surfaces, at : Nat]
Planes == [is : BOOLEAN, id : Nat \cup {None}, size : Nat, support : Seq(MapPoints)]
OctoNodes == [pts : Seq(MapPoints), new : Nat, init : BOOLEAN, open : BOOLEAN, plane : Planes]

Typed(tree) == DOMAIN tree \in SUBSET Paths /\ tree \in [DOMAIN tree -> OctoNodes]

\* Nothing is below q.
Barren(tree, q) == \A s \in DOMAIN tree : IsPrefix(q, s) => s = q

\* With a node there are all above it, and only a node that was initialized and
\* is no plane has any below it.
Shaped(tree) ==
  \A q \in DOMAIN tree :
    /\ \A s \in Seq(Octants) : IsPrefix(s, q) => s \in DOMAIN tree
    /\ ~tree[q].init \/ tree[q].plane.is => Barren(tree, q)

NodeOK(nd) ==
  /\ ~nd.open => nd.pts = <<>> /\ nd.init
  /\ ~nd.init => Len(nd.pts) <= Threshold /\ nd.plane = NoPlane

Numbered(tree, next) == OwnIds(tree) /\ \A i \in PlaneIds(tree) : i < next

\* The octree of one voxel, and the counter its ids were drawn from.
TreeInv(tree, next) ==
  /\ Typed(tree) /\ Shaped(tree) /\ Numbered(tree, next)
  /\ \A q \in DOMAIN tree : NodeOK(tree[q])

\* A tree from which new comes, with the ids that were given on the way.
Gave(tree, next, new) ==
  /\ TreeInv(new.tree, new.next) /\ new.next \in Nat /\ new.next >= next
  /\ PlaneIds(new.tree) \subseteq PlaneIds(tree) \cup next..new.next - 1

LEMMA CellsAre == \A c \in Cells : c \in Seq(Octants) /\ Len(c) = MaxLayer
  BY TreeAssumption DEF Cells

LEMMA TreeSound ==
  ASSUME NEW tree, NEW next, TreeInv(tree, next)
  PROVE  Sound(tree, next)
<1>1. TreeCoherent(tree)
  <2> SUFFICES ASSUME NEW q \in DOMAIN tree
               PROVE  /\ q # <<>> => Front(q) \in DOMAIN tree
                      /\ tree[q].plane.is => \A s \in DOMAIN tree : IsPrefix(q, s) => s = q
                      /\ ~tree[q].open => tree[q].pts = <<>> /\ tree[q].init
                      /\ ~tree[q].init => Len(tree[q].pts) <= Threshold
    BY DEF TreeCoherent
  <2>1. q \in Seq(Octants)
    BY DEF TreeInv, Typed, Paths
  <2>2. q # <<>> => Front(q) \in Seq(Octants) /\ IsPrefix(Front(q), q)
    BY <2>1, Parent
  <2>3. q # <<>> => Front(q) \in DOMAIN tree
    BY <2>2 DEF TreeInv, Shaped
  <2>4. tree[q].plane.is => \A s \in DOMAIN tree : IsPrefix(q, s) => s = q
    BY DEF TreeInv, Shaped, Barren
  <2>5. NodeOK(tree[q])
    BY DEF TreeInv
  <2> QED BY <2>3, <2>4, <2>5 DEF NodeOK
<1> QED BY <1>1 DEF TreeInv, Numbered, Sound

(***************************************************************************)
(* The points of a node and its plane.                                     *)
(***************************************************************************)
LEMMA WithinPoints ==
  ASSUME NEW pts \in Seq(MapPoints), NEW q
  PROVE  Within(pts, q) \in Seq(MapPoints) /\ Len(Within(pts, q)) \in Nat
<1>1. {i \in DOMAIN pts : IsPrefix(q, pts[i].cell)} \in SUBSET (DOMAIN pts)
  OBVIOUS
<1>2. Within(pts, q) \in Seq(MapPoints)
  BY <1>1, PickedFrom DEF Within
<1> QED BY <1>2

LEMMA NoPlaneIs ==
  /\ NoPlane \in Planes /\ EmptyNode \in OctoNodes
  /\ NoPlane.is = FALSE /\ NoPlane.id = None
  /\ EmptyNode.pts = <<>> /\ EmptyNode.new = 0 /\ EmptyNode.init = FALSE
  /\ EmptyNode.open = TRUE /\ EmptyNode.plane = NoPlane
<1>1. <<>> \in Seq(MapPoints)
  OBVIOUS
<1>2. NoPlane \in Planes /\ NoPlane.is = FALSE /\ NoPlane.id = None
  BY <1>1 DEF NoPlane, Planes
<1> QED BY <1>1, <1>2 DEF EmptyNode, OctoNodes

LEMMA FittedIs ==
  ASSUME NEW plane \in Planes, NEW pts \in Seq(MapPoints), NEW id \in Nat
  PROVE  /\ Fitted(plane, pts, id) \in Planes
         /\ Fitted(plane, pts, id).is = Flat(pts)
         /\ Fitted(plane, pts, id).id =
              IF Flat(pts) /\ plane.id = None THEN id ELSE plane.id
<1>1. Flat(pts) \in BOOLEAN /\ Len(pts) \in Nat /\ <<>> \in Seq(MapPoints)
  BY DEF Flat
<1>2. CASE Flat(pts)
  <2>1. Fitted(plane, pts, id) =
          [is |-> TRUE, id |-> IF plane.id = None THEN id ELSE plane.id,
           size |-> Len(pts), support |-> pts]
    BY <1>2 DEF Fitted
  <2>2. (IF plane.id = None THEN id ELSE plane.id) \in Nat \cup {None}
    BY DEF Planes
  <2> QED BY <1>1, <1>2, <2>1, <2>2 DEF Planes
<1>3. CASE ~Flat(pts)
  <2>1. Fitted(plane, pts, id) = [plane EXCEPT !.is = FALSE, !.size = Len(pts), !.support = <<>>]
    BY <1>3 DEF Fitted
  <2>2. Fitted(plane, pts, id) = [is |-> FALSE, id |-> plane.id, size |-> Len(pts), support |-> <<>>]
    BY <2>1 DEF Planes
  <2>3. plane.id \in Nat \cup {None}
    BY DEF Planes
  <2>4. Flat(pts) = FALSE
    BY <1>1, <1>3
  <2> DEFINE f == Fitted(plane, pts, id)
  <2>5. f \in Planes /\ f.is = FALSE /\ f.id = plane.id
    BY <1>1, <2>2, <2>3 DEF Planes
  <2> HIDE DEF f
  <2>6. f \in Planes /\ f.is = Flat(pts) /\ f.id = IF Flat(pts) /\ plane.id = None THEN id ELSE plane.id
    BY <1>3, <2>4, <2>5
  <2> QED BY <2>6 DEF f
<1> QED BY <1>1, <1>2, <1>3

LEMMA NodeOfIs ==
  ASSUME NEW pts \in Seq(MapPoints), NEW r, NEW q, NEW next,
         next + Cardinality({s \in NewPlanes(pts, r) : Before(s, q)}) \in Nat
  PROVE  LET nd == NodeOf(pts, r, q, next)
             flat == Enough(pts, q) /\ Flat(Within(pts, q))
         IN  /\ nd \in OctoNodes /\ NodeOK(nd)
             /\ nd.init = Enough(pts, q)
             /\ nd.plane.is = flat
             /\ nd.plane.id =
                  IF flat THEN next + Cardinality({s \in NewPlanes(pts, r) : Before(s, q)})
                  ELSE None
<1> DEFINE own   == Within(pts, q)
           id    == next + Cardinality({s \in NewPlanes(pts, r) : Before(s, q)})
           plane == Fitted(NoPlane, own, id)
           full  == plane.is /\ Len(own) > MaxPoints
           nd  == NodeOf(pts, r, q, next)
<1>1. own \in Seq(MapPoints) /\ Len(own) \in Nat
  BY WithinPoints
<1>2. Enough(pts, q) <=> Len(own) > Threshold
  BY DEF Enough
<1>3. plane \in Planes /\ plane.is = Flat(own) /\ plane.id = IF Flat(own) THEN id ELSE None
  <2> HIDE DEF own, id
  <2>1. id \in Nat
    BY DEF id
  <2> QED BY ZenonT(40), <1>1, <2>1, FittedIs, NoPlaneIs
<1>4. Threshold \in Nat /\ <<>> \in Seq(MapPoints)
  BY TreeAssumption
<1>5. Enough(pts, q) \in BOOLEAN /\ Flat(own) \in BOOLEAN
  BY <1>1, <1>4 DEF Enough, Flat
<1>6. CASE Enough(pts, q)
  <2>1. nd = [pts |-> IF full THEN <<>> ELSE own, new |-> 0, init |-> TRUE,
                open |-> ~full, plane |-> plane]
    BY <1>6 DEF NodeOf
  <2> HIDE DEF own, id, plane, full, nd
  <2>2. /\ nd.pts = (IF full THEN <<>> ELSE own) /\ nd.init = TRUE
        /\ nd.open = ~full /\ nd.plane = plane /\ full \in BOOLEAN
    BY <2>1 DEF full
  <2>3. nd \in OctoNodes
    BY <2>1, <1>1, <1>3, <1>4 DEF OctoNodes, full
  <2>4. NodeOK(nd)
    BY <2>2 DEF NodeOK
  <2> QED BY <1>3, <1>5, <1>6, <2>2, <2>3, <2>4 DEF own, id, nd
<1>7. CASE ~Enough(pts, q)
  <2>1. nd = [EmptyNode EXCEPT !.pts = own, !.new = Len(own)]
    BY <1>7 DEF NodeOf
  <2> HIDE DEF own, id, plane, full, nd
  <2>2. nd = [pts |-> own, new |-> Len(own), init |-> FALSE, open |-> TRUE, plane |-> NoPlane]
    BY <2>1 DEF EmptyNode
  <2>3. nd \in OctoNodes
    BY <2>2, <1>1, NoPlaneIs DEF OctoNodes
  <2>4. nd.pts = own /\ nd.init = FALSE /\ nd.open = TRUE /\ nd.plane = NoPlane
    BY <2>2
  <2>5. Len(own) <= Threshold
    BY <1>1, <1>2, <1>4, <1>7
  <2>6. NodeOK(nd)
    BY <2>4, <2>5 DEF NodeOK
  <2>7. Enough(pts, q) = FALSE
    BY <1>5, <1>7
  <2> QED BY <1>7, <2>3, <2>4, <2>6, <2>7, NoPlaneIs DEF own, nd
<1> QED BY <1>6, <1>7

(***************************************************************************)
(* The nodes init_octo_tree allocates.                                     *)
(***************************************************************************)
LEMMA GrownIs ==
  ASSUME NEW pts \in Seq(MapPoints), NEW r \in Seq(Octants)
  PROVE  /\ Grown(pts, r) \in SUBSET Paths /\ IsFiniteSet(Grown(pts, r))
         /\ \A q \in Grown(pts, r) : IsPrefix(r, q)
         /\ \A q \in Grown(pts, r), s \in Seq(Octants) :
              IsPrefix(r, s) /\ IsPrefix(s, q) => s \in Grown(pts, r) /\ (s # q => Splits(pts, s))
<1> DEFINE G == Grown(pts, r)
           U == UNION {Prefixes(pts[i].cell) : i \in DOMAIN pts}
<1>1. /\ \A i \in DOMAIN pts : pts[i].cell \in Seq(Octants)
      /\ DOMAIN pts = 1..Len(pts) /\ Len(pts) \in Nat
  <2>1. \A i \in DOMAIN pts : pts[i] \in MapPoints
    OBVIOUS
  <2> QED BY <2>1, CellsAre DEF MapPoints
<1>2. /\ \A q \in G : q \in U /\ IsPrefix(r, q) /\ Len(q) <= MaxLayer
      /\ \A q \in G : \A s \in Prefixes(q) \ {q} : IsPrefix(r, s) => Splits(pts, s)
      /\ \A q \in U : /\ IsPrefix(r, q) /\ Len(q) <= MaxLayer
                      /\ \A s \in Prefixes(q) \ {q} : IsPrefix(r, s) => Splits(pts, s)
                      => q \in G
  BY DEF Grown
<1>3. U \in SUBSET Seq(Octants)
  BY <1>1, PrefixesAre
<1>4. G \in SUBSET Paths
  BY <1>2, <1>3 DEF Paths
<1>5. IsFiniteSet(G)
  <2> DEFINE f == [i \in DOMAIN pts |-> Prefixes(pts[i].cell)]
             F == {f[i] : i \in DOMAIN pts}
  <2>1. IsFiniteSet(DOMAIN pts)
    BY <1>1, FS_Interval
  <2>2. \A i \in DOMAIN pts : IsFiniteSet(f[i])
    BY <1>1, PrefixesFinite
  <2>3. U = UNION F
    OBVIOUS
  <2>4. IsFiniteSet(F)
    <3> HIDE DEF f
    <3> QED BY <2>1, ImageFinite
  <2>5. \A T \in F : IsFiniteSet(T)
    <3> HIDE DEF f
    <3> QED BY <2>2
  <2> HIDE DEF F
  <2>6. IsFiniteSet(UNION F)
    BY <2>4, <2>5, FS_UNION
  <2>7. G \in SUBSET U
    BY <1>2
  <2> HIDE DEF G, U
  <2> QED BY <2>3, <2>6, <2>7, FS_Subset
<1>6. ASSUME NEW q \in G, NEW s \in Seq(Octants), IsPrefix(r, s), IsPrefix(s, q)
      PROVE  s \in G /\ (s # q => Splits(pts, s))
  <2> HIDE DEF G, U
  <2>1. q \in Seq(Octants) /\ q \in U
    BY <1>2, <1>3
  <2>2. PICK i \in DOMAIN pts : q \in Prefixes(pts[i].cell)
    BY <2>1 DEF U
  <2>3. IsPrefix(q, pts[i].cell)
    BY <1>1, <2>2, PrefixesAre
  <2>4. IsPrefix(s, pts[i].cell)
    BY <1>1, <1>6, <2>1, <2>2, <2>3, PrefixOrder
  <2>5. s \in U
    BY <1>1, <2>2, <2>4, PrefixesAre DEF U
  <2>6. Len(s) <= Len(q) /\ Len(s) \in Nat /\ Len(q) \in Nat /\ Len(q) <= MaxLayer
    BY <1>2, <1>6, <2>1, PrefixOrder
  <2>7. Len(s) <= MaxLayer
    BY <2>6, TreeAssumption
  <2>8. \A t \in Prefixes(s) \ {s} : t \in Prefixes(q) \ {q}
    <3> SUFFICES ASSUME NEW t \in Prefixes(s) \ {s}
                 PROVE  t \in Prefixes(q) \ {q}
      OBVIOUS
    <3>1. t \in Seq(Octants) /\ IsPrefix(t, s)
      BY PrefixesAre
    <3>2. IsPrefix(t, q)
      BY <1>6, <2>1, <3>1, PrefixOrder
    <3>3. t # q
      <4> SUFFICES ASSUME t = q PROVE FALSE
        OBVIOUS
      <4>1. Len(q) <= Len(s)
        BY <3>1, PrefixOrder
      <4>2. Len(s) = Len(q)
        BY <2>6, <4>1
      <4>3. s = q
        BY <1>6, <2>1, <4>2, PrefixOrder
      <4> QED BY <4>3
    <3> QED BY <2>1, <3>1, <3>2, <3>3, PrefixesAre
  <2>9. \A t \in Prefixes(s) \ {s} : IsPrefix(r, t) => Splits(pts, t)
    BY <1>2, <2>8
  <2>10. s \in G
    BY <1>2, <1>6, <2>5, <2>7, <2>9
  <2>11. s # q => Splits(pts, s)
    BY <1>2, <1>6, <2>1, PrefixesAre
  <2> QED BY <2>10, <2>11
<1> QED BY <1>2, <1>4, <1>5, <1>6

LEMMA GrownRoot ==
  ASSUME NEW pts \in Seq(MapPoints), NEW r \in Paths,
         \E i \in DOMAIN pts : IsPrefix(r, pts[i].cell)
  PROVE  r \in Grown(pts, r)
<1>1. PICK i \in DOMAIN pts : IsPrefix(r, pts[i].cell)
  OBVIOUS
<1>2. pts[i] \in MapPoints
  BY <1>1
<1>3. pts[i].cell \in Seq(Octants) /\ r \in Seq(Octants) /\ Len(r) <= MaxLayer
  BY <1>2, CellsAre DEF MapPoints, Paths
<1>4. r \in Prefixes(pts[i].cell)
  BY <1>1, <1>3, PrefixesAre
<1>5. r \in UNION {Prefixes(pts[j].cell) : j \in DOMAIN pts}
  BY <1>1, <1>4
<1>6. IsPrefix(r, r)
  BY <1>3, PrefixOrder
<1>7. \A s \in Prefixes(r) \ {r} : ~IsPrefix(r, s)
  <2> SUFFICES ASSUME NEW s \in Prefixes(r) \ {r}, IsPrefix(r, s) PROVE FALSE
    OBVIOUS
  <2>1. s \in Seq(Octants) /\ IsPrefix(s, r)
    BY <1>3, PrefixesAre
  <2>2. Len(s) <= Len(r) /\ Len(r) <= Len(s) /\ Len(s) \in Nat /\ Len(r) \in Nat
    BY <1>3, <2>1, PrefixOrder
  <2>3. Len(r) = Len(s)
    BY <2>2
  <2> QED BY <1>3, <2>1, <2>3, PrefixOrder
<1> QED BY <1>3, <1>5, <1>6, <1>7 DEF Grown

(***************************************************************************)
(* The order of their planes.                                              *)
(***************************************************************************)
\* Of two paths of which none is above the other, one is before the other.
LEMMA BeforeTotal ==
  ASSUME NEW a \in Seq(Octants), NEW b \in Seq(Octants), ~IsPrefix(a, b), ~IsPrefix(b, a)
  PROVE  Before(a, b) \/ Before(b, a)
<1> DEFINE D == {i \in DOMAIN a \cap DOMAIN b : a[i] # b[i]}
<1>1. /\ DOMAIN a = 1..Len(a) /\ DOMAIN b = 1..Len(b) /\ Len(a) \in Nat /\ Len(b) \in Nat
      /\ \A i \in DOMAIN a : a[i] \in Int
      /\ \A i \in DOMAIN b : b[i] \in Int
  BY DEF Octants
<1>2. D # {}
  <2> SUFFICES ASSUME D = {} PROVE FALSE
    OBVIOUS
  <2>1. CASE Len(a) <= Len(b)
    <3>1. \A i \in 1..Len(a) : a[i] = b[i]
      BY <1>1, <2>1
    <3> QED BY <2>1, <3>1, PrefixIs
  <2>2. CASE Len(b) <= Len(a)
    <3>1. \A i \in 1..Len(b) : b[i] = a[i]
      BY <1>1, <2>2
    <3> QED BY <2>2, <3>1, PrefixIs
  <2> QED BY <1>1, <2>1, <2>2
<1>3. D \in SUBSET Nat
  BY <1>1
<1>4. PICK i \in D : \A j \in D : i <= j
  <2> HIDE DEF D
  <2> QED BY <1>2, <1>3, LeastElement
<1>5. i \in DOMAIN a \cap DOMAIN b /\ a[i] # b[i] /\ i \in Nat
  BY <1>1, <1>4
<1>6. \A j \in 1..(i - 1) : a[j] = b[j] /\ b[j] = a[j]
  <2> SUFFICES ASSUME NEW j \in 1..(i - 1) PROVE a[j] = b[j]
    OBVIOUS
  <2>1. j \in DOMAIN a \cap DOMAIN b /\ ~(i <= j)
    BY <1>1, <1>5
  <2> QED BY <1>4, <2>1
<1>7. a[i] < b[i] \/ b[i] < a[i]
  BY <1>1, <1>5
<1> HIDE DEF D
<1>8. CASE a[i] < b[i]
  BY <1>5, <1>6, <1>8 DEF Before
<1>9. CASE b[i] < a[i]
  BY <1>5, <1>6, <1>9 DEF Before
<1> QED BY <1>7, <1>8, <1>9

LEMMA BeforeOrders ==
  /\ \A a \in Seq(Octants) : ~Before(a, a)
  /\ \A a, b, c \in Seq(Octants) : Before(a, b) /\ Before(b, c) => Before(a, c)
<1>1. \A a \in Seq(Octants) : DOMAIN a \in SUBSET Nat /\ \A i \in DOMAIN a : a[i] \in Int
  BY DEF Octants
<1>2. \A a \in Seq(Octants) : ~Before(a, a)
  <2> SUFFICES ASSUME NEW a \in Seq(Octants), Before(a, a) PROVE FALSE
    OBVIOUS
  <2>1. PICK i \in DOMAIN a : a[i] < a[i]
    BY DEF Before
  <2> QED BY <1>1, <2>1
<1>3. ASSUME NEW a \in Seq(Octants), NEW b \in Seq(Octants), NEW c \in Seq(Octants),
             Before(a, b), Before(b, c)
      PROVE  Before(a, c)
  <2>1. PICK i \in DOMAIN a \cap DOMAIN b :
               a[i] < b[i] /\ \A k \in 1..(i - 1) : a[k] = b[k]
    BY <1>3 DEF Before
  <2>2. PICK j \in DOMAIN b \cap DOMAIN c :
               b[j] < c[j] /\ \A k \in 1..(j - 1) : b[k] = c[k]
    BY <1>3 DEF Before
  <2>3. /\ i \in Nat /\ j \in Nat /\ a[i] \in Int /\ b[i] \in Int /\ b[j] \in Int /\ c[j] \in Int
        /\ i \in DOMAIN a /\ i \in DOMAIN b /\ j \in DOMAIN b /\ j \in DOMAIN c
    BY <1>1, <2>1, <2>2
  <2>4. \A s \in Seq(Octants) : DOMAIN s = 1..Len(s) /\ Len(s) \in Nat
    OBVIOUS
  <2>5. CASE i < j
    <3>1. i \in 1..(j - 1) /\ i \in DOMAIN c /\ \A k \in 1..(i - 1) : k \in 1..(j - 1)
      BY <2>3, <2>4, <2>5
    <3>2. b[i] = c[i] /\ \A k \in 1..(i - 1) : a[k] = c[k]
      BY <2>1, <2>2, <3>1
    <3>3. a[i] < c[i]
      BY <2>1, <3>2
    <3> QED BY <2>3, <3>1, <3>2, <3>3 DEF Before
  <2>6. CASE i = j
    <3>1. a[i] < c[i]
      BY <2>1, <2>2, <2>3, <2>6, <1>1
    <3>2. \A k \in 1..(i - 1) : a[k] = c[k]
      BY <2>1, <2>2, <2>6
    <3> QED BY <2>3, <2>6, <3>1, <3>2 DEF Before
  <2>7. CASE j < i
    <3>1. j \in 1..(i - 1) /\ j \in DOMAIN a /\ \A k \in 1..(j - 1) : k \in 1..(i - 1)
      BY <2>3, <2>4, <2>7
    <3>2. a[j] = b[j] /\ \A k \in 1..(j - 1) : a[k] = c[k]
      BY <2>1, <2>2, <3>1
    <3>3. a[j] < c[j]
      BY <2>2, <3>2
    <3> QED BY <2>3, <3>1, <3>2, <3>3 DEF Before
  <2> QED BY <2>3, <2>5, <2>6, <2>7
<1> QED BY <1>2, <1>3

\* The planes fitted on the way down get the next ids, each one of its own.
Rank(pts, r, q) == Cardinality({s \in NewPlanes(pts, r) : Before(s, q)})

LEMMA NewPlaneIds ==
  ASSUME NEW pts \in Seq(MapPoints), NEW r \in Seq(Octants)
  PROVE  /\ Cardinality(NewPlanes(pts, r)) \in Nat
         /\ \A q \in NewPlanes(pts, r) : Rank(pts, r, q) \in 0..Cardinality(NewPlanes(pts, r)) - 1
         /\ \A q, s \in NewPlanes(pts, r) : Rank(pts, r, q) = Rank(pts, r, s) => q = s
         /\ \A q : Rank(pts, r, q) \in Nat
<1> DEFINE N == NewPlanes(pts, r)
           R == {e \in N \X N : Before(e[1], e[2])}
<1>1. /\ N \in SUBSET Grown(pts, r) /\ IsFiniteSet(N)
      /\ \A q \in N : Flat(Within(pts, q)) /\ IsPrefix(r, q) /\ q \in Seq(Octants)
  <2>1. N \in SUBSET Grown(pts, r) /\ \A q \in N : Flat(Within(pts, q))
    BY DEF NewPlanes
  <2> HIDE DEF N
  <2> QED BY <2>1, GrownIs, FS_Subset DEF Paths
<1>2. \A a, b \in N : a # b => ~IsPrefix(a, b)
  <2> SUFFICES ASSUME NEW a \in N, NEW b \in N, a # b, IsPrefix(a, b) PROVE FALSE
    OBVIOUS
  <2> HIDE DEF N
  <2>1. Splits(pts, a)
    BY <1>1, GrownIs
  <2> QED BY <1>1, <2>1 DEF Splits
<1>3. \A a, b \in N : <<a, b>> \in R <=> Before(a, b)
  OBVIOUS
<1> HIDE DEF N, R
<1>4. Orders(R, N)
  <2>1. \A x \in N : <<x, x>> \notin R
    BY <1>1, <1>3, BeforeOrders
  <2>2. \A x, y \in N : x # y => <<x, y>> \in R \/ <<y, x>> \in R
    BY <1>1, <1>2, <1>3, BeforeTotal
  <2>3. \A x, y, z \in N : <<x, y>> \in R /\ <<y, z>> \in R => <<x, z>> \in R
    BY <1>1, <1>3, BeforeOrders
  <2> QED BY <2>1, <2>2, <2>3 DEF Orders
<1>5. WellRanked(N, R)
  BY <1>1, <1>4, RanksTaken
<1>6. \A q \in N : Preceding(N, R, q) = {s \in N : Before(s, q)}
  BY <1>3 DEF Preceding
<1>7. \A q \in N : Rank(pts, r, q) = Cardinality(Preceding(N, R, q))
  BY <1>6 DEF Rank, N
<1>8. Cardinality(N) \in Nat
  BY <1>1, FS_CardinalityType
<1>9. ASSUME NEW q PROVE Rank(pts, r, q) \in Nat
  <2>1. {s \in N : Before(s, q)} \in SUBSET N
    OBVIOUS
  <2>2. IsFiniteSet({s \in N : Before(s, q)})
    BY <1>1, <2>1, FS_Subset
  <2> QED BY <2>2, FS_CardinalityType DEF Rank, N
<1>10. \A q \in N : Rank(pts, r, q) \in 0..Cardinality(N) - 1
  BY <1>5, <1>7 DEF WellRanked
<1>11. \A q, s \in N : Rank(pts, r, q) = Rank(pts, r, s) => q = s
  BY <1>5, <1>7 DEF WellRanked
<1> QED BY <1>8, <1>9, <1>10, <1>11 DEF N

(***************************************************************************)
(* init_octo_tree: whatever points a leaf holds, what comes of it is an    *)
(* octree, and the ids it takes are the next of the counter.               *)
(***************************************************************************)
\* The leaf r holds points and has not been looked at.
Awaiting(tree, r, next) ==
  /\ Typed(tree) /\ Shaped(tree) /\ Numbered(tree, next) /\ next \in Nat
  /\ r \in DOMAIN tree /\ \A q \in DOMAIN tree \ {r} : NodeOK(tree[q])
  /\ ~tree[r].init /\ tree[r].open /\ tree[r].plane = NoPlane
  /\ Len(tree[r].pts) > Threshold => \E i \in DOMAIN tree[r].pts : IsPrefix(r, tree[r].pts[i].cell)

\* What InitTree makes of it, when it does anything.
Split(tree, r, next) ==
  [q \in Grown(tree[r].pts, r) \cup DOMAIN tree |->
     IF q \in Grown(tree[r].pts, r) THEN NodeOf(tree[r].pts, r, q, next) ELSE tree[q]]

LEMMA IdsOfTyped ==
  ASSUME NEW tree, Typed(tree)
  PROVE  PlaneIds(tree) \in SUBSET Nat
BY DEF Typed, PlaneIds, OctoNodes, Planes

Fit(pts, q) == Enough(pts, q) /\ Flat(Within(pts, q))
SplitInto(pts, tree, r, next, new) ==
  /\ pts \in Seq(MapPoints) /\ r \in Paths /\ r \in Grown(pts, r)
  /\ DOMAIN new = Grown(pts, r) \cup DOMAIN tree /\ Typed(new)
  /\ \A q \in Grown(pts, r) :
       /\ NodeOK(new[q]) /\ new[q].init = Enough(pts, q)
       /\ new[q].plane.is = Fit(pts, q)
       /\ new[q].plane.id = IF Fit(pts, q) THEN next + Rank(pts, r, q) ELSE None
  /\ \A q \in DOMAIN tree \ Grown(pts, r) : new[q] = tree[q] /\ q # r /\ NodeOK(new[q])

LEMMA SplitNodes ==
  ASSUME NEW tree, NEW r, NEW next, Awaiting(tree, r, next), Len(tree[r].pts) > Threshold
  PROVE  SplitInto(tree[r].pts, tree, r, next, Split(tree, r, next))
<1> DEFINE pts == tree[r].pts
           new == Split(tree, r, next)
           G   == Grown(pts, r)
<1>1. r \in Paths /\ tree[r] \in OctoNodes /\ \A q \in DOMAIN tree : tree[q] \in OctoNodes
  BY DEF Awaiting, Typed
<1>2. pts \in Seq(MapPoints)
  BY <1>1 DEF OctoNodes
<1>3. r \in G
  <2>1. \E i \in DOMAIN pts : IsPrefix(r, pts[i].cell)
    BY DEF Awaiting
  <2> HIDE DEF pts
  <2> QED BY <1>1, <1>2, <2>1, GrownRoot
<1>4. G \in SUBSET Paths
  <2> HIDE DEF pts
  <2> QED BY <1>1, <1>2, GrownIs DEF Paths
<1>5. /\ DOMAIN new = G \cup DOMAIN tree
      /\ \A q \in G : new[q] = NodeOf(pts, r, q, next)
      /\ \A q \in DOMAIN tree \ G : new[q] = tree[q]
      /\ new = [q \in DOMAIN new |-> new[q]]
  <2> DEFINE Of(q) == IF q \in G THEN NodeOf(pts, r, q, next) ELSE tree[q]
  <2>1. new = [q \in G \cup DOMAIN tree |-> Of(q)]
    BY DEF Split
  <2>2. /\ \A q \in G : Of(q) = NodeOf(pts, r, q, next)
        /\ \A q \in DOMAIN tree \ G : Of(q) = tree[q]
    OBVIOUS
  <2> HIDE DEF new, G, Of
  <2> QED BY <2>1, <2>2
<1>6. ASSUME NEW q \in G
      PROVE  /\ new[q] \in OctoNodes /\ NodeOK(new[q]) /\ new[q].init = Enough(pts, q)
             /\ new[q].plane.is = Fit(pts, q)
             /\ new[q].plane.id = IF Fit(pts, q) THEN next + Rank(pts, r, q) ELSE None
  <2> DEFINE nd == NodeOf(pts, r, q, next)
  <2> HIDE DEF pts
  <2>1. next + Rank(pts, r, q) \in Nat
    BY <1>1, <1>2, NewPlaneIds DEF Awaiting, Paths
  <2>2. next + Cardinality({s \in NewPlanes(pts, r) : Before(s, q)}) \in Nat
    BY <2>1 DEF Rank
  <2>3. /\ nd \in OctoNodes /\ NodeOK(nd) /\ nd.init = Enough(pts, q)
        /\ nd.plane.is = Fit(pts, q)
        /\ nd.plane.id = IF Fit(pts, q) THEN next + Rank(pts, r, q) ELSE None
    BY <1>2, <2>2, NodeOfIs DEF Rank, Fit
  <2>4. new[q] = nd
    BY <1>5
  <2> HIDE DEF new, nd
  <2> QED BY <2>3, <2>4
<1>7. \A q \in DOMAIN tree \ G : new[q] \in OctoNodes /\ q # r /\ NodeOK(new[q])
  <2> HIDE DEF new, G
  <2> QED BY <1>1, <1>3, <1>5 DEF Awaiting
<1>8. Typed(new)
  <2> HIDE DEF new, G
  <2>1. DOMAIN new \in SUBSET Paths
    BY <1>4, <1>5 DEF Awaiting, Typed
  <2>2. \A q \in DOMAIN new : new[q] \in OctoNodes
    BY <1>5, <1>6, <1>7
  <2>3. new \in [DOMAIN new -> OctoNodes]
    BY <1>5, <2>2
  <2> QED BY <2>1, <2>3 DEF Typed
<1> HIDE DEF new, G
<1>9. \A q \in G : /\ NodeOK(new[q]) /\ new[q].init = Enough(pts, q)
                   /\ new[q].plane.is = Fit(pts, q)
                   /\ new[q].plane.id = IF Fit(pts, q) THEN next + Rank(pts, r, q) ELSE None
  BY <1>6
<1> QED BY <1>1, <1>2, <1>3, <1>5, <1>7, <1>8, <1>9 DEF G, new, SplitInto

LEMMA SplitShape ==
  ASSUME NEW tree, NEW r, NEW next, Awaiting(tree, r, next), Len(tree[r].pts) > Threshold
  PROVE  Shaped(Split(tree, r, next))
<1> DEFINE pts == tree[r].pts
           new == Split(tree, r, next)
           G   == Grown(pts, r)
<1>1. /\ pts \in Seq(MapPoints) /\ r \in Paths /\ r \in G
      /\ DOMAIN new = G \cup DOMAIN tree
      /\ \A q \in G : new[q].init = Enough(pts, q) /\ new[q].plane.is = Fit(pts, q)
      /\ \A q \in DOMAIN tree \ G : new[q] = tree[q]
  <2>1. SplitInto(tree[r].pts, tree, r, next, Split(tree, r, next))
    BY SplitNodes
  <2> QED BY <2>1, Zenon DEF SplitInto
<1>2. r \in Seq(Octants) /\ DOMAIN tree \in SUBSET Seq(Octants) /\ Shaped(tree)
  BY <1>1 DEF Awaiting, Typed, Paths
<1>3. Barren(tree, r) /\ r \in DOMAIN tree
  BY <1>2 DEF Awaiting, Shaped
<1> HIDE DEF pts, new
<1>4. /\ G \in SUBSET Seq(Octants) /\ \A q \in G : IsPrefix(r, q)
      /\ \A q \in G, s \in Seq(Octants) :
              IsPrefix(r, s) /\ IsPrefix(s, q) => s \in G /\ (s # q => Splits(pts, s))
  BY <1>1, <1>2, GrownIs DEF Paths
<1> HIDE DEF G
<1>5. \A s \in DOMAIN new : s \in Seq(Octants)
  BY <1>1, <1>2, <1>4
<1>6. ASSUME NEW q \in DOMAIN new, NEW s \in Seq(Octants), IsPrefix(s, q)
      PROVE  s \in DOMAIN new
  <2>1. CASE q \in G
    <3>1. IsPrefix(r, q) /\ q \in Seq(Octants) /\ Len(r) \in Nat /\ Len(s) \in Nat
      BY <1>2, <1>4, <2>1
    <3>2. CASE Len(r) <= Len(s)
      <4>1. IsPrefix(r, s)
        BY <1>2, <1>6, <3>1, <3>2, PrefixOrder
      <4> QED BY <1>1, <1>4, <1>6, <2>1, <4>1
    <3>3. CASE Len(s) <= Len(r)
      <4>1. IsPrefix(s, r)
        BY <1>2, <1>6, <3>1, <3>3, PrefixOrder
      <4> QED BY <1>1, <1>2, <1>3, <4>1 DEF Shaped
    <3> QED BY <3>1, <3>2, <3>3
  <2>2. CASE q \in DOMAIN tree
    BY <1>1, <1>2, <1>6, <2>2 DEF Shaped
  <2> QED BY <1>1, <2>1, <2>2
<1>7. ASSUME NEW q \in DOMAIN new, ~new[q].init \/ new[q].plane.is,
             NEW s \in DOMAIN new, IsPrefix(q, s)
      PROVE  s = q
  <2>1. CASE q \in G
    <3>1. ~Splits(pts, q)
      BY <1>1, <1>7, <2>1 DEF Splits, Fit
    <3>2. IsPrefix(r, q) /\ q \in Seq(Octants) /\ s \in Seq(Octants)
      BY <1>4, <1>5, <2>1
    <3>3. CASE s \in G
      BY <1>4, <1>7, <3>1, <3>2, <3>3
    <3>4. CASE s \in DOMAIN tree
      <4>1. IsPrefix(r, s)
        BY <1>2, <1>7, <3>2, PrefixOrder
      <4>2. s = r
        BY <1>3, <3>4, <4>1 DEF Barren
      <4> QED BY <1>1, <3>3, <4>2
    <3> QED BY <1>1, <3>3, <3>4
  <2>2. CASE q \notin G
    <3>1. q \in DOMAIN tree /\ new[q] = tree[q] /\ Barren(tree, q)
      BY <1>1, <1>2, <1>7, <2>2 DEF Shaped
    <3>2. CASE s \in DOMAIN tree
      BY <1>7, <3>1, <3>2 DEF Barren
    <3>3. CASE s \in G
      <4>1. IsPrefix(r, s) /\ s \in Seq(Octants) /\ q \in Seq(Octants)
        BY <1>2, <1>4, <3>1, <3>3
      <4>2. Len(r) \in Nat /\ Len(q) \in Nat
        BY <1>2, <4>1
      <4>3. CASE Len(r) <= Len(q)
        <5>1. IsPrefix(r, q)
          BY <1>2, <1>7, <4>1, <4>3, PrefixOrder
        <5> QED BY <1>1, <1>3, <2>2, <3>1, <5>1 DEF Barren
      <4>4. CASE Len(q) <= Len(r)
        <5>1. IsPrefix(q, r)
          BY <1>2, <1>7, <4>1, <4>4, PrefixOrder
        <5> QED BY <1>1, <1>3, <2>2, <3>1, <5>1 DEF Barren
      <4> QED BY <4>2, <4>3, <4>4
    <3> QED BY <1>1, <3>2, <3>3
  <2> QED BY <2>1, <2>2
<1>8. Shaped(new)
  BY <1>6, <1>7 DEF Shaped, Barren
<1> QED BY <1>8 DEF new

LEMMA SplitIds ==
  ASSUME NEW tree, NEW r, NEW next, Awaiting(tree, r, next), Len(tree[r].pts) > Threshold
  PROVE  LET last == next + Cardinality(NewPlanes(tree[r].pts, r))
         IN  /\ last \in Nat /\ last >= next /\ Numbered(Split(tree, r, next), last)
             /\ PlaneIds(Split(tree, r, next)) \subseteq PlaneIds(tree) \cup next..last - 1
<1> DEFINE pts == tree[r].pts
           new == Split(tree, r, next)
           G   == Grown(pts, r)
           N   == NewPlanes(pts, r)
           last == next + Cardinality(N)
<1>1. /\ pts \in Seq(MapPoints) /\ r \in Paths /\ r \in G
      /\ DOMAIN new = G \cup DOMAIN tree
      /\ \A q \in G : new[q].plane.id = IF Fit(pts, q) THEN next + Rank(pts, r, q) ELSE None
      /\ \A q \in DOMAIN tree \ G : new[q] = tree[q] /\ q # r
  <2>1. SplitInto(tree[r].pts, tree, r, next, Split(tree, r, next))
    BY SplitNodes
  <2> QED BY <2>1, Zenon DEF SplitInto
<1>2. r \in Seq(Octants) /\ next \in Nat /\ Numbered(tree, next) /\ Typed(tree)
  BY <1>1 DEF Awaiting, Paths
<1>3. \A q \in G : q \in N <=> Fit(pts, q)
  BY DEF NewPlanes, Fit
<1> HIDE DEF pts, new
<1>4. /\ Cardinality(N) \in Nat
      /\ \A q \in N : Rank(pts, r, q) \in 0..Cardinality(N) - 1
      /\ \A q, s \in N : Rank(pts, r, q) = Rank(pts, r, s) => q = s
  BY <1>1, <1>2, NewPlaneIds
<1>5. \A q \in G : new[q].plane.id = IF q \in N THEN next + Rank(pts, r, q) ELSE None
  BY <1>1, <1>3
<1> HIDE DEF N, G
<1>6. last \in Nat /\ last >= next
  BY <1>2, <1>4
<1>7. PICK C \in Nat : C = Cardinality(N)
  BY <1>4
<1>8. \A q \in G : /\ q \in N => new[q].plane.id \in next..last - 1
                   /\ q \notin N => new[q].plane.id = None
  <2>1. \A k \in 0..C - 1 : next + k \in next..(next + C) - 1
    BY <1>2, <1>7
  <2>2. \A q \in N : next + Rank(pts, r, q) \in next..last - 1
    BY <1>4, <1>7, <2>1
  <2> QED BY <1>5, <2>2
<1>9. \A q \in DOMAIN tree \ G :
        new[q].plane.id \in PlaneIds(tree) \cup {None}
  BY <1>1 DEF PlaneIds
<1>10. PlaneIds(new) \subseteq PlaneIds(tree) \cup next..last - 1
  BY <1>1, <1>8, <1>9 DEF PlaneIds
<1>11. \A i \in PlaneIds(tree) : i \in Nat /\ i < next
  BY <1>2, IdsOfTyped DEF Numbered
<1>12. \A i \in PlaneIds(new) : i < last
  <2>1. \A i \in next..last - 1 : i < last
    BY <1>2, <1>6
  <2>2. \A i \in Nat : i < next => i < last
    BY <1>2, <1>6
  <2> QED BY <1>10, <1>11, <2>1, <2>2
<1>13. OwnIds(new)
  <2> SUFFICES ASSUME NEW q \in DOMAIN new, NEW s \in DOMAIN new,
                      new[q].plane.id = new[s].plane.id, new[q].plane.id # None
               PROVE  q = s
    BY DEF OwnIds
  <2>1. None \notin next..last - 1 /\ \A i \in next..last - 1 : ~(i < next)
    BY <1>2, <1>6, TreeAssumption
  <2>2. \A t \in DOMAIN tree \ G : new[t].plane.id # None => new[t].plane.id < next
    BY <1>9, <1>11
  <2>3. CASE q \in G /\ s \in G
    <3>1. q \in N /\ s \in N
      BY <1>8, <2>3
    <3>2. next + Rank(pts, r, q) = next + Rank(pts, r, s)
      BY <1>5, <2>3, <3>1
    <3>3. \A a, b \in 0..C - 1 : next + a = next + b => a = b
      BY <1>2
    <3>4. Rank(pts, r, q) = Rank(pts, r, s)
      BY <1>4, <1>7, <3>1, <3>2, <3>3
    <3> QED BY <1>4, <3>1, <3>4
  <2>4. CASE q \in G /\ s \notin G
    <3>1. q \in N /\ s \in DOMAIN tree \ G
      BY <1>1, <1>8, <2>4
    <3> QED BY <1>8, <2>1, <2>2, <2>4, <3>1
  <2>5. CASE q \notin G /\ s \in G
    <3>1. s \in N /\ q \in DOMAIN tree \ G
      BY <1>1, <1>8, <2>5
    <3> QED BY <1>8, <2>1, <2>2, <2>5, <3>1
  <2>6. CASE q \notin G /\ s \notin G
    <3>1. q \in DOMAIN tree /\ s \in DOMAIN tree /\ new[q] = tree[q] /\ new[s] = tree[s]
      BY <1>1, <2>6
    <3> QED BY <1>2, <3>1 DEF Numbered, OwnIds
  <2> QED BY <2>3, <2>4, <2>5, <2>6
<1>14. Numbered(new, last)
  BY <1>12, <1>13 DEF Numbered
<1> QED BY <1>6, <1>10, <1>14 DEF N, new, pts

LEMMA InitGives ==
  ASSUME NEW tree, NEW r, NEW next, Awaiting(tree, r, next)
  PROVE  Gave(tree, next, InitTree(tree, r, next))
<1> DEFINE pts == tree[r].pts
           last == next + Cardinality(NewPlanes(pts, r))
           init == InitTree(tree, r, next)
<1>1. tree[r] \in OctoNodes /\ next \in Nat /\ r \in DOMAIN tree
  BY DEF Awaiting, Typed
<1>2. Len(pts) \in Nat /\ Threshold \in Nat
  BY <1>1, TreeAssumption DEF OctoNodes
<1>3. CASE Len(pts) <= Threshold
  <2>1. init = [tree |-> tree, next |-> next]
    BY <1>3 DEF InitTree
  <2>2. init.tree = tree /\ init.next = next
    BY <2>1
  <2>3. NodeOK(tree[r])
    BY <1>3 DEF NodeOK, Awaiting
  <2>4. TreeInv(tree, next)
    BY <2>3 DEF TreeInv, Awaiting
  <2> HIDE DEF init
  <2>5. init.next >= next
    BY <1>1, <2>2
  <2> QED BY <1>1, <2>2, <2>4, <2>5 DEF Gave, init
<1>4. CASE Len(pts) > Threshold
  <2>1. init = [tree |-> Split(tree, r, next), next |-> last]
    BY <1>2, <1>4 DEF InitTree, Split
  <2>2. init.tree = Split(tree, r, next) /\ init.next = last
    BY <2>1
  <2> DEFINE new == Split(tree, r, next)
  <2>3. Typed(new) /\ \A q \in DOMAIN new : NodeOK(new[q])
    <3> HIDE DEF new
    <3>1. /\ DOMAIN new = Grown(pts, r) \cup DOMAIN tree /\ Typed(new)
          /\ \A q \in Grown(pts, r) : NodeOK(new[q])
          /\ \A q \in DOMAIN tree \ Grown(pts, r) : NodeOK(new[q])
      BY <1>4, SplitNodes DEF new, SplitInto
    <3> HIDE DEF pts
    <3> QED BY <3>1
  <2>4. Shaped(new)
    BY <1>4, SplitShape
  <2>5. /\ last \in Nat /\ last >= next /\ Numbered(new, last)
        /\ PlaneIds(new) \subseteq PlaneIds(tree) \cup next..last - 1
    BY <1>4, SplitIds
  <2> HIDE DEF new, last
  <2>6. TreeInv(new, last)
    BY <2>3, <2>4, <2>5 DEF TreeInv
  <2> HIDE DEF init
  <2>7. init.tree = new /\ init.next = last
    BY <2>2 DEF new, last
  <2> QED BY <2>5, <2>6, <2>7 DEF Gave, init
<1> QED BY <1>2, <1>3, <1>4

(***************************************************************************)
(* UpdateOctoTree: one more point.                                         *)
(***************************************************************************)
LEMMA PutIs ==
  ASSUME NEW tree, NEW q, NEW nd
  PROVE  /\ DOMAIN Put(tree, q, nd) = DOMAIN tree \cup {q}
         /\ Put(tree, q, nd)[q] = nd
         /\ \A s \in DOMAIN tree \ {q} : Put(tree, q, nd)[s] = tree[s]
         /\ Put(tree, q, nd) = [s \in DOMAIN tree \cup {q} |-> Put(tree, q, nd)[s]]
BY DEF Put

LEMMA PutTyped ==
  ASSUME NEW tree, Typed(tree), NEW q \in Paths, NEW nd \in OctoNodes
  PROVE  Typed(Put(tree, q, nd))
<1> DEFINE new == Put(tree, q, nd)
<1>1. /\ DOMAIN new = DOMAIN tree \cup {q} /\ new[q] = nd
      /\ \A s \in DOMAIN tree \ {q} : new[s] = tree[s]
      /\ new = [s \in DOMAIN new |-> new[s]]
  BY DEF Put
<1> HIDE DEF new
<1>2. \A s \in DOMAIN new : new[s] \in OctoNodes
  BY <1>1 DEF Typed
<1>3. DOMAIN new \in SUBSET Paths
  BY <1>1 DEF Typed
<1> QED BY <1>1, <1>2, <1>3 DEF Typed, new

\* The node that takes a point: there is one, and none above it does.
LEMMA TargetIs ==
  ASSUME NEW tree, NEW cell \in Cells
  PROVE  LET q == Target(tree, cell)
         IN  /\ q \in Paths /\ IsPrefix(q, cell) /\ Takes(tree, q)
             /\ \A s \in Seq(Octants) : IsPrefix(s, q) /\ s # q => ~Takes(tree, s)
<1>1. cell \in Seq(Octants) /\ Len(cell) = MaxLayer /\ MaxLayer \in Nat
  BY CellsAre, TreeAssumption
<1> DEFINE A == {s \in Prefixes(cell) : Takes(tree, s)}
           L == {Len(s) : s \in A}
<1>2. \A s \in Prefixes(cell) : s \in Seq(Octants) /\ Len(s) \in Nat /\ IsPrefix(s, cell)
  BY <1>1, PrefixesAre
<1>3. cell \in A
  <2>1. cell \in Prefixes(cell)
    BY <1>1, PrefixesAre, PrefixOrder
  <2> QED BY <1>1, <2>1 DEF Takes
<1>4. L \in SUBSET Nat /\ L # {}
  BY <1>2, <1>3
<1>5. PICK n \in L : \A m \in L : n <= m
  <2> HIDE DEF L
  <2> QED BY <1>4, LeastElement
<1>6. PICK q \in A : Len(q) = n
  BY <1>5
<1>7. \A s \in A : Len(q) <= Len(s)
  BY <1>5, <1>6
<1>8. q \in Prefixes(cell) /\ Takes(tree, q) /\ \A s \in Prefixes(q) \ {q} : ~Takes(tree, s)
  <2>1. q \in Seq(Octants) /\ IsPrefix(q, cell)
    BY <1>2, <1>6
  <2> SUFFICES ASSUME NEW s \in Prefixes(q) \ {q}, Takes(tree, s) PROVE FALSE
    BY <1>6
  <2>2. s \in Seq(Octants) /\ IsPrefix(s, q) /\ s # q
    BY <2>1, PrefixesAre
  <2>3. IsPrefix(s, cell)
    BY <1>1, <2>1, <2>2, PrefixOrder
  <2>4. s \in A
    BY <1>1, <2>2, <2>3, PrefixesAre
  <2>5. Len(q) <= Len(s) /\ Len(s) <= Len(q)
    BY <1>7, <2>1, <2>2, <2>4, PrefixOrder
  <2>6. Len(s) = Len(q)
    BY <2>1, <2>2, <2>5
  <2> QED BY <2>1, <2>2, <2>6, PrefixOrder
<1> DEFINE t == Target(tree, cell)
<1>9. t \in Prefixes(cell) /\ Takes(tree, t) /\ \A s \in Prefixes(t) \ {t} : ~Takes(tree, s)
  BY <1>8 DEF Target
<1> HIDE DEF t
<1>10. t \in Seq(Octants) /\ IsPrefix(t, cell)
  BY <1>2, <1>9
<1>11. Len(t) <= MaxLayer
  BY <1>1, <1>10, PrefixOrder
<1>12. \A s \in Seq(Octants) : IsPrefix(s, t) /\ s # t => ~Takes(tree, s)
  BY <1>9, <1>10, PrefixesAre
<1> QED BY <1>9, <1>10, <1>11, <1>12 DEF Paths, t

\* q can take a point: what the lemmas below need of it.
Taking(tree, q) ==
  /\ q \in Paths /\ Takes(tree, q)
  /\ \A s \in Seq(Octants) : IsPrefix(s, q) /\ s # q => ~Takes(tree, s)

LEMMA PutShape ==
  ASSUME NEW tree, NEW next, TreeInv(tree, next), NEW q, Taking(tree, q),
         NEW nd \in OctoNodes, ~nd.init => q \notin DOMAIN tree \/ ~tree[q].init
  PROVE  Shaped(Put(tree, q, nd))
<1> DEFINE new == Put(tree, q, nd)
<1>1. /\ DOMAIN new = DOMAIN tree \cup {q} /\ new[q] = nd
      /\ \A s \in DOMAIN tree \ {q} : new[s] = tree[s]
  BY DEF Put
<1> HIDE DEF new
<1>2. Shaped(tree) /\ Typed(tree) /\ DOMAIN tree \in SUBSET Seq(Octants) /\ q \in Seq(Octants)
  BY DEF TreeInv, Typed, Taking, Paths
<1>3. ASSUME NEW t \in DOMAIN new, NEW s \in Seq(Octants), IsPrefix(s, t)
      PROVE  s \in DOMAIN new
  <2>1. CASE t = q
    BY <1>1, <1>3, <2>1 DEF Taking, Takes
  <2>2. CASE t \in DOMAIN tree
    BY <1>1, <1>2, <1>3, <2>2 DEF Shaped
  <2> QED BY <1>1, <2>1, <2>2
<1>4. ASSUME NEW s \in DOMAIN tree, IsPrefix(q, s)
      PROVE  s = q
  <2>1. q \in DOMAIN tree
    BY <1>2, <1>4 DEF Shaped
  <2>2. CASE ~tree[q].init \/ tree[q].plane.is
    BY <1>2, <1>4, <2>1, <2>2 DEF Shaped, Barren
  <2>3. CASE tree[q].init /\ ~tree[q].plane.is
    <3>1. Len(q) = MaxLayer
      BY <2>1, <2>3 DEF Taking, Takes
    <3>2. s \in Seq(Octants) /\ Len(s) <= MaxLayer /\ Len(s) \in Nat
      BY <1>2 DEF Typed, Paths
    <3>3. Len(q) <= Len(s) /\ Len(q) \in Nat
      BY <1>2, <1>4, <3>2, PrefixOrder
    <3>4. Len(q) = Len(s)
      BY <3>1, <3>2, <3>3
    <3> QED BY <1>2, <1>4, <3>2, <3>4, PrefixOrder
  <2> QED BY <2>2, <2>3
<1>5. ASSUME NEW t \in DOMAIN new, ~new[t].init \/ new[t].plane.is,
             NEW s \in DOMAIN new, IsPrefix(t, s)
      PROVE  s = t
  <2>1. CASE t = q
    BY <1>1, <1>4, <1>5, <2>1
  <2>2. CASE t # q
    <3>1. t \in DOMAIN tree /\ new[t] = tree[t] /\ Barren(tree, t)
      BY <1>1, <1>2, <1>5, <2>2 DEF Shaped
    <3>2. CASE s \in DOMAIN tree
      BY <1>5, <3>1, <3>2 DEF Barren
    <3>3. CASE s = q
      <4>1. ~Takes(tree, t)
        BY <1>2, <1>5, <2>2, <3>1, <3>3 DEF Taking
      <4> QED BY <1>5, <3>1, <4>1 DEF Takes
    <3> QED BY <1>1, <3>2, <3>3
  <2> QED BY <2>1, <2>2
<1>6. Shaped(new)
  BY <1>3, <1>5 DEF Shaped, Barren
<1> QED BY <1>6 DEF new

\* A node whose plane has a new id, the old one or none.
LEMMA PutIds ==
  ASSUME NEW tree, NEW next \in Nat, TreeInv(tree, next), NEW q, NEW nd, NEW after \in Nat,
         \/ nd.plane.id = None /\ after = next
         \/ q \in DOMAIN tree /\ nd.plane.id = tree[q].plane.id /\ after = next
         \/ nd.plane.id = next /\ after = next + 1
  PROVE  /\ Numbered(Put(tree, q, nd), after) /\ after >= next
         /\ PlaneIds(Put(tree, q, nd)) \subseteq PlaneIds(tree) \cup next..after - 1
<1> DEFINE new == Put(tree, q, nd)
<1>1. /\ DOMAIN new = DOMAIN tree \cup {q} /\ new[q] = nd
      /\ \A s \in DOMAIN tree \ {q} : new[s] = tree[s]
  BY DEF Put
<1> HIDE DEF new
<1>2. Numbered(tree, next) /\ Typed(tree)
  BY DEF TreeInv
<1>3. \A i \in PlaneIds(tree) : i \in Nat /\ i < next
  BY <1>2, IdsOfTyped DEF Numbered
<1>4. after >= next /\ \A i \in Nat : i < next => i < after
  OBVIOUS
<1>5. \A s \in DOMAIN tree \ {q} : new[s].plane.id \in PlaneIds(tree) \cup {None}
  BY <1>1 DEF PlaneIds
<1>6. None \notin Nat
  BY TreeAssumption
<1>7. new[q].plane.id \in PlaneIds(tree) \cup {None} \/ (new[q].plane.id = next /\ after = next + 1)
  BY <1>1 DEF PlaneIds
<1>8. PlaneIds(new) \subseteq PlaneIds(tree) \cup next..after - 1
  <2>1. after = next + 1 => next \in next..after - 1
    OBVIOUS
  <2> QED BY <1>1, <1>5, <1>7, <2>1 DEF PlaneIds
<1>9. \A i \in PlaneIds(new) : i < after
  <2>1. \A i \in next..after - 1 : i < after
    OBVIOUS
  <2> QED BY <1>3, <1>4, <1>8, <2>1
<1>10. OwnIds(new)
  <2>1. ASSUME NEW s \in DOMAIN tree \ {q}, new[s].plane.id = new[q].plane.id
        PROVE  new[q].plane.id = None
    <3>1. CASE nd.plane.id = None
      BY <1>1, <3>1
    <3>2. CASE q \in DOMAIN tree /\ nd.plane.id = tree[q].plane.id
      BY <1>1, <1>2, <2>1, <3>2 DEF Numbered, OwnIds
    <3>3. CASE nd.plane.id = next
      BY <1>1, <1>3, <1>5, <1>6, <2>1, <3>3
    <3> QED BY <3>1, <3>2, <3>3
  <2>2. ASSUME NEW s \in DOMAIN tree \ {q}, NEW t \in DOMAIN tree \ {q},
               new[s].plane.id = new[t].plane.id
        PROVE  s = t \/ new[s].plane.id = None
    BY <1>1, <1>2, <2>2 DEF Numbered, OwnIds
  <2> SUFFICES ASSUME NEW s \in DOMAIN new, NEW t \in DOMAIN new,
                      new[s].plane.id = new[t].plane.id
               PROVE  s = t \/ new[s].plane.id = None
    BY DEF OwnIds
  <2>3. CASE s = q \/ t = q
    BY <1>1, <2>1, <2>3
  <2>4. CASE s # q /\ t # q
    BY <1>1, <2>2, <2>4
  <2> QED BY <2>3, <2>4
<1>11. Numbered(new, after)
  BY <1>9, <1>10 DEF Numbered
<1> QED BY <1>4, <1>8, <1>11 DEF new

LEMMA PushedIs ==
  ASSUME NEW nd \in OctoNodes, NEW p \in MapPoints
  PROVE  LET new == Pushed(nd, p)
         IN  /\ new \in OctoNodes /\ new.pts = Append(nd.pts, p) /\ new.new \in Nat
             /\ new.init = nd.init /\ new.open = nd.open /\ new.plane = nd.plane
<1> DEFINE new == Pushed(nd, p)
<1> DEFINE pts == Append(nd.pts, p)
           n == nd.new + 1
<1>1. new = [pts |-> pts, new |-> n, init |-> nd.init,
             open |-> nd.open, plane |-> nd.plane]
  <2>1. new = [nd EXCEPT !.pts = pts, !.new = n]
    BY DEF Pushed
  <2> HIDE DEF pts, n, new
  <2> QED BY <2>1 DEF OctoNodes
<1>2. /\ nd.pts \in Seq(MapPoints) /\ nd.new \in Nat /\ nd.init \in BOOLEAN
      /\ nd.open \in BOOLEAN /\ nd.plane \in Planes
  BY DEF OctoNodes
<1>3. pts \in Seq(MapPoints) /\ n \in Nat
  BY <1>2
<1> HIDE DEF pts, n
<1>4. new \in OctoNodes
  BY <1>1, <1>2, <1>3 DEF OctoNodes
<1> HIDE DEF new
<1>5. /\ new.pts = pts /\ new.new = n /\ new.init = nd.init
      /\ new.open = nd.open /\ new.plane = nd.plane
  BY <1>1
<1> QED BY <1>3, <1>4, <1>5 DEF new, pts

\* An open node after one more point, refitted when it is time and closed when
\* it is full.
LEMMA FilledIs ==
  ASSUME NEW old \in OctoNodes, NEW p \in MapPoints, NEW next \in Nat, NEW limit, old.init, old.open
  PROVE  LET fit  == Refitted(Pushed(old, p), next)
             nd == Closed(fit, limit)
         IN  /\ nd \in OctoNodes /\ NodeOK(nd) /\ nd.init /\ nd.plane = fit.plane
             /\ \/ fit.plane.id = old.plane.id
                \/ fit.plane.id = next /\ old.plane.id = None
<1> DEFINE new  == Pushed(old, p)
           fit  == Refitted(new, next)
           nd == Closed(fit, limit)
<1>1. /\ new \in OctoNodes /\ new.pts = Append(old.pts, p) /\ new.init = old.init
      /\ new.open = old.open /\ new.plane = old.plane
  BY PushedIs
<1>2. /\ new.pts \in Seq(MapPoints) /\ new.init = TRUE
      /\ new.open \in BOOLEAN /\ new.plane \in Planes /\ old.plane = new.plane
  <2> HIDE DEF new
  <2> QED BY <1>1 DEF OctoNodes
<1> HIDE DEF new
<1>3. /\ fit \in OctoNodes /\ fit.init = TRUE /\ fit.open = new.open
      /\ \/ fit.plane.id = old.plane.id
         \/ fit.plane.id = next /\ old.plane.id = None
  <2>1. CASE new.new > UpdateSize
    <3> DEFINE plane == Fitted(new.plane, new.pts, next)
    <3>1. fit = [new EXCEPT !.plane = plane, !.new = 0]
      BY <2>1 DEF Refitted
    <3>2. plane \in Planes /\ plane.id = IF Flat(new.pts) /\ new.plane.id = None THEN next ELSE new.plane.id
      BY <1>2, FittedIs
    <3> HIDE DEF plane, fit
    <3>3. fit = [pts |-> new.pts, new |-> 0, init |-> new.init, open |-> new.open, plane |-> plane]
      BY <1>1, <3>1 DEF OctoNodes
    <3>4. fit \in OctoNodes
      BY <1>2, <3>2, <3>3 DEF OctoNodes
    <3>5. fit.init = new.init /\ fit.open = new.open /\ fit.plane = plane
      BY <3>3
    <3>6. new.init = TRUE /\ old.plane = new.plane
      BY <1>2
    <3>7. plane.id = old.plane.id \/ (plane.id = next /\ old.plane.id = None)
      BY <3>2, <3>6
    <3> QED BY <3>4, <3>5, <3>6, <3>7
  <2>2. CASE ~(new.new > UpdateSize)
    <3>1. fit = new
      BY <2>2 DEF Refitted
    <3> HIDE DEF fit
    <3> QED BY <1>1, <1>2, <3>1
  <2> QED BY <2>1, <2>2
<1>4. new.open
  BY <1>1
<1> HIDE DEF fit
<1>5. /\ fit.pts \in Seq(MapPoints) /\ fit.new \in Nat /\ fit.plane \in Planes
      /\ fit.open = TRUE /\ <<>> \in Seq(MapPoints)
  BY <1>2, <1>3, <1>4 DEF OctoNodes
<1>6. CASE Len(fit.pts) >= limit
  <2>1. nd = [fit EXCEPT !.open = FALSE, !.pts = <<>>, !.new = 0]
    BY <1>6 DEF Closed
  <2> HIDE DEF nd
  <2>2. nd = [pts |-> <<>>, new |-> 0, init |-> fit.init, open |-> FALSE, plane |-> fit.plane]
    BY <1>3, <2>1 DEF OctoNodes
  <2>3. nd \in OctoNodes
    BY <1>3, <1>5, <2>2 DEF OctoNodes
  <2>4. nd.pts = <<>> /\ nd.init = fit.init /\ nd.plane = fit.plane
    BY <2>2
  <2>5. nd.init = TRUE
    BY <1>3, <2>4
  <2>6. NodeOK(nd)
    BY <2>4, <2>5 DEF NodeOK
  <2> QED BY <1>3, <2>3, <2>4, <2>5, <2>6 DEF nd, fit, new
<1>7. CASE ~(Len(fit.pts) >= limit)
  <2>1. nd = fit
    BY <1>7 DEF Closed
  <2> HIDE DEF nd
  <2>2. NodeOK(fit)
    BY <1>3, <1>5 DEF NodeOK
  <2> QED BY <1>3, <2>1, <2>2 DEF nd, fit, new
<1> QED BY <1>6, <1>7

\* UpdateOctoTree keeps an octree one, and gives the ids the counter had next.
LEMMA UpdateGives ==
  ASSUME NEW tree, NEW next \in Nat, TreeInv(tree, next), NEW p \in MapPoints
  PROVE  Gave(tree, next, UpdateTree(tree, p, next))
<1> DEFINE q     == Target(tree, p.cell)
           old   == IF q \in DOMAIN tree THEN tree[q] ELSE EmptyNode
           first == Pushed(old, p)
           fit   == Refitted(first, next)
           limit == IF old.plane.is THEN MaxPoints ELSE MaxPoints + 1
           nd  == Closed(fit, limit)
           upd   == UpdateTree(tree, p, next)
<1>1. p.cell \in Cells
  BY DEF MapPoints
<1>2. /\ q \in Paths /\ IsPrefix(q, p.cell) /\ Taking(tree, q)
  BY <1>1, TargetIs DEF Taking
<1> HIDE DEF q
<1>3. old \in OctoNodes /\ NodeOK(old) /\ (old.init => q \in DOMAIN tree /\ old = tree[q])
  BY NoPlaneIs, TreeAssumption DEF TreeInv, Typed, NodeOK
<1>4. (q \in DOMAIN tree => old = tree[q]) /\ (q \notin DOMAIN tree => old.plane.id = None /\ ~old.init)
  BY NoPlaneIs
<1>5. old.init \in BOOLEAN /\ old.open \in BOOLEAN
  BY <1>3 DEF OctoNodes
<1>6. upd = CASE ~old.init -> InitTree(Put(tree, q, first), q, next)
              [] old.init /\ ~old.open -> [tree |-> tree, next |-> next]
              [] old.init /\ old.open ->
                   [tree |-> Put(tree, q, nd),
                    next |-> IF fit.plane.id = old.plane.id THEN next ELSE next + 1]
  BY DEF UpdateTree, q
<1> HIDE DEF old
<1>7. CASE ~old.init
  <2> DEFINE t1 == Put(tree, q, first)
  <2>1. upd = InitTree(t1, q, next)
    BY <1>6, <1>7
  <2>2. /\ first \in OctoNodes /\ first.pts = Append(old.pts, p)
        /\ first.init = old.init /\ first.open = old.open /\ first.plane = old.plane
    BY <1>3, PushedIs
  <2>3. old.plane = NoPlane /\ old.open /\ old.pts \in Seq(MapPoints)
    BY <1>3, <1>7 DEF NodeOK, OctoNodes
  <2> HIDE DEF first
  <2>4. /\ DOMAIN t1 = DOMAIN tree \cup {q} /\ t1[q] = first
        /\ \A s \in DOMAIN tree \ {q} : t1[s] = tree[s]
    BY DEF Put
  <2>5. Typed(t1)
    BY <1>2, <2>2, PutTyped DEF TreeInv
  <2>6. Shaped(t1)
    <3>1. q \notin DOMAIN tree \/ ~tree[q].init
      BY <1>4, <1>7
    <3> QED BY <1>2, <2>2, <3>1, PutShape
  <2>7. Numbered(t1, next) /\ PlaneIds(t1) \subseteq PlaneIds(tree)
    <3>1. first.plane.id = None
      BY <2>2, <2>3, NoPlaneIs
    <3>2. Numbered(t1, next) /\ PlaneIds(t1) \subseteq PlaneIds(tree) \cup next..next - 1
      BY <3>1, PutIds
    <3>3. next..next - 1 = {}
      OBVIOUS
    <3> HIDE DEF t1
    <3> QED BY <3>2, <3>3
  <2> HIDE DEF t1
  <2>8. \A s \in DOMAIN t1 \ {q} : NodeOK(t1[s])
    BY <2>4 DEF TreeInv
  <2>9. \E i \in DOMAIN t1[q].pts : IsPrefix(q, t1[q].pts[i].cell)
    <3>1. t1[q].pts = Append(old.pts, p)
      BY <2>2, <2>4
    <3>2. /\ Len(old.pts) + 1 \in DOMAIN Append(old.pts, p)
          /\ Append(old.pts, p)[Len(old.pts) + 1] = p
      BY <2>3
    <3> QED BY <1>2, <3>1, <3>2
  <2>10. Awaiting(t1, q, next)
    BY <1>7, <2>2, <2>3, <2>4, <2>5, <2>6, <2>7, <2>8, <2>9 DEF Awaiting
  <2>11. Gave(t1, next, InitTree(t1, q, next))
    BY <2>10, InitGives
  <2> HIDE DEF upd
  <2>12. Gave(t1, next, upd)
    BY <2>1, <2>11
  <2> QED BY <2>7, <2>12 DEF Gave, upd
<1>8. CASE old.init /\ ~old.open
  <2>1. upd = [tree |-> tree, next |-> next]
    BY <1>6, <1>8
  <2> HIDE DEF upd
  <2>2. upd.tree = tree /\ upd.next = next /\ next >= next
    BY <2>1
  <2> QED BY <2>2 DEF Gave, upd
<1>9. CASE old.init /\ old.open
  <2> DEFINE after == IF fit.plane.id = old.plane.id THEN next ELSE next + 1
             t2    == Put(tree, q, nd)
  <2>1. upd = [tree |-> t2, next |-> after]
    BY <1>6, <1>9
  <2>2. /\ nd \in OctoNodes /\ NodeOK(nd) /\ nd.init /\ nd.plane = fit.plane
        /\ \/ fit.plane.id = old.plane.id
           \/ fit.plane.id = next /\ old.plane.id = None
    BY <1>3, <1>9, FilledIs
  <2> HIDE DEF upd
  <2>3. upd.tree = t2 /\ upd.next = after
    BY <2>1
  <2> HIDE DEF nd, fit
  <2>4. q \in DOMAIN tree /\ old = tree[q]
    BY <1>3, <1>9
  <2>5. after \in Nat
    OBVIOUS
  <2>6. Shaped(t2) /\ Typed(t2)
    BY <1>2, <2>2, PutShape, PutTyped DEF TreeInv
  <2>7. \/ nd.plane.id = None /\ after = next
        \/ q \in DOMAIN tree /\ nd.plane.id = tree[q].plane.id /\ after = next
        \/ nd.plane.id = next /\ after = next + 1
    BY <2>2, <2>4, TreeAssumption
  <2> HIDE DEF after
  <2>8. /\ Numbered(t2, after) /\ after >= next
        /\ PlaneIds(t2) \subseteq PlaneIds(tree) \cup next..after - 1
    BY <2>5, <2>7, PutIds
  <2>9. /\ DOMAIN t2 = DOMAIN tree \cup {q} /\ t2[q] = nd
        /\ \A s \in DOMAIN tree \ {q} : t2[s] = tree[s]
    BY DEF Put
  <2> HIDE DEF t2
  <2>10. \A s \in DOMAIN t2 : NodeOK(t2[s])
    BY <2>2, <2>9 DEF TreeInv
  <2>11. TreeInv(t2, after)
    BY <2>6, <2>8, <2>10 DEF TreeInv
  <2>12. Gave(tree, next, upd)
    BY <2>3, <2>5, <2>8, <2>11 DEF Gave
  <2> QED BY <2>12 DEF upd
<1> QED BY <1>5, <1>7, <1>8, <1>9

\* The octree of a new voxel, before and after its first points.
LEMMA RootAlone ==
  ASSUME NEW nd \in OctoNodes, nd.plane = NoPlane, ~nd.init
  PROVE  LET tree == [q \in {<<>>} |-> nd]
         IN  Typed(tree) /\ Shaped(tree) /\ PlaneIds(tree) = {} /\ \A next : Numbered(tree, next)
<1> DEFINE tree == [q \in {<<>>} |-> nd]
<1>1. DOMAIN tree = {<<>>} /\ tree[<<>>] = nd /\ <<>> \in Seq(Octants) /\ Len(<<>>) = 0
  OBVIOUS
<1>3. <<>> \in Paths
  BY <1>1, TreeAssumption DEF Paths
<1>4. Typed(tree)
  BY <1>3 DEF Typed
<1>5. PlaneIds(tree) = {}
  BY <1>1, NoPlaneIs DEF PlaneIds
<1> HIDE DEF tree
<1>6. Shaped(tree)
  <2>1. \A s \in Seq(Octants) : IsPrefix(s, <<>>) => s = <<>>
    <3> SUFFICES ASSUME NEW s \in Seq(Octants), IsPrefix(s, <<>>) PROVE s = <<>>
      OBVIOUS
    <3>1. Len(s) <= 0 /\ Len(s) \in Nat
      <4>1. PICK e \in Seq(Octants) : e = <<>> /\ Len(e) = 0
        BY <1>1
      <4>2. IsPrefix(s, e)
        BY <4>1
      <4>3. Len(s) <= Len(e)
        BY <4>2, PrefixOrder
      <4> QED BY <4>1, <4>3
    <3>2. Len(s) = 0
      BY <3>1
    <3> QED BY <3>2
  <2> QED BY <1>1, <2>1 DEF Shaped, Barren
<1>7. \A next : Numbered(tree, next)
  BY <1>1, <1>5 DEF Numbered, OwnIds
<1> QED BY <1>4, <1>5, <1>6, <1>7 DEF tree

(***************************************************************************)
(* Many octrees and one counter.                                           *)
(***************************************************************************)
\* The octrees of one hash map have no plane id in common,
Forest(f, next) ==
  /\ DOMAIN f \in SUBSET Int /\ IsFiniteSet(DOMAIN f) /\ f = [v \in DOMAIN f |-> f[v]]
  /\ \A v \in DOMAIN f : TreeInv(f[v], next)
  /\ \A v, w \in DOMAIN f : v # w => Strangers(f[v], f[w])

\* nor have those of the local and the long-term map.
Grove(local, far, next) ==
  /\ next \in Nat /\ Forest(local, next) /\ Forest(far, next)
  /\ \A v \in DOMAIN local, w \in DOMAIN far : Strangers(local[v], far[w])

LEMMA TreeLater ==
  ASSUME NEW tree, NEW next \in Nat, NEW after \in Nat, after >= next, TreeInv(tree, next)
  PROVE  TreeInv(tree, after) /\ \A i \in PlaneIds(tree) : i \in Nat /\ i < next
<1>1. \A i \in PlaneIds(tree) : i \in Nat /\ i < next
  BY IdsOfTyped DEF TreeInv, Numbered
<1>2. \A i \in PlaneIds(tree) : i < after
  BY <1>1
<1> QED BY <1>1, <1>2 DEF TreeInv, Numbered

\* new is fresh growth of an octree that is a stranger to other.
LEMMA StillStrangers ==
  ASSUME NEW tree, NEW other, NEW new, NEW next \in Nat, Gave(tree, next, new),
         TreeInv(other, next), Strangers(tree, other)
  PROVE  Strangers(new.tree, other)
<1>1. \A i \in PlaneIds(other) : i \in Nat /\ i < next
  BY TreeLater
<1>2. \A i \in PlaneIds(new.tree) : i \in PlaneIds(tree) \/ i \in next..new.next - 1
  BY DEF Gave
<1>3. new.next \in Nat /\ \A i \in next..new.next - 1 : ~(i < next)
  BY DEF Gave
<1> QED BY <1>1, <1>2, <1>3 DEF Strangers

LEMMA StrangersSym == \A a, b : Strangers(a, b) => Strangers(b, a)
  BY DEF Strangers

\* A voxel's octree grows, or a new voxel gets one.
LEMMA GroveGrows ==
  ASSUME NEW local, NEW far, NEW next, Grove(local, far, next), NEW v \in Int, NEW tree, NEW new,
         Gave(tree, next, new),
         PlaneIds(tree) = {} \/ (v \in DOMAIN local /\ tree = local[v])
  PROVE  Grove(Put(local, v, new.tree), far, new.next)
<1> DEFINE after == Put(local, v, new.tree)
<1>1. /\ DOMAIN after = DOMAIN local \cup {v} /\ after[v] = new.tree
      /\ \A w \in DOMAIN local \ {v} : after[w] = local[w]
      /\ after = [w \in DOMAIN after |-> after[w]]
  BY DEF Put
<1> HIDE DEF after
<1>2. next \in Nat /\ new.next \in Nat /\ new.next >= next /\ TreeInv(new.tree, new.next)
  BY DEF Grove, Gave
<1>3. Forest(local, next) /\ Forest(far, next)
  BY DEF Grove
<1>4. ASSUME NEW w \in DOMAIN local \ {v} PROVE Strangers(new.tree, local[w])
  <2>1. Strangers(tree, local[w])
    BY <1>3 DEF Forest, Strangers
  <2> QED BY <1>2, <1>3, <2>1, StillStrangers DEF Forest
<1>5. ASSUME NEW w \in DOMAIN far PROVE Strangers(new.tree, far[w])
  <2>1. Strangers(tree, far[w])
    BY DEF Grove, Strangers
  <2> QED BY <1>2, <1>3, <2>1, StillStrangers DEF Forest
<1>6. Forest(after, new.next)
  <2>1. \A w \in DOMAIN after : TreeInv(after[w], new.next)
    <3>1. \A w \in DOMAIN local : TreeInv(local[w], new.next)
      BY <1>2, <1>3, TreeLater DEF Forest
    <3> QED BY <1>1, <1>2, <3>1
  <2>2. \A w, x \in DOMAIN after : w # x => Strangers(after[w], after[x])
    <3> SUFFICES ASSUME NEW w \in DOMAIN after, NEW x \in DOMAIN after, w # x
                 PROVE  Strangers(after[w], after[x])
      OBVIOUS
    <3>1. CASE w = v
      BY <1>1, <1>4, <3>1
    <3>2. CASE x = v
      BY <1>1, <1>4, <3>2, StrangersSym
    <3>3. CASE w # v /\ x # v
      BY <1>1, <1>3, <3>3 DEF Forest
    <3> QED BY <3>1, <3>2, <3>3
  <2>3. IsFiniteSet(DOMAIN after) /\ DOMAIN after \in SUBSET Int
    BY <1>1, <1>3, AddRemove DEF Forest
  <2> QED BY <1>1, <2>1, <2>2, <2>3 DEF Forest
<1>7. Forest(far, new.next)
  <2>1. \A w \in DOMAIN far : TreeInv(far[w], new.next)
    BY <1>2, <1>3, TreeLater DEF Forest
  <2> QED BY <1>3, <2>1 DEF Forest
<1>8. \A w \in DOMAIN after, x \in DOMAIN far : Strangers(after[w], far[x])
  BY <1>1, <1>5 DEF Grove
<1> QED BY <1>2, <1>6, <1>7, <1>8 DEF Grove, after

\* Fewer voxels, some of them moved from one map to the other.
LEMMA GroveThinned ==
  ASSUME NEW local, NEW far, NEW next, Grove(local, far, next), NEW less, NEW other,
         DOMAIN less \in SUBSET DOMAIN local, \A v \in DOMAIN less : less[v] = local[v],
         less = [v \in DOMAIN less |-> less[v]], other = [v \in DOMAIN other |-> other[v]],
         \A v \in DOMAIN other : \/ v \in DOMAIN local \ DOMAIN less /\ other[v] = local[v]
                                 \/ v \in DOMAIN far /\ other[v] = far[v]
  PROVE  Grove(less, other, next)
<1>1. next \in Nat /\ Forest(local, next) /\ Forest(far, next)
  BY DEF Grove
<1>2. Forest(less, next)
  <2>1. IsFiniteSet(DOMAIN less) /\ DOMAIN less \in SUBSET Int
    BY <1>1, FS_Subset DEF Forest
  <2> QED BY <1>1, <2>1 DEF Forest
<1>3. Forest(other, next)
  <2>1. DOMAIN other \in SUBSET (DOMAIN local \cup DOMAIN far)
    OBVIOUS
  <2>2. IsFiniteSet(DOMAIN local \cup DOMAIN far)
    BY <1>1, FS_Union DEF Forest
  <2>3. IsFiniteSet(DOMAIN other) /\ DOMAIN other \in SUBSET Int
    BY <1>1, <2>1, <2>2, FS_Subset DEF Forest
  <2>4. \A v \in DOMAIN other : TreeInv(other[v], next)
    BY <1>1 DEF Forest
  <2>5. ASSUME NEW v \in DOMAIN other, NEW w \in DOMAIN other, v # w
        PROVE  Strangers(other[v], other[w])
    <3>1. CASE /\ v \in DOMAIN local /\ other[v] = local[v]
               /\ w \in DOMAIN local /\ other[w] = local[w]
      BY <1>1, <2>5, <3>1 DEF Forest
    <3>2. CASE /\ v \in DOMAIN far /\ other[v] = far[v]
               /\ w \in DOMAIN far /\ other[w] = far[w]
      BY <1>1, <2>5, <3>2 DEF Forest
    <3>3. CASE /\ v \in DOMAIN local /\ other[v] = local[v]
               /\ w \in DOMAIN far /\ other[w] = far[w]
      BY <3>3 DEF Grove
    <3>4. CASE /\ v \in DOMAIN far /\ other[v] = far[v]
               /\ w \in DOMAIN local /\ other[w] = local[w]
      BY <3>4, StrangersSym DEF Grove
    <3> QED BY <3>1, <3>2, <3>3, <3>4
  <2> QED BY <2>3, <2>4, <2>5 DEF Forest
<1>4. ASSUME NEW v \in DOMAIN less, NEW w \in DOMAIN other
      PROVE  Strangers(less[v], other[w])
  <2>1. CASE w \in DOMAIN local \ DOMAIN less /\ other[w] = local[w]
    BY <1>1, <2>1 DEF Forest
  <2>2. CASE w \in DOMAIN far /\ other[w] = far[w]
    BY <2>2 DEF Grove
  <2> QED BY <2>1, <2>2
<1> QED BY <1>1, <1>2, <1>3, <1>4 DEF Grove

(***************************************************************************)
(* UpdateVoxelMap and BuildVoxelMap: point by point, voxel by voxel.       *)
(***************************************************************************)
WorldPoints == [v : Int, cell : Cells, surf : Surfaces]

\* UpdateVoxelMap, one point at a time: g is all its intermediate maps.
InsertStep(g, frame, world, k) ==
  Holding(g, world[k].v, UpdateTree(Local(g.local, world[k].v), Stamped(world[k], frame), g.next))
Inserting(first, frame, world, n, g) ==
  g = [k \in 0..n |-> IF k = 0 THEN first ELSE InsertStep(g[k - 1], frame, world, k)]

LEMMA InsertRuns ==
  ASSUME NEW first, NEW frame, NEW world, NEW n \in Nat
  PROVE  \E g : Inserting(first, frame, world, n, g)
<1> DEFINE Fails == {k \in Nat : ~\E g : Inserting(first, frame, world, k, g)}
<1> SUFFICES ASSUME Fails # {} PROVE FALSE
  OBVIOUS
<1>1. PICK k \in Fails : \A j \in Fails : k <= j
  <2> HIDE DEF Fails
  <2>1. Fails \in SUBSET Nat
    BY DEF Fails
  <2> QED BY <2>1, LeastElement
<1>2. k \in Nat /\ ~\E g : Inserting(first, frame, world, k, g)
  BY <1>1
<1>3. CASE k = 0
  <2> DEFINE g == [j \in 0..0 |-> first]
  <2>1. g = [j \in 0..0 |-> IF j = 0 THEN first ELSE InsertStep(g[j - 1], frame, world, j)]
    <3>1. \A j \in 0..0 : j = 0
      OBVIOUS
    <3> QED BY <3>1
  <2> HIDE DEF g
  <2> QED BY <1>2, <1>3, <2>1 DEF Inserting
<1>4. CASE k # 0
  <2>1. k - 1 \in Nat /\ ~(k <= k - 1)
    BY <1>2, <1>4
  <2>2. k - 1 \notin Fails
    BY <1>1, <2>1
  <2>3. PICK h : Inserting(first, frame, world, k - 1, h)
    BY <2>1, <2>2
  <2>4. /\ DOMAIN h = 0..(k - 1)
        /\ \A j \in 0..(k - 1) : h[j] = IF j = 0 THEN first ELSE InsertStep(h[j - 1], frame, world, j)
    <3> DEFINE Of(j) == IF j = 0 THEN first ELSE InsertStep(h[j - 1], frame, world, j)
    <3>1. h = [j \in 0..(k - 1) |-> Of(j)]
      BY <2>3 DEF Inserting
    <3> HIDE DEF Of
    <3>2. DOMAIN h = 0..(k - 1) /\ \A j \in 0..(k - 1) : h[j] = Of(j)
      BY <3>1
    <3> QED BY <3>2 DEF Of
  <2> DEFINE g == [j \in 0..k |-> IF j = k THEN InsertStep(h[k - 1], frame, world, k) ELSE h[j]]
  <2>5. /\ g[k] = InsertStep(h[k - 1], frame, world, k)
        /\ \A j \in 0..(k - 1) : g[j] = h[j]
    BY <1>2
  <2>6. \A j \in 0..k : g[j] = IF j = 0 THEN first ELSE InsertStep(g[j - 1], frame, world, j)
    <3> SUFFICES ASSUME NEW j \in 0..k
                 PROVE  g[j] = IF j = 0 THEN first ELSE InsertStep(g[j - 1], frame, world, j)
      OBVIOUS
    <3> HIDE DEF g
    <3>1. CASE j = k
      <4>1. k - 1 \in 0..(k - 1)
        BY <2>1
      <4> QED BY <1>4, <2>5, <3>1, <4>1
    <3>2. CASE j # k
      <4>1. j \in 0..(k - 1) /\ (j # 0 => j - 1 \in 0..(k - 1))
        BY <1>2, <3>2
      <4> QED BY <2>4, <2>5, <4>1
    <3> QED BY <3>1, <3>2
  <2>7. g = [j \in 0..k |-> IF j = 0 THEN first ELSE InsertStep(g[j - 1], frame, world, j)]
    <3> DEFINE Of(j) == IF j = 0 THEN first ELSE InsertStep(g[j - 1], frame, world, j)
    <3>1. g = [j \in 0..k |-> g[j]]
      OBVIOUS
    <3>2. \A j \in 0..k : g[j] = Of(j)
      BY <2>6
    <3> HIDE DEF g, Of
    <3>3. [j \in 0..k |-> g[j]] = [j \in 0..k |-> Of(j)]
      BY <3>2
    <3>4. g = [j \in 0..k |-> Of(j)]
      BY <3>1, <3>3
    <3> QED BY <3>4 DEF Of
  <2> HIDE DEF g
  <2> QED BY <1>2, <2>7 DEF Inserting
<1> QED BY <1>3, <1>4

LEMMA LocalIs ==
  ASSUME NEW local, NEW far, NEW next, Grove(local, far, next), NEW v
  PROVE  /\ TreeInv(Local(local, v), next)
         /\ PlaneIds(Local(local, v)) = {} \/ (v \in DOMAIN local /\ Local(local, v) = local[v])
<1>1. CASE v \in DOMAIN local
  BY <1>1 DEF Local, Grove, Forest
<1>2. CASE v \notin DOMAIN local
  <2> DEFINE tree == [q \in {<<>>} |-> EmptyNode]
  <2>1. EmptyNode \in OctoNodes /\ EmptyNode.plane = NoPlane /\ ~EmptyNode.init
    BY NoPlaneIs
  <2>2. Typed(tree) /\ Shaped(tree) /\ PlaneIds(tree) = {} /\ Numbered(tree, next)
    BY <2>1, RootAlone
  <2>3. \A q \in DOMAIN tree : tree[q] = EmptyNode
    OBVIOUS
  <2>4. NodeOK(EmptyNode)
    BY NoPlaneIs, TreeAssumption DEF NodeOK
  <2>5. Local(local, v) = tree
    BY <1>2 DEF Local
  <2> HIDE DEF tree
  <2> QED BY <1>2, <2>2, <2>3, <2>4, <2>5 DEF TreeInv
<1> QED BY <1>1, <1>2

\* One more point in the map.
LEMMA InsertStepKeeps ==
  ASSUME NEW g, NEW far, Grove(g.local, far, g.next), NEW frame \in Nat,
         NEW world \in Seq(WorldPoints), NEW k \in DOMAIN world
  PROVE  LET s == InsertStep(g, frame, world, k)
         IN  Grove(s.local, far, s.next)
<1> DEFINE v    == world[k].v
           tree == Local(g.local, v)
           p    == Stamped(world[k], frame)
           new  == UpdateTree(tree, p, g.next)
           s    == InsertStep(g, frame, world, k)
<1>1. world[k] \in WorldPoints
  OBVIOUS
<1>2. v \in Int /\ p \in MapPoints
  BY <1>1 DEF WorldPoints, Stamped, MapPoints
<1>3. /\ TreeInv(tree, g.next) /\ g.next \in Nat
      /\ PlaneIds(tree) = {} \/ (v \in DOMAIN g.local /\ tree = g.local[v])
  <2> HIDE DEF v
  <2> QED BY LocalIs DEF Grove
<1> HIDE DEF v, tree, p
<1>4. Gave(tree, g.next, new)
  BY <1>2, <1>3, UpdateGives
<1>5. Grove(Put(g.local, v, new.tree), far, new.next)
  <2> HIDE DEF new
  <2> QED BY <1>2, <1>3, <1>4, GroveGrows
<1>6. s = [local |-> Put(g.local, v, new.tree), next |-> new.next]
  BY DEF InsertStep, Holding, v, tree, p
<1> HIDE DEF s, new
<1>7. s.local = Put(g.local, v, new.tree) /\ s.next = new.next
  BY <1>6
<1> QED BY <1>5, <1>7 DEF s

\* A whole scan.
LEMMA InsertGrove ==
  ASSUME NEW first, NEW far, Grove(first.local, far, first.next), NEW frame \in Nat,
         NEW world \in Seq(WorldPoints), NEW g, Inserting(first, frame, world, Len(world), g)
  PROVE  Grove(g[Len(world)].local, far, g[Len(world)].next)
<1> DEFINE n == Len(world)
           Fails == {k \in 0..n : ~Grove(g[k].local, far, g[k].next)}
<1>1. n \in Nat /\ DOMAIN world = 1..n
  OBVIOUS
<1>2. \A k \in 0..n : g[k] = IF k = 0 THEN first ELSE InsertStep(g[k - 1], frame, world, k)
  <2> DEFINE Of(j) == IF j = 0 THEN first ELSE InsertStep(g[j - 1], frame, world, j)
  <2>1. g = [j \in 0..n |-> Of(j)]
    BY DEF Inserting
  <2> HIDE DEF Of, n
  <2>2. \A j \in 0..n : g[j] = Of(j)
    BY <2>1
  <2> QED BY <2>2 DEF Of
<1> HIDE DEF n
<1> SUFFICES ASSUME Fails # {} PROVE FALSE
  BY <1>1 DEF n
<1>3. PICK k \in Fails : \A j \in Fails : k <= j
  <2>1. Fails \in SUBSET Nat
    BY <1>1
  <2> HIDE DEF Fails
  <2> QED BY <2>1, LeastElement
<1>4. k \in 0..n /\ ~Grove(g[k].local, far, g[k].next)
  BY <1>3
<1>5. CASE k = 0
  <2>1. g[k] = first
    BY <1>2, <1>4, <1>5
  <2> QED BY <1>4, <2>1
<1>6. CASE k # 0
  <2>1. k - 1 \in 0..n /\ k \in DOMAIN world /\ ~(k <= k - 1)
    BY <1>1, <1>4, <1>6
  <2>2. Grove(g[k - 1].local, far, g[k - 1].next)
    BY <1>3, <2>1
  <2>3. g[k] = InsertStep(g[k - 1], frame, world, k)
    BY <1>2, <1>4, <1>6
  <2>4. Grove(g[k].local, far, g[k].next)
    BY <2>1, <2>2, <2>3, InsertStepKeeps
  <2> QED BY <1>4, <2>4
<1> QED BY <1>5, <1>6

LEMMA InsertIs ==
  ASSUME NEW m, NEW world \in Seq(WorldPoints), NEW next
  PROVE  \E g : /\ Inserting([local |-> m.local, next |-> next], m.frame, world, Len(world), g)
                /\ Insert(m, world, next) =
                     [map |-> [m EXCEPT !.local = g[Len(world)].local,
                                        !.frames = IF m.frames = <<>> \/ Last(m.frames) # m.frame
                                                   THEN Append(@, m.frame) ELSE @],
                      next |-> g[Len(world)].next]
<1> DEFINE first == [local |-> m.local, next |-> next]
           got == CHOOSE g : Inserting(first, m.frame, world, Len(world), g)
<1>1. Inserting(first, m.frame, world, Len(world), got)
  <2>1. \E g : Inserting(first, m.frame, world, Len(world), g)
    <3>1. Len(world) \in Nat
      OBVIOUS
    <3> HIDE DEF first
    <3> QED BY <3>1, InsertRuns
  <2> QED BY <2>1
<1>2. Insert(m, world, next) =
                     [map |-> [m EXCEPT !.local = got[Len(world)].local,
                                        !.frames = IF m.frames = <<>> \/ Last(m.frames) # m.frame
                                                   THEN Append(@, m.frame) ELSE @],
                      next |-> got[Len(world)].next]
  BY Zenon DEF Insert, Inserting, InsertStep
<1> HIDE DEF got
<1> QED BY <1>1, <1>2

Voxels(world) == {world[i].v : i \in DOMAIN world}
\* BuildVoxelMap, one voxel at a time.
BuildStep(g, frame, world, k) ==
  LET v == InKeyOrder(Voxels(world))[k]
  IN  Holding(g, v, InitTree(Rooted(world, v, frame), <<>>, g.next))
Building(first, frame, world, n, g) ==
  g = [k \in 0..n |-> IF k = 0 THEN first ELSE BuildStep(g[k - 1], frame, world, k)]

LEMMA BuildRuns ==
  ASSUME NEW first, NEW frame, NEW world, NEW n \in Nat
  PROVE  \E g : Building(first, frame, world, n, g)
<1> DEFINE Fails == {k \in Nat : ~\E g : Building(first, frame, world, k, g)}
<1> SUFFICES ASSUME Fails # {} PROVE FALSE
  OBVIOUS
<1>1. PICK k \in Fails : \A j \in Fails : k <= j
  <2> HIDE DEF Fails
  <2>1. Fails \in SUBSET Nat
    BY DEF Fails
  <2> QED BY <2>1, LeastElement
<1>2. k \in Nat /\ ~\E g : Building(first, frame, world, k, g)
  BY <1>1
<1>3. CASE k = 0
  <2> DEFINE g == [j \in 0..0 |-> first]
  <2>1. g = [j \in 0..0 |-> IF j = 0 THEN first ELSE BuildStep(g[j - 1], frame, world, j)]
    <3>1. \A j \in 0..0 : j = 0
      OBVIOUS
    <3> QED BY <3>1
  <2> HIDE DEF g
  <2> QED BY <1>2, <1>3, <2>1 DEF Building
<1>4. CASE k # 0
  <2>1. k - 1 \in Nat /\ ~(k <= k - 1)
    BY <1>2, <1>4
  <2>2. k - 1 \notin Fails
    BY <1>1, <2>1
  <2>3. PICK h : Building(first, frame, world, k - 1, h)
    BY <2>1, <2>2
  <2>4. /\ DOMAIN h = 0..(k - 1)
        /\ \A j \in 0..(k - 1) : h[j] = IF j = 0 THEN first ELSE BuildStep(h[j - 1], frame, world, j)
    <3> DEFINE Of(j) == IF j = 0 THEN first ELSE BuildStep(h[j - 1], frame, world, j)
    <3>1. h = [j \in 0..(k - 1) |-> Of(j)]
      BY <2>3 DEF Building
    <3> HIDE DEF Of
    <3>2. DOMAIN h = 0..(k - 1) /\ \A j \in 0..(k - 1) : h[j] = Of(j)
      BY <3>1
    <3> QED BY <3>2 DEF Of
  <2> DEFINE g == [j \in 0..k |-> IF j = k THEN BuildStep(h[k - 1], frame, world, k) ELSE h[j]]
  <2>5. /\ g[k] = BuildStep(h[k - 1], frame, world, k)
        /\ \A j \in 0..(k - 1) : g[j] = h[j]
    BY <1>2
  <2>6. \A j \in 0..k : g[j] = IF j = 0 THEN first ELSE BuildStep(g[j - 1], frame, world, j)
    <3> SUFFICES ASSUME NEW j \in 0..k
                 PROVE  g[j] = IF j = 0 THEN first ELSE BuildStep(g[j - 1], frame, world, j)
      OBVIOUS
    <3> HIDE DEF g
    <3>1. CASE j = k
      <4>1. k - 1 \in 0..(k - 1)
        BY <2>1
      <4> QED BY <1>4, <2>5, <3>1, <4>1
    <3>2. CASE j # k
      <4>1. j \in 0..(k - 1) /\ (j # 0 => j - 1 \in 0..(k - 1))
        BY <1>2, <3>2
      <4> QED BY <2>4, <2>5, <4>1
    <3> QED BY <3>1, <3>2
  <2>7. g = [j \in 0..k |-> IF j = 0 THEN first ELSE BuildStep(g[j - 1], frame, world, j)]
    <3> DEFINE Of(j) == IF j = 0 THEN first ELSE BuildStep(g[j - 1], frame, world, j)
    <3>1. g = [j \in 0..k |-> g[j]]
      OBVIOUS
    <3>2. \A j \in 0..k : g[j] = Of(j)
      BY <2>6
    <3> HIDE DEF g, Of
    <3>3. [j \in 0..k |-> g[j]] = [j \in 0..k |-> Of(j)]
      BY <3>2
    <3>4. g = [j \in 0..k |-> Of(j)]
      BY <3>1, <3>3
    <3> QED BY <3>4 DEF Of
  <2> HIDE DEF g
  <2> QED BY <1>2, <2>7 DEF Building
<1> QED BY <1>3, <1>4


\* One more voxel of the first scan.
LEMMA BuildStepKeeps ==
  ASSUME NEW g, NEW far, Grove(g.local, far, g.next), NEW frame \in Nat,
         NEW world \in Seq(WorldPoints), NEW k \in 1..Cardinality(Voxels(world))
  PROVE  LET s == BuildStep(g, frame, world, k)
         IN  Grove(s.local, far, s.next)
<1> DEFINE v    == InKeyOrder(Voxels(world))[k]
           of   == Picked(world, {i \in DOMAIN world : world[i].v = v})
           pts  == [i \in DOMAIN of |-> Stamped(of[i], frame)]
           nd == [EmptyNode EXCEPT !.pts = pts, !.new = Len(of)]
           tree == Rooted(world, v, frame)
           new  == InitTree(tree, <<>>, g.next)
           s    == BuildStep(g, frame, world, k)
<1>1. v \in Int
  <2> DEFINE f == [i \in DOMAIN world |-> world[i].v]
  <2>1. Voxels(world) = {f[i] : i \in DOMAIN world}
    BY DEF Voxels
  <2>2. \A i \in DOMAIN world : world[i] \in WorldPoints
    OBVIOUS
  <2>3. Voxels(world) \in SUBSET Int
    BY <2>2 DEF Voxels, WorldPoints
  <2>4. IsFiniteSet(DOMAIN world)
    <3>1. DOMAIN world = 1..Len(world) /\ Len(world) \in Nat
      OBVIOUS
    <3> QED BY <3>1, FS_Interval
  <2> HIDE DEF f
  <2>5. IsFiniteSet(Voxels(world))
    BY <2>1, <2>4, ImageFinite
  <2> QED BY <2>3, <2>5, KeyOrder
<1> HIDE DEF v
<1>2. of \in Seq(WorldPoints)
  <2>1. {i \in DOMAIN world : world[i].v = v} \in SUBSET (DOMAIN world)
    OBVIOUS
  <2> QED BY <2>1, PickedFrom
<1>3. tree = [q \in {<<>>} |-> nd]
  BY DEF Rooted
<1> HIDE DEF of
<1>4. pts \in Seq(MapPoints) /\ Len(of) \in Nat
  <2>1. \A i \in DOMAIN of : of[i] \in WorldPoints
    BY <1>2
  <2>2. \A i \in DOMAIN of : Stamped(of[i], frame) \in MapPoints
    BY <2>1 DEF WorldPoints, Stamped, MapPoints
  <2>3. DOMAIN of = 1..Len(of) /\ Len(of) \in Nat
    BY <1>2
  <2>4. pts \in [1..Len(of) -> MapPoints]
    BY <2>2, <2>3
  <2> HIDE DEF pts
  <2> QED BY <2>3, <2>4
<1> HIDE DEF pts
<1>5. /\ nd \in OctoNodes /\ nd.init = FALSE /\ nd.open = TRUE /\ nd.plane = NoPlane
      /\ nd.pts = pts
  <2>1. nd = [pts |-> pts, new |-> Len(of), init |-> FALSE, open |-> TRUE, plane |-> NoPlane]
    <3>1. nd = [EmptyNode EXCEPT !.pts = pts, !.new = Len(of)]
      OBVIOUS
    <3> HIDE DEF nd
    <3> QED BY <3>1 DEF EmptyNode
  <2> HIDE DEF nd
  <2> QED BY <1>4, <2>1, NoPlaneIs DEF OctoNodes
<1> HIDE DEF nd, tree
<1>6. Typed(tree) /\ Shaped(tree) /\ PlaneIds(tree) = {} /\ Numbered(tree, g.next)
  BY <1>3, <1>5, RootAlone
<1>7. DOMAIN tree = {<<>>} /\ tree[<<>>] = nd
  BY <1>3
<1>8. Len(pts) > Threshold => \E i \in DOMAIN pts : IsPrefix(<<>>, pts[i].cell)
  <2> SUFFICES ASSUME Len(pts) > Threshold
               PROVE  \E i \in DOMAIN pts : IsPrefix(<<>>, pts[i].cell)
    OBVIOUS
  <2>1. 1 \in DOMAIN pts /\ pts[1] \in MapPoints
    BY <1>4, TreeAssumption
  <2>2. pts[1].cell \in Seq(Octants)
    BY <2>1, CellsAre DEF MapPoints
  <2> QED BY <2>1, <2>2, PrefixOrder
<1>9. Awaiting(tree, <<>>, g.next)
  BY <1>5, <1>6, <1>7, <1>8 DEF Awaiting, Grove
<1>10. Gave(tree, g.next, new)
  BY <1>9, InitGives
<1>11. s = [local |-> Put(g.local, v, new.tree), next |-> new.next]
  BY DEF BuildStep, Holding, v, tree
<1> HIDE DEF new, s
<1>12. Grove(Put(g.local, v, new.tree), far, new.next)
  BY <1>1, <1>6, <1>10, GroveGrows
<1>13. s.local = Put(g.local, v, new.tree) /\ s.next = new.next
  BY <1>11
<1> QED BY <1>12, <1>13 DEF s

LEMMA BuildGrove ==
  ASSUME NEW first, NEW far, Grove(first.local, far, first.next), NEW frame \in Nat,
         NEW world \in Seq(WorldPoints), NEW n \in Nat, n = Cardinality(Voxels(world)),
         NEW g, Building(first, frame, world, n, g)
  PROVE  Grove(g[n].local, far, g[n].next)
<1> DEFINE Fails == {k \in 0..n : ~Grove(g[k].local, far, g[k].next)}
<1>2. \A k \in 0..n : g[k] = IF k = 0 THEN first ELSE BuildStep(g[k - 1], frame, world, k)
  <2> DEFINE Of(j) == IF j = 0 THEN first ELSE BuildStep(g[j - 1], frame, world, j)
  <2>1. g = [j \in 0..n |-> Of(j)]
    BY DEF Building
  <2> HIDE DEF Of
  <2>2. \A j \in 0..n : g[j] = Of(j)
    BY <2>1
  <2> QED BY <2>2 DEF Of
<1> SUFFICES ASSUME Fails # {} PROVE FALSE
  OBVIOUS
<1>3. PICK k \in Fails : \A j \in Fails : k <= j
  <2>1. Fails \in SUBSET Nat
    OBVIOUS
  <2> HIDE DEF Fails
  <2> QED BY <2>1, LeastElement
<1>4. k \in 0..n /\ ~Grove(g[k].local, far, g[k].next)
  BY <1>3
<1>5. CASE k = 0
  <2>1. g[k] = first
    BY <1>2, <1>4, <1>5
  <2> QED BY <1>4, <2>1
<1>6. CASE k # 0
  <2>1. k - 1 \in 0..n /\ k \in 1..Cardinality(Voxels(world)) /\ ~(k <= k - 1)
    BY <1>4, <1>6
  <2>2. Grove(g[k - 1].local, far, g[k - 1].next)
    BY <1>3, <2>1
  <2>3. g[k] = BuildStep(g[k - 1], frame, world, k)
    BY <1>2, <1>4, <1>6
  <2>4. Grove(g[k].local, far, g[k].next)
    BY <2>1, <2>2, <2>3, BuildStepKeeps
  <2> QED BY <1>4, <2>4
<1> QED BY <1>5, <1>6

LEMMA BuildIs ==
  ASSUME NEW m, NEW world \in Seq(WorldPoints), NEW next,
         Cardinality(Voxels(world)) \in Nat
  PROVE  LET n == Cardinality(Voxels(world))
         IN  \E g : /\ Building([local |-> <<>>, next |-> next], m.frame, world, n, g)
                    /\ Build(m, world, next) =
                         [map |-> [m EXCEPT !.local = g[n].local, !.frames = Append(@, m.frame)],
                          next |-> g[n].next]
<1> DEFINE first == [local |-> <<>>, next |-> next]
           order == InKeyOrder(Voxels(world))
           got == CHOOSE g : Building(first, m.frame, world, Len(order), g)
<1> DEFINE n == Cardinality(Voxels(world))
<1>1. Len(order) = n
  BY DEF InKeyOrder
<1>2. Building(first, m.frame, world, Len(order), got)
  <2>1. \E g : Building(first, m.frame, world, Len(order), g)
    <3> HIDE DEF first, order, n
    <3>1. n \in Nat
      BY DEF n
    <3> QED BY <1>1, <3>1, BuildRuns
  <2> QED BY <2>1
<1>3. Build(m, world, next) =
                     [map |-> [m EXCEPT !.local = got[Len(order)].local, !.frames = Append(@, m.frame)],
                      next |-> got[Len(order)].next]
  BY Zenon DEF Build, Building, BuildStep, Voxels
<1> HIDE DEF got, order, n
<1>4. Build(m, world, next) =
                     [map |-> [m EXCEPT !.local = got[n].local, !.frames = Append(@, m.frame)],
                      next |-> got[n].next]
  BY <1>1, <1>3, Zenon
<1> QED BY <1>1, <1>2, <1>4 DEF n

(***************************************************************************)
(* The map of one estimator.                                               *)
(***************************************************************************)
MapShape(m) ==
  /\ m = [local |-> m.local, far |-> m.far, observed |-> m.observed, frame |-> m.frame,
          frames |-> m.frames, at |-> m.at, slid |-> m.slid]
  /\ m.observed \in SUBSET Int /\ IsFiniteSet(m.observed)
  /\ m.frame \in Nat /\ m.frames \in Seq(Nat) /\ m.at \in Int /\ m.slid \in Int

MapInv(m, next) ==
  MapShape(m) /\ Grove(m.local, m.far, next) /\ Cardinality(DOMAIN m.far) <= LongTermMax

LEMMA MapSound ==
  ASSUME NEW m, NEW next, MapInv(m, next)
  PROVE  MapCoherent(m, next)
<1>1. Forest(m.local, next) /\ Forest(m.far, next)
  BY DEF MapInv, Grove
<1>2. \A v \in DOMAIN m.local : Sound(m.local[v], next)
  BY <1>1, TreeSound DEF Forest
<1>3. \A v \in DOMAIN m.far : Sound(m.far[v], next)
  BY <1>1, TreeSound DEF Forest
<1> QED BY <1>1, <1>2, <1>3 DEF MapCoherent, MapInv, Grove, Forest

LEMMA InsertKeeps ==
  ASSUME NEW m, NEW next, MapInv(m, next), NEW world \in Seq(WorldPoints)
  PROVE  LET into == Insert(m, world, next)
         IN  /\ MapInv(into.map, into.next)
             /\ into.map.observed = m.observed /\ into.map.frame = m.frame
             /\ into.map.at = m.at /\ into.map.slid = m.slid
<1> DEFINE first == [local |-> m.local, next |-> next]
           n     == Len(world)
           fs    == IF m.frames = <<>> \/ Last(m.frames) # m.frame
                    THEN Append(m.frames, m.frame) ELSE m.frames
           into  == Insert(m, world, next)
<1>1. PICK g : /\ Inserting(first, m.frame, world, n, g)
               /\ into = [map |-> [m EXCEPT !.local = g[n].local, !.frames = fs], next |-> g[n].next]
  BY InsertIs
<1>2. first.local = m.local /\ first.next = next
  OBVIOUS
<1>3. Grove(first.local, m.far, first.next) /\ m.frame \in Nat
  BY <1>2 DEF MapInv, MapShape
<1> HIDE DEF first, into
<1>4. Grove(g[n].local, m.far, g[n].next)
  BY <1>1, <1>3, InsertGrove
<1>5. fs \in Seq(Nat)
  BY DEF MapInv, MapShape
<1> HIDE DEF fs
<1>6. into.map = [m EXCEPT !.local = g[n].local, !.frames = fs] /\ into.next = g[n].next
  BY <1>1
<1>7. into.map = [local |-> g[n].local, far |-> m.far, observed |-> m.observed, frame |-> m.frame,
                  frames |-> fs, at |-> m.at, slid |-> m.slid]
  <2> DEFINE l == g[n].local
  <2>1. into.map = [m EXCEPT !.local = l, !.frames = fs]
    BY <1>6
  <2> HIDE DEF l
  <2>2. into.map = [local |-> l, far |-> m.far, observed |-> m.observed, frame |-> m.frame,
                    frames |-> fs, at |-> m.at, slid |-> m.slid]
    BY <2>1 DEF MapInv, MapShape
  <2> QED BY <2>2 DEF l
<1>8. /\ into.map.local = g[n].local /\ into.map.far = m.far /\ into.map.observed = m.observed
      /\ into.map.frame = m.frame /\ into.map.frames = fs /\ into.map.at = m.at
      /\ into.map.slid = m.slid
  BY <1>7
<1>9. MapShape(into.map)
  BY <1>5, <1>7, <1>8 DEF MapShape, MapInv
<1>10. MapInv(into.map, into.next)
  BY <1>4, <1>6, <1>8, <1>9 DEF MapInv
<1> QED BY <1>8, <1>10 DEF into

LEMMA BuildKeeps ==
  ASSUME NEW m, NEW next, MapInv(m, next), NEW world \in Seq(WorldPoints)
  PROVE  LET built == Build(m, world, next)
         IN  MapInv(built.map, built.next)
<1> DEFINE first == [local |-> <<>>, next |-> next]
           n     == Cardinality(Voxels(world))
           fs    == Append(m.frames, m.frame)
           into  == Build(m, world, next)
<1>0. n \in Nat
  <2> DEFINE f == [i \in DOMAIN world |-> world[i].v]
  <2>1. Voxels(world) = {f[i] : i \in DOMAIN world}
    BY DEF Voxels
  <2>2. IsFiniteSet(DOMAIN world)
    <3>1. DOMAIN world = 1..Len(world) /\ Len(world) \in Nat
      OBVIOUS
    <3> QED BY <3>1, FS_Interval
  <2> HIDE DEF f
  <2>3. IsFiniteSet(Voxels(world))
    BY <2>1, <2>2, ImageFinite
  <2> QED BY <2>3, FS_CardinalityType
<1>1. PICK g : /\ Building(first, m.frame, world, n, g)
               /\ into = [map |-> [m EXCEPT !.local = g[n].local, !.frames = fs], next |-> g[n].next]
  BY <1>0, BuildIs, Zenon
<1>2. first.local = <<>> /\ first.next = next
  OBVIOUS
<1>3. Grove(first.local, m.far, first.next) /\ m.frame \in Nat
  <2>1. DOMAIN <<>> = {} /\ <<>> = [v \in DOMAIN <<>> |-> <<>>[v]]
    OBVIOUS
  <2>2. Grove(m.local, m.far, next) /\ m.far = [v \in DOMAIN m.far |-> m.far[v]]
    BY DEF MapInv, Grove, Forest
  <2>3. PICK e : e = <<>>
    OBVIOUS
  <2>4. DOMAIN e = {} /\ e = [v \in DOMAIN e |-> e[v]]
    BY <2>1, <2>3
  <2>5. Grove(e, m.far, next)
    BY <2>2, <2>4, GroveThinned
  <2> QED BY <1>2, <2>3, <2>5 DEF MapInv, MapShape
<1> HIDE DEF first, into, n
<1>4. Grove(g[n].local, m.far, g[n].next)
  BY <1>0, <1>1, <1>3, BuildGrove DEF n
<1>5. fs \in Seq(Nat)
  BY DEF MapInv, MapShape
<1> HIDE DEF fs
<1>6. into.map = [m EXCEPT !.local = g[n].local, !.frames = fs] /\ into.next = g[n].next
  BY <1>1
<1>7. into.map = [local |-> g[n].local, far |-> m.far, observed |-> m.observed, frame |-> m.frame,
                  frames |-> fs, at |-> m.at, slid |-> m.slid]
  <2> DEFINE l == g[n].local
  <2>1. into.map = [m EXCEPT !.local = l, !.frames = fs]
    BY <1>6
  <2> HIDE DEF l
  <2>2. into.map = [local |-> l, far |-> m.far, observed |-> m.observed, frame |-> m.frame,
                    frames |-> fs, at |-> m.at, slid |-> m.slid]
    BY <2>1 DEF MapInv, MapShape
  <2> QED BY <2>2 DEF l
<1>8. /\ into.map.local = g[n].local /\ into.map.far = m.far /\ into.map.observed = m.observed
      /\ into.map.frame = m.frame /\ into.map.frames = fs /\ into.map.at = m.at
      /\ into.map.slid = m.slid
  BY <1>7
<1>9. MapShape(into.map)
  BY <1>5, <1>7, <1>8 DEF MapShape, MapInv
<1>10. MapInv(into.map, into.next)
  BY <1>4, <1>6, <1>8, <1>9 DEF MapInv
<1> QED BY <1>10 DEF into

(***************************************************************************)
(* mapSliding.                                                             *)
(***************************************************************************)
\* The long-term voxels that stay are the nearest ones, and few enough.
LEMMA TrimmedIs ==
  ASSUME NEW far, DOMAIN far \in SUBSET Int, IsFiniteSet(DOMAIN far),
         far = [v \in DOMAIN far |-> far[v]], NEW at \in Int
  PROVE  LET less == Trimmed(far, at)
         IN  /\ DOMAIN less \in SUBSET DOMAIN far /\ less = [v \in DOMAIN less |-> less[v]]
             /\ \A v \in DOMAIN less : less[v] = far[v]
             /\ LongTerm => Cardinality(DOMAIN less) <= LongTermMax
             /\ ~LongTerm => less = far
<1> DEFINE D == DOMAIN far
           excess == Cardinality(D) - LongTermMax
           kept == {w \in D : Cardinality(Farther(D, w, at)) >= excess}
           less == Trimmed(far, at)
<1>1. CASE ~LongTerm
  BY <1>1 DEF Trimmed
<1>2. CASE LongTerm
  <2>1. less = [v \in kept |-> far[v]]
    BY <1>2 DEF Trimmed
  <2> DEFINE R == {e \in D \X D : e[1] \in Farther(D, e[2], at)}
  <2>2. \A x, y \in D : <<x, y>> \in R <=> x \in Farther(D, y, at)
    OBVIOUS
  <2>3. \A x, y \in D : x \in Farther(D, y, at) <=>
           Away(x, at) > Away(y, at) \/ (Away(x, at) = Away(y, at) /\ x < y)
    BY DEF Farther
  <2>4. \A x \in D : x \in Int /\ Away(x, at) \in Nat
    BY DEF Away
  <2>5. Orders(R, D)
    <3> HIDE DEF R, D
    <3>1. \A x \in D : <<x, x>> \notin R
      BY <2>2, <2>3, <2>4
    <3>2. \A x, y \in D : x # y => <<x, y>> \in R \/ <<y, x>> \in R
      BY <2>2, <2>3, <2>4
    <3>3. \A x, y, z \in D : <<x, y>> \in R /\ <<y, z>> \in R => <<x, z>> \in R
      BY <2>2, <2>3, <2>4
    <3> QED BY <3>1, <3>2, <3>3 DEF Orders
  <2>6. WellRanked(D, R)
    <3> HIDE DEF R, D
    <3>1. IsFiniteSet(D)
      BY DEF D
    <3> QED BY <2>5, <3>1, RanksTaken
  <2>7. \A x \in D : Preceding(D, R, x) = Farther(D, x, at)
    <3>1. \A x \in D : Farther(D, x, at) \in SUBSET D
      BY DEF Farther
    <3> HIDE DEF R, D
    <3> QED BY <2>2, <3>1 DEF Preceding
  <2> DEFINE F(x) == Cardinality(Farther(D, x, at))
             n == Cardinality(D)
             f == [x \in kept |-> F(x)]
             low == IF excess > 0 THEN excess ELSE 0
  <2>8. n \in Nat /\ LongTermMax \in Nat
    BY FS_CardinalityType, MapAssumption
  <2> HIDE DEF D
  <2>9. /\ \A x \in D : F(x) \in 0..n - 1
        /\ \A x, y \in D : F(x) = F(y) => x = y
    <3> HIDE DEF R
    <3> QED BY <2>6, <2>7 DEF WellRanked
  <2>10. \A x \in kept : x \in D /\ F(x) >= excess
    OBVIOUS
  <2> HIDE DEF F, kept, R
  <2>11. \A x \in kept : F(x) \in low..n - 1
    BY <2>8, <2>9, <2>10
  <2>12. f \in Injection(kept, low..n - 1)
    BY <2>9, <2>10, <2>11 DEF Injection, IsInjective
  <2> HIDE DEF f
  <2>13. low \in Nat /\ n - 1 \in Int
    BY <2>8
  <2>14. /\ IsFiniteSet(low..n - 1)
         /\ Cardinality(low..n - 1) = IF low > n - 1 THEN 0 ELSE n - 1 - low + 1
    <3> HIDE DEF low, n
    <3> QED BY <2>13, FS_Interval
  <2>15. Cardinality(low..n - 1) <= LongTermMax
    <3>1. (IF low > n - 1 THEN 0 ELSE n - 1 - low + 1) <= LongTermMax
      BY <2>8
    <3> HIDE DEF low
    <3> QED BY <2>14, <3>1
  <2>16. IsFiniteSet(kept) /\ Cardinality(kept) <= Cardinality(low..n - 1)
    BY <2>12, <2>14, FS_Injection
  <2>17. Cardinality(kept) \in Nat /\ Cardinality(low..n - 1) \in Nat
    BY <2>14, <2>16, FS_CardinalityType
  <2>18. Cardinality(kept) <= LongTermMax
    <3> HIDE DEF low, n
    <3> QED BY <2>8, <2>15, <2>16, <2>17
  <2>19. kept \in SUBSET D
    BY DEF kept
  <2> HIDE DEF less
  <2>20. /\ DOMAIN less = kept /\ less = [v \in DOMAIN less |-> less[v]]
         /\ \A v \in DOMAIN less : less[v] = far[v]
    BY <2>1
  <2> QED BY <1>2, <2>18, <2>19, <2>20 DEF less, D
<1> QED BY <1>1, <1>2

LEMMA SlideKeeps ==
  ASSUME NEW m, NEW next, MapInv(m, next)
  PROVE  MapInv(Slide(m), next)
<1> DEFINE kept == Kept(m)
           far  == [v \in DOMAIN m.far \cup kept |-> IF v \in kept THEN m.local[v] ELSE m.far[v]]
           local == [v \in DOMAIN m.local \ Behind(m) |-> m.local[v]]
           less == Trimmed(far, m.at)
<1>1. CASE Away(m.at, m.slid) < SlideThreshold
  BY <1>1 DEF Slide
<1>2. CASE ~(Away(m.at, m.slid) < SlideThreshold)
  <2>1. Slide(m) = [m EXCEPT !.local = local, !.far = less, !.slid = m.at]
    BY <1>2 DEF Slide
  <2>2. kept \in SUBSET (DOMAIN m.local \cap Behind(m)) /\ (~LongTerm => kept = {})
    BY DEF Kept, Behind
  <2>3. Forest(m.local, next) /\ Forest(m.far, next) /\ m.at \in Int
    BY DEF MapInv, Grove, MapShape
  <2> HIDE DEF kept
  <2>4. /\ DOMAIN far = DOMAIN m.far \cup kept /\ far = [v \in DOMAIN far |-> far[v]]
        /\ \A v \in DOMAIN far : IF v \in kept THEN far[v] = m.local[v] ELSE far[v] = m.far[v]
    OBVIOUS
  <2>5. /\ DOMAIN local = DOMAIN m.local \ Behind(m) /\ local = [v \in DOMAIN local |-> local[v]]
        /\ \A v \in DOMAIN local : local[v] = m.local[v]
    OBVIOUS
  <2> HIDE DEF far, local
  <2>6. DOMAIN far \in SUBSET Int /\ IsFiniteSet(DOMAIN far)
    <3>1. IsFiniteSet(DOMAIN m.local) /\ IsFiniteSet(DOMAIN m.far) /\ kept \in SUBSET DOMAIN m.local
      BY <2>2, <2>3 DEF Forest
    <3>2. IsFiniteSet(kept)
      BY <3>1, FS_Subset
    <3>3. IsFiniteSet(DOMAIN m.far \cup kept)
      BY <3>1, <3>2, FS_Union
    <3> QED BY <2>2, <2>3, <2>4, <3>3 DEF Forest
  <2>7. /\ DOMAIN less \in SUBSET DOMAIN far /\ less = [v \in DOMAIN less |-> less[v]]
        /\ \A v \in DOMAIN less : less[v] = far[v]
        /\ LongTerm => Cardinality(DOMAIN less) <= LongTermMax
        /\ ~LongTerm => less = far
    BY <2>3, <2>4, <2>6, TrimmedIs
  <2> HIDE DEF less
  <2>8. \A v \in DOMAIN less : \/ v \in DOMAIN m.local \ DOMAIN local /\ less[v] = m.local[v]
                               \/ v \in DOMAIN m.far /\ less[v] = m.far[v]
    BY <2>2, <2>4, <2>5, <2>7
  <2>9. Grove(local, less, next)
    BY <2>5, <2>7, <2>8, GroveThinned DEF MapInv
  <2>10. Cardinality(DOMAIN less) <= LongTermMax
    <3>1. ~LongTerm => DOMAIN less = DOMAIN m.far
      BY <2>2, <2>4, <2>7
    <3> QED BY <2>7, <3>1 DEF MapInv
  <2> DEFINE s == Slide(m)
  <2>11. s = [local |-> local, far |-> less, observed |-> m.observed, frame |-> m.frame,
              frames |-> m.frames, at |-> m.at, slid |-> m.at]
    <3>1. s = [m EXCEPT !.local = local, !.far = less, !.slid = m.at]
      BY <2>1
    <3> HIDE DEF s
    <3> QED BY <3>1 DEF MapInv, MapShape
  <2> HIDE DEF s
  <2>12. /\ s.local = local /\ s.far = less /\ s.observed = m.observed /\ s.frame = m.frame
         /\ s.frames = m.frames /\ s.at = m.at /\ s.slid = m.at
    BY <2>11
  <2>13. MapShape(s)
    BY <2>11, <2>12 DEF MapShape, MapInv
  <2>14. MapInv(s, next)
    BY <2>9, <2>10, <2>12, <2>13 DEF MapInv
  <2> QED BY <2>14 DEF s
<1> QED BY <1>1, <1>2

(***************************************************************************)
(* captureSnapshot and restoreSnapshot.                                    *)
(***************************************************************************)
LEMMA ListedBack ==
  ASSUME NEW f, DOMAIN f \in SUBSET Int, IsFiniteSet(DOMAIN f), f = [v \in DOMAIN f |-> f[v]]
  PROVE  Unlisted(Listed(f)) = f
<1> DEFINE D     == DOMAIN f
           order == InKeyOrder(D)
           n     == Cardinality(D)
           list  == Listed(f)
           At1(v) == CHOOSE i \in DOMAIN list : list[i][1] = v
           back  == Unlisted(list)
<1>1. /\ n \in Nat /\ order \in [1..n -> D]
      /\ \A v \in D : \E k \in 1..n : order[k] = v
  <2> HIDE DEF D
  <2> QED BY KeyOrder DEF D
<1>2. list = [i \in DOMAIN order |-> <<order[i], f[order[i]]>>]
  BY DEF Listed
<1> HIDE DEF order, n, list, D
<1>3. /\ DOMAIN list = 1..n
      /\ \A i \in 1..n : list[i][1] = order[i] /\ list[i][2] = f[order[i]] /\ order[i] \in D
  BY <1>1, <1>2
<1>4. {list[i][1] : i \in DOMAIN list} = D
  BY <1>1, <1>3
<1>5. \A v \in D : At1(v) \in DOMAIN list /\ list[At1(v)][1] = v
  BY <1>1, <1>3
<1>6. back = [v \in {list[i][1] : i \in DOMAIN list} |-> list[At1(v)][2]]
  BY DEF Unlisted
<1> HIDE DEF At1
<1>7. \A v \in D : list[At1(v)][2] = f[v]
  BY <1>3, <1>5
<1> HIDE DEF back
<1>8. back = [v \in D |-> f[v]]
  BY <1>4, <1>6, <1>7
<1> QED BY <1>8 DEF D, back, list

LEMMA ObservedBack ==
  ASSUME NEW S \in SUBSET Int, IsFiniteSet(S)
  PROVE  ToSet(InKeyOrder(S)) = S
<1>1. /\ InKeyOrder(S) \in [1..Cardinality(S) -> S]
      /\ \A v \in S : \E k \in 1..Cardinality(S) : InKeyOrder(S)[k] = v
  BY KeyOrder
<1> QED BY <1>1 DEF ToSet

\* What is restored is what was captured.
LEMMA RestoredIs ==
  ASSUME NEW m, NEW next, MapInv(m, next)
  PROVE  RestoreMap(CaptureMap(m, next)) = m /\ CaptureMap(m, next).next = next
<1> DEFINE c == CaptureMap(m, next)
<1>1. /\ c.local = Listed(m.local) /\ c.far = Listed(m.far) /\ c.observed = InKeyOrder(m.observed)
      /\ c.frame = m.frame /\ c.frames = m.frames /\ c.at = m.at /\ c.slid = m.slid
      /\ c.next = next
  BY DEF CaptureMap
<1>2. Unlisted(Listed(m.local)) = m.local /\ Unlisted(Listed(m.far)) = m.far
  BY ListedBack DEF MapInv, Grove, Forest
<1>3. ToSet(InKeyOrder(m.observed)) = m.observed
  BY ObservedBack DEF MapInv, MapShape
<1> HIDE DEF c
<1>4. RestoreMap(c) = [local |-> Unlisted(c.local), far |-> Unlisted(c.far),
                       observed |-> ToSet(c.observed), frame |-> c.frame,
                       frames |-> c.frames, at |-> c.at, slid |-> c.slid]
  BY DEF RestoreMap
<1>5. RestoreMap(c) = [local |-> m.local, far |-> m.far, observed |-> m.observed,
                       frame |-> m.frame, frames |-> m.frames, at |-> m.at, slid |-> m.slid]
  BY <1>1, <1>2, <1>3, <1>4
<1>6. RestoreMap(c) = m
  BY <1>5 DEF MapInv, MapShape
<1> QED BY <1>1, <1>6 DEF c

(***************************************************************************)
(* The file.                                                               *)
(***************************************************************************)
LEMMA PointsBack ==
  ASSUME NEW pts \in Seq(MapPoints)
  PROVE  ReadPoints(WrittenPoints(pts)) = pts
<1> DEFINE w == WrittenPoints(pts)
           r == ReadPoints(w)
<1>1. w = [i \in DOMAIN pts |-> <<pts[i].cell, pts[i].surf, pts[i].at>>]
  BY DEF WrittenPoints
<1>2. r = [i \in DOMAIN w |-> [cell |-> w[i][1], surf |-> w[i][2], at |-> w[i][3]]]
  BY DEF ReadPoints
<1> HIDE DEF w, r
<1>3. \A i \in DOMAIN pts : pts[i] \in MapPoints
  OBVIOUS
<1>4. \A i \in DOMAIN pts : [cell |-> pts[i].cell, surf |-> pts[i].surf, at |-> pts[i].at] = pts[i]
  BY <1>3 DEF MapPoints
<1>5. /\ DOMAIN w = DOMAIN pts
      /\ \A i \in DOMAIN pts : w[i][1] = pts[i].cell /\ w[i][2] = pts[i].surf /\ w[i][3] = pts[i].at
  BY <1>1
<1>6. r = [i \in DOMAIN pts |-> pts[i]]
  BY <1>2, <1>4, <1>5
<1>7. pts = [i \in DOMAIN pts |-> pts[i]]
  OBVIOUS
<1> QED BY <1>6, <1>7 DEF r, w

LEMMA PlaneBack ==
  ASSUME NEW p \in Planes
  PROVE  ReadPlane(WrittenPlane(p)) = p
<1>1. p.support \in Seq(MapPoints)
  BY DEF Planes
<1>2. ReadPoints(WrittenPoints(p.support)) = p.support
  BY <1>1, PointsBack
<1> DEFINE w == WrittenPlane(p)
<1>3. w[1] = p.size /\ w[2] = p.is /\ w[3] = p.id /\ w[4] = WrittenPoints(p.support)
  BY DEF WrittenPlane
<1> HIDE DEF w
<1>4. ReadPlane(w) = [size |-> p.size, is |-> p.is, id |-> p.id, support |-> p.support]
  BY <1>2, <1>3 DEF ReadPlane
<1>5. p = [size |-> p.size, is |-> p.is, id |-> p.id, support |-> p.support]
  BY DEF Planes
<1> QED BY <1>4, <1>5 DEF w

LEMMA NodeBack ==
  ASSUME NEW nd \in OctoNodes
  PROVE  ReadNode(WrittenNode(nd)) = nd
<1>1. ReadPoints(WrittenPoints(nd.pts)) = nd.pts /\ ReadPlane(WrittenPlane(nd.plane)) = nd.plane
  BY PointsBack, PlaneBack DEF OctoNodes
<1> DEFINE w == WrittenNode(nd)
<1>2. /\ w[1] = WrittenPoints(nd.pts) /\ w[2] = WrittenPlane(nd.plane) /\ w[3] = nd.new
      /\ w[4] = nd.init /\ w[5] = nd.open
  BY DEF WrittenNode
<1> HIDE DEF w
<1>3. ReadNode(w) = [pts |-> nd.pts, plane |-> nd.plane, new |-> nd.new,
                     init |-> nd.init, open |-> nd.open]
  BY <1>1, <1>2 DEF ReadNode
<1>4. nd = [pts |-> nd.pts, plane |-> nd.plane, new |-> nd.new,
              init |-> nd.init, open |-> nd.open]
  BY DEF OctoNodes
<1> QED BY <1>3, <1>4 DEF w

\* An octree read back node by node.
LEMMA TreeBack ==
  ASSUME NEW tree, Typed(tree)
  PROVE  LET w == [q \in DOMAIN tree |-> WrittenNode(tree[q])]
         IN  [q \in DOMAIN w |-> ReadNode(w[q])] = tree
<1> DEFINE w == [q \in DOMAIN tree |-> WrittenNode(tree[q])]
<1>1. DOMAIN w = DOMAIN tree /\ \A q \in DOMAIN tree : w[q] = WrittenNode(tree[q])
  OBVIOUS
<1> HIDE DEF w
<1>2. \A q \in DOMAIN tree : ReadNode(w[q]) = tree[q]
  BY <1>1, NodeBack DEF Typed
<1>3. [q \in DOMAIN w |-> ReadNode(w[q])] = [q \in DOMAIN tree |-> tree[q]]
  BY <1>1, <1>2
<1>4. tree = [q \in DOMAIN tree |-> tree[q]]
  BY DEF Typed
<1> QED BY <1>3, <1>4 DEF w

WrittenTree(tree) == [q \in DOMAIN tree |-> WrittenNode(tree[q])]
ReadTree(w) == [q \in DOMAIN w |-> ReadNode(w[q])]

LEMMA EntriesBack ==
  ASSUME NEW f, NEW next, Forest(f, next)
  PROVE  ReadEntries(WrittenEntries(Listed(f))) = Listed(f)
<1> DEFINE order == InKeyOrder(DOMAIN f)
           list  == Listed(f)
           w     == WrittenEntries(list)
           r     == ReadEntries(w)
<1>1. /\ list = [i \in DOMAIN order |-> <<order[i], f[order[i]]>>]
      /\ \A i \in DOMAIN order : order[i] \in DOMAIN f
  <2>1. order \in [1..Cardinality(DOMAIN f) -> DOMAIN f]
    BY KeyOrder DEF Forest
  <2> HIDE DEF order
  <2>2. \A i \in DOMAIN order : order[i] \in DOMAIN f
    BY <2>1
  <2> QED BY <2>2 DEF Listed, order
<1>2. w = [i \in DOMAIN list |-> <<list[i][1], WrittenTree(list[i][2])>>]
  BY DEF WrittenEntries, WrittenTree
<1>3. r = [i \in DOMAIN w |-> <<w[i][1], ReadTree(w[i][2])>>]
  BY DEF ReadEntries, ReadTree
<1> HIDE DEF order, list, w, r
<1>4. /\ DOMAIN list = DOMAIN order /\ DOMAIN w = DOMAIN order
      /\ \A i \in DOMAIN order : list[i][1] = order[i] /\ list[i][2] = f[order[i]]
  BY <1>1, <1>2
<1>5. \A i \in DOMAIN order : w[i][1] = order[i] /\ w[i][2] = WrittenTree(f[order[i]])
  BY <1>2, <1>4
<1>6. \A v \in DOMAIN f : ReadTree(WrittenTree(f[v])) = f[v]
  BY TreeBack DEF Forest, TreeInv, ReadTree, WrittenTree
<1>7. \A i \in DOMAIN order : <<w[i][1], ReadTree(w[i][2])>> = <<order[i], f[order[i]]>>
  BY <1>1, <1>5, <1>6
<1>8. r = list
  BY <1>1, <1>3, <1>4, <1>7
<1> QED BY <1>8 DEF r, w, list

\* u is s, m long, and then t, n long.
Joins(u, s, t, m, n, X) ==
  /\ u \in Seq(X) /\ Len(u) = m + n
  /\ \A i \in 1..m : u[i] = s[i]
  /\ \A i \in 1..n : u[m + i] = t[i]

LEMMA JoinedIs ==
  ASSUME NEW X, NEW s \in Seq(X), NEW t \in Seq(X), NEW m \in Nat, NEW n \in Nat,
         Len(s) = m, Len(t) = n, NEW u, u = s \o t
  PROVE  Joins(u, s, t, m, n, X)
<1>1. /\ u \in Seq(X) /\ Len(u) = Len(s) + Len(t)
      /\ \A i \in 1..(Len(s) + Len(t)) : u[i] = IF i <= Len(s) THEN s[i] ELSE t[i - Len(s)]
  BY ConcatProperties
<1>2. \A i \in 1..m : i \in 1..(m + n) /\ i <= m
  OBVIOUS
<1>3. \A i \in 1..n : m + i \in 1..(m + n) /\ ~(m + i <= m) /\ (m + i) - m = i
  OBVIOUS
<1> QED BY <1>1, <1>2, <1>3 DEF Joins

\* Where the fields of a snapshot are in its file.
FieldsOf(e, s) ==
  /\ Len(e) = Size /\ e[1] = Magic /\ e[2] = Version /\ e[3] = s.t
  /\ e[4] = s.state.place /\ e[5] = s.state.ticks /\ e[6] = s.state.lio /\ e[7] = s.state.vio
  /\ e[8] = s.upto
  /\ e[9] = WrittenEntries(s.map.local) /\ e[10] = WrittenEntries(s.map.far)
  /\ e[11] = s.map.observed /\ e[12] = s.map.frame /\ e[13] = s.map.at /\ e[14] = s.map.slid
  /\ e[15] = s.map.next /\ e[16] = s.map.frames
  /\ e[17] = s.life.built /\ e[18] = s.life.due

LEMMA EncodedIs ==
  ASSUME NEW s
  PROVE  FieldsOf(Encoded(s), s) /\ \E X : Encoded(s) \in Seq(X)
<1> DEFINE A == <<Magic, Version, s.t>>
           B == WrittenState(s.state)
           C == WrittenImu(s)
           D == WrittenMap(s.map)
           E == WrittenLifecycle(s.life)
           X == {A[i] : i \in 1..3} \cup {B[i] : i \in 1..4} \cup {C[i] : i \in 1..1}
                  \cup {D[i] : i \in 1..8} \cup {E[i] : i \in 1..2}
           P == A \o B
           Q == P \o C
           R == Q \o D
           e == Encoded(s)
<1>1. A \in Seq({A[i] : i \in 1..3}) /\ Len(A) = 3 /\ A[1] = Magic /\ A[2] = Version /\ A[3] = s.t
  OBVIOUS
<1>2. /\ B \in Seq({B[i] : i \in 1..4}) /\ Len(B) = 4
      /\ B[1] = s.state.place /\ B[2] = s.state.ticks /\ B[3] = s.state.lio /\ B[4] = s.state.vio
  BY DEF WrittenState
<1>3. C \in Seq({C[i] : i \in 1..1}) /\ Len(C) = 1 /\ C[1] = s.upto
  BY DEF WrittenImu
<1>4. /\ D \in Seq({D[i] : i \in 1..8}) /\ Len(D) = 8
      /\ D[1] = WrittenEntries(s.map.local) /\ D[2] = WrittenEntries(s.map.far)
      /\ D[3] = s.map.observed /\ D[4] = s.map.frame /\ D[5] = s.map.at /\ D[6] = s.map.slid
      /\ D[7] = s.map.next /\ D[8] = s.map.frames
  BY DEF WrittenMap
<1>5. /\ E \in Seq({E[i] : i \in 1..2}) /\ Len(E) = 2
      /\ E[1] = s.life.built /\ E[2] = s.life.due
  BY DEF WrittenLifecycle
<1>6. e = R \o E
  BY DEF Encoded
<1> HIDE DEF A, B, C, D, E
<1>7. A \in Seq(X) /\ B \in Seq(X) /\ C \in Seq(X) /\ D \in Seq(X) /\ E \in Seq(X)
  BY <1>1, <1>2, <1>3, <1>4, <1>5
<1> HIDE DEF X
<1>8. Joins(P, A, B, 3, 4, X)
  <2>1. P = A \o B
    OBVIOUS
  <2> HIDE DEF P
  <2> QED BY <1>1, <1>2, <1>7, <2>1, JoinedIs
<1>9. P \in Seq(X) /\ Len(P) = 7
  <2> HIDE DEF P
  <2> QED BY <1>8 DEF Joins
<1>10. Joins(Q, P, C, 7, 1, X)
  <2>1. Q = P \o C
    OBVIOUS
  <2> HIDE DEF P, Q
  <2> QED BY <1>3, <1>7, <1>9, <2>1, JoinedIs
<1>11. Q \in Seq(X) /\ Len(Q) = 8
  <2> HIDE DEF Q
  <2> QED BY <1>10 DEF Joins
<1>12. Joins(R, Q, D, 8, 8, X)
  <2>1. R = Q \o D
    OBVIOUS
  <2> HIDE DEF Q, R
  <2> QED BY <1>4, <1>7, <1>11, <2>1, JoinedIs
<1>13. R \in Seq(X) /\ Len(R) = 16
  <2> HIDE DEF R
  <2> QED BY <1>12 DEF Joins
<1> HIDE DEF e, R
<1>14. Joins(e, R, E, 16, 2, X)
  BY <1>5, <1>6, <1>7, <1>13, JoinedIs
<1> HIDE DEF P, Q
<1>15. /\ e[1] = A[1] /\ e[2] = A[2] /\ e[3] = A[3]
       /\ e[4] = B[1] /\ e[5] = B[2] /\ e[6] = B[3] /\ e[7] = B[4] /\ e[8] = C[1]
  <2>1. \A i \in 1..8 : i \in 1..16
    OBVIOUS
  <2>2. \A i \in 1..8 : e[i] = Q[i]
    BY <1>12, <1>14, <2>1 DEF Joins
  <2>3. \A i \in 1..7 : i \in 1..8
    OBVIOUS
  <2>4. \A i \in 1..7 : e[i] = P[i]
    BY <1>10, <2>2, <2>3 DEF Joins
  <2>5. Q[7 + 1] = C[1]
    BY <1>10 DEF Joins
  <2>6. e[8] = C[1]
    BY <2>2, <2>5
  <2>7. \A i \in 1..3 : P[i] = A[i]
    BY <1>8 DEF Joins
  <2>8. \A i \in 1..4 : P[3 + i] = B[i]
    BY <1>8 DEF Joins
  <2> QED BY <2>4, <2>6, <2>7, <2>8
<1>17. /\ e[9] = D[1] /\ e[10] = D[2] /\ e[11] = D[3] /\ e[12] = D[4]
       /\ e[13] = D[5] /\ e[14] = D[6] /\ e[15] = D[7] /\ e[16] = D[8]
  <2>1. \A i \in 1..8 : 8 + i \in 1..16
    OBVIOUS
  <2>2. \A i \in 1..8 : e[8 + i] = R[8 + i]
    BY <1>14, <2>1 DEF Joins
  <2>3. \A i \in 1..8 : e[8 + i] = D[i]
    BY <1>12, <2>2 DEF Joins
  <2> QED BY <2>3
<1>18. e \in Seq(X) /\ Len(e) = 18 /\ e[17] = E[1] /\ e[18] = E[2]
  <2>1. \A i \in 1..2 : e[16 + i] = E[i]
    BY <1>14 DEF Joins
  <2>2. e \in Seq(X) /\ Len(e) = 18
    BY <1>14 DEF Joins
  <2> QED BY <2>1, <2>2
<1>16. FieldsOf(e, s)
  BY <1>1, <1>2, <1>3, <1>4, <1>5, <1>15, <1>17, <1>18 DEF FieldsOf, Size
<1> QED BY <1>16, <1>18 DEF e

\* Only what was saved whole decodes.
LEMMA WholeDecodes ==
  ASSUME NEW s, NEW bytes \in Saved(s), Decodes(bytes)
  PROVE  bytes = Encoded(s)
<1>1. PICK n \in 0..Size : bytes = SubSeq(Encoded(s), 1, n)
  BY DEF Saved
<1>2. PICK X : Encoded(s) \in Seq(X)
  BY EncodedIs
<1> DEFINE e == Encoded(s)
<1>3. Len(e) = Size /\ Size = 18
  BY EncodedIs DEF FieldsOf, Size
<1> HIDE DEF e
<1>4. n \in 0..Len(e) /\ e \in Seq(X)
  BY <1>2, <1>3 DEF e
<1>5. /\ bytes \in Seq(X) /\ Len(bytes) = n /\ \A i \in 1..n : bytes[i] = e[i]
  BY <1>1, <1>4, SubSeqIs DEF e
<1>6. n = Size
  BY <1>5 DEF Decodes
<1>7. bytes = e
  BY <1>3, <1>4, <1>5, <1>6, SameElements
<1> QED BY <1>7 DEF e

\* What is read is what was written.
LEMMA DecodedIs ==
  ASSUME NEW s, NEW m, NEW next, Forest(m.local, next), Forest(m.far, next),
         s = [t |-> s.t, state |-> s.state, upto |-> s.upto, map |-> CaptureMap(m, next), life |-> s.life],
         s.state = [place |-> s.state.place, ticks |-> s.state.ticks,
                    lio |-> s.state.lio, vio |-> s.state.vio],
         s.life = [built |-> s.life.built, due |-> s.life.due]
  PROVE  Decodes(Encoded(s)) /\ Decoded(Encoded(s)) = s
<1> DEFINE e == Encoded(s)
           c == CaptureMap(m, next)
           a == SubSeq(e, 4, 7)
           b == SubSeq(e, 9, 16)
           l == SubSeq(e, 17, 18)
<1>1. FieldsOf(e, s) /\ \E X : e \in Seq(X)
  BY EncodedIs
<1> HIDE DEF e
<1>2. PICK X : e \in Seq(X)
  BY <1>1
<1>3. Len(e) = 18
  BY <1>1 DEF FieldsOf, Size
<1>3a. \A i \in 1..18 : e[i] \in X
  BY <1>2, <1>3, ElementOfSeq
<1>4. s.map = c
  OBVIOUS
<1> HIDE DEF c
<1>5. /\ a[1] = e[4] /\ a[2] = e[5] /\ a[3] = e[6] /\ a[4] = e[7]
  <2>1. \A i \in 4..7 : e[i] \in X
    BY <1>3a
  <2>2. \A i \in 1..7-4+1 : SubSeq(e, 4, 7)[i] = e[4 + i - 1]
    BY <2>1, SubSeqProperties
  <2>3. \A i \in 1..4 : a[i] = e[3 + i]
    BY <2>2
  <2> HIDE DEF a
  <2> QED BY <2>3
<1>6. /\ b[1] = e[9] /\ b[2] = e[10] /\ b[3] = e[11] /\ b[4] = e[12]
      /\ b[5] = e[13] /\ b[6] = e[14] /\ b[7] = e[15] /\ b[8] = e[16]
  <2>1. \A i \in 9..16 : e[i] \in X
    BY <1>3a
  <2>2. \A i \in 1..16-9+1 : SubSeq(e, 9, 16)[i] = e[9 + i - 1]
    BY <2>1, SubSeqProperties
  <2>3. \A i \in 1..8 : b[i] = e[8 + i]
    BY <2>2
  <2> HIDE DEF b
  <2> QED BY <2>3
<1>7. l[1] = e[17] /\ l[2] = e[18]
  <2>1. \A i \in 17..18 : e[i] \in X
    BY <1>3a
  <2>2. \A i \in 1..18-17+1 : SubSeq(e, 17, 18)[i] = e[17 + i - 1]
    BY <2>1, SubSeqProperties
  <2>3. \A i \in 1..2 : l[i] = e[16 + i]
    BY <2>2
  <2> HIDE DEF l
  <2> QED BY <2>3
<1> HIDE DEF a, b, l
<1>8. Decodes(e)
  BY <1>1 DEF Decodes, FieldsOf
<1>9. ReadState(a) = s.state
  BY <1>1, <1>5 DEF FieldsOf, ReadState
<1>10. ReadLifecycle(l) = s.life
  BY <1>1, <1>7 DEF FieldsOf, ReadLifecycle
<1>11. /\ c = [local |-> c.local, far |-> c.far, observed |-> c.observed, frame |-> c.frame,
               frames |-> c.frames, at |-> c.at, slid |-> c.slid, next |-> c.next]
       /\ c.local = Listed(m.local) /\ c.far = Listed(m.far)
  BY DEF c, CaptureMap
<1>12. ReadEntries(WrittenEntries(c.local)) = c.local /\ ReadEntries(WrittenEntries(c.far)) = c.far
  BY <1>11, EntriesBack
<1>13. ReadMap(b) = [local |-> ReadEntries(b[1]), far |-> ReadEntries(b[2]), observed |-> b[3],
                     frame |-> b[4], at |-> b[5], slid |-> b[6], next |-> b[7], frames |-> b[8]]
  BY DEF ReadMap
<1>14. /\ b[1] = WrittenEntries(c.local) /\ b[2] = WrittenEntries(c.far) /\ b[3] = c.observed
       /\ b[4] = c.frame /\ b[5] = c.at /\ b[6] = c.slid /\ b[7] = c.next /\ b[8] = c.frames
  BY <1>1, <1>4, <1>6 DEF FieldsOf
<1>15. ReadMap(b) = [local |-> c.local, far |-> c.far, observed |-> c.observed, frame |-> c.frame,
                     frames |-> c.frames, at |-> c.at, slid |-> c.slid, next |-> c.next]
  BY <1>12, <1>13, <1>14
<1>16. ReadMap(b) = c
  BY <1>11, <1>15
<1>17. Decoded(e) = [t |-> e[3], state |-> ReadState(a), upto |-> e[8], map |-> ReadMap(b),
                     life |-> ReadLifecycle(l)]
  BY DEF Decoded, a, b, l
<1>18. Decoded(e) = [t |-> s.t, state |-> s.state, upto |-> s.upto, map |-> c, life |-> s.life]
  BY <1>1, <1>9, <1>10, <1>16, <1>17 DEF FieldsOf
<1>19. Decoded(e) = s
  BY <1>18 DEF c
<1> QED BY <1>8, <1>19 DEF e

(***************************************************************************)
(* A scan against a map.                                                   *)
(***************************************************************************)
Measures == [dv : Int, cell : Cells, surf : Surfaces]
States == [place : Int, ticks : Int, lio : Nat, vio : Nat]

LEMMA WorldIs ==
  ASSUME NEW pts \in Seq(Measures), NEW place \in Int
  PROVE  World(pts, place) \in Seq(WorldPoints)
<1> DEFINE P(i) == [v |-> place + pts[i].dv, cell |-> pts[i].cell, surf |-> pts[i].surf]
           w    == World(pts, place)
<1>1. w = [i \in 1..Len(pts) |-> P(i)]
  BY DEF World
<1>2. \A i \in 1..Len(pts) : pts[i] \in Measures
  OBVIOUS
<1>3. \A i \in 1..Len(pts) : P(i) \in WorldPoints
  BY <1>2 DEF Measures, WorldPoints
<1> HIDE DEF P, w
<1>4. Len(pts) \in Nat
  OBVIOUS
<1>5. w \in Seq(WorldPoints)
  BY <1>1, <1>3, <1>4
<1> QED BY <1>5 DEF w

\* What an estimate leaves of the state and of the map.
LEMMA EstimateKeeps ==
  ASSUME NEW m, NEW next, MapInv(m, next), NEW state \in States, NEW world, NEW n
  PROVE  LET est == Estimate(m, state, world, n)
         IN  est.state \in States /\ MapInv(est.map, next)
<1> DEFINE m1      == [m EXCEPT !.frame = @ + 1]
           matches == Matches(m1, world, Recent(m1, n))
           commit  == Cardinality(matches) >= MinMatches
           est     == Estimate(m, state, world, n)
           s2      == IF commit THEN [state EXCEPT !.lio = @ + 1] ELSE state
           m2      == IF commit THEN [m1 EXCEPT !.at = state.place] ELSE m1
<1>1. est = [matches |-> matches, commit |-> commit, state |-> s2, map |-> m2]
  BY DEF Estimate, Measure, Against, Decided
<1> HIDE DEF matches, est
<1>2. m1 = [local |-> m.local, far |-> m.far, observed |-> m.observed, frame |-> m.frame + 1,
            frames |-> m.frames, at |-> m.at, slid |-> m.slid]
  BY DEF MapInv, MapShape
<1> HIDE DEF m1
<1>3. m2 = [local |-> m.local, far |-> m.far, observed |-> m.observed, frame |-> m.frame + 1,
            frames |-> m.frames, at |-> IF commit THEN state.place ELSE m.at, slid |-> m.slid]
  BY <1>2
<1>4. s2 \in States
  BY DEF States
<1> HIDE DEF commit, s2, m2
<1>5. state.place \in Int /\ m.at \in Int /\ m.frame + 1 \in Nat
  BY DEF States, MapInv, MapShape
<1>6. /\ m2.local = m.local /\ m2.far = m.far /\ m2.observed = m.observed
      /\ m2.frame = m.frame + 1 /\ m2.frames = m.frames /\ m2.at \in Int /\ m2.slid = m.slid
  BY <1>3, <1>5
<1>7. m2 = [local |-> m2.local, far |-> m2.far, observed |-> m2.observed, frame |-> m2.frame,
            frames |-> m2.frames, at |-> m2.at, slid |-> m2.slid]
  BY <1>3
<1>8. MapShape(m2)
  BY <1>5, <1>6, <1>7 DEF MapShape, MapInv
<1>9. MapInv(m2, next)
  BY <1>6, <1>8 DEF MapInv
<1>10. est.state = s2 /\ est.map = m2
  BY <1>1
<1> QED BY <1>4, <1>9, <1>10 DEF est

LEMMA ObserveKeeps ==
  ASSUME NEW m, NEW next, MapInv(m, next), NEW voxels \in SUBSET Int, IsFiniteSet(voxels)
  PROVE  MapInv(Observe(m, voxels), next)
<1> DEFINE o == Observe(m, voxels)
<1>1. o = [local |-> m.local, far |-> m.far, observed |-> voxels, frame |-> m.frame,
           frames |-> m.frames, at |-> m.at, slid |-> m.slid]
  BY DEF Observe, MapInv, MapShape
<1> HIDE DEF o
<1>2. /\ o.local = m.local /\ o.far = m.far /\ o.observed = voxels /\ o.frame = m.frame
      /\ o.frames = m.frames /\ o.at = m.at /\ o.slid = m.slid
  BY <1>1
<1>3. MapShape(o)
  BY <1>1, <1>2 DEF MapShape, MapInv
<1> QED BY <1>2, <1>3 DEF MapInv, o

\* A map slid has nothing left to slide for until the position moves.
Steady(m) ==
  \/ Away(m.at, m.slid) < SlideThreshold
  \/ m.slid = m.at /\ Behind(m) = {} /\ Trimmed(m.far, m.at) = m.far

\* What fits the limit stays as it is.
LEMMA FewEnough ==
  ASSUME NEW far, far = [v \in DOMAIN far |-> far[v]], IsFiniteSet(DOMAIN far),
         Cardinality(DOMAIN far) <= LongTermMax, NEW at
  PROVE  Trimmed(far, at) = far
<1> DEFINE D == DOMAIN far
           F(w) == Cardinality(Farther(D, w, at))
           excess == Cardinality(D) - LongTermMax
           stay == {w \in D : F(w) >= excess}
<1>1. \A w \in D : F(w) \in Nat
  <2> TAKE w \in D
  <2>1. Farther(D, w, at) \in SUBSET D
    BY DEF Farther
  <2> HIDE DEF D
  <2>2. IsFiniteSet(D)
    BY DEF D
  <2>3. IsFiniteSet(Farther(D, w, at))
    BY <2>1, <2>2, FS_Subset
  <2> QED BY <2>3, FS_CardinalityType
<1>2. Cardinality(D) \in Nat /\ LongTermMax \in Nat
  BY FS_CardinalityType, MapAssumption
<1>3. Cardinality(D) <= LongTermMax
  OBVIOUS
<1> HIDE DEF F
<1>4. stay = D
  <2> HIDE DEF D
  <2> QED BY <1>1, <1>2, <1>3
<1>5. Trimmed(far, at) = IF ~LongTerm THEN far ELSE [v \in stay |-> far[v]]
  BY DEF Trimmed, F
<1> QED BY <1>4, <1>5

LEMMA SlideSteady ==
  ASSUME NEW m, NEW next, MapInv(m, next)
  PROVE  Steady(Slide(m))
<1> DEFINE kept == Kept(m)
           far  == [v \in DOMAIN m.far \cup kept |-> IF v \in kept THEN m.local[v] ELSE m.far[v]]
           local == [v \in DOMAIN m.local \ Behind(m) |-> m.local[v]]
           less == Trimmed(far, m.at)
           s == Slide(m)
<1>1. CASE Away(m.at, m.slid) < SlideThreshold
  BY <1>1 DEF Slide, Steady
<1>2. CASE ~(Away(m.at, m.slid) < SlideThreshold)
  <2>1. s = [m EXCEPT !.local = local, !.far = less, !.slid = m.at]
    BY <1>2 DEF Slide
  <2>2. MapInv(s, next)
    BY SlideKeeps
  <2> HIDE DEF local, less, s
  <2>3. s.local = local /\ s.far = less /\ s.at = m.at /\ s.slid = m.at
    BY <2>1 DEF MapInv, MapShape
  <2>4. Behind(s) = {}
    BY <2>3 DEF Behind, local
  <2>5. Trimmed(s.far, s.at) = s.far
    <3>1. /\ s.far = [v \in DOMAIN s.far |-> s.far[v]] /\ IsFiniteSet(DOMAIN s.far)
          /\ Cardinality(DOMAIN s.far) <= LongTermMax
      BY <2>2 DEF MapInv, Grove, Forest
    <3> QED BY <3>1, FewEnough
  <2>6. Steady(s)
    BY <2>3, <2>4, <2>5 DEF Steady
  <2> QED BY <2>6 DEF s
<1> QED BY <1>1, <1>2

\* A steady map slides to itself.
LEMMA SteadyStays ==
  ASSUME NEW m, NEW next, MapInv(m, next), Steady(m)
  PROVE  Slide(m) = m
<1> DEFINE kept == Kept(m)
           far  == [v \in DOMAIN m.far \cup kept |-> IF v \in kept THEN m.local[v] ELSE m.far[v]]
           local == [v \in DOMAIN m.local \ Behind(m) |-> m.local[v]]
<1>1. CASE Away(m.at, m.slid) < SlideThreshold
  BY <1>1 DEF Slide
<1>2. CASE ~(Away(m.at, m.slid) < SlideThreshold)
  <2>1. m.slid = m.at /\ Behind(m) = {} /\ Trimmed(m.far, m.at) = m.far
    BY <1>2 DEF Steady
  <2>2. kept = {}
    BY <2>1 DEF Kept
  <2>3. m.local = [v \in DOMAIN m.local |-> m.local[v]] /\ m.far = [v \in DOMAIN m.far |-> m.far[v]]
    BY DEF MapInv, Grove, Forest
  <2>4. far = m.far
    <3> HIDE DEF kept
    <3>1. far = [v \in DOMAIN m.far |-> m.far[v]]
      BY <2>2
    <3> QED BY <2>3, <3>1
  <2>5. local = m.local
    BY <2>1, <2>3
  <2>6. Slide(m) = [m EXCEPT !.local = local, !.far = Trimmed(far, m.at), !.slid = m.at]
    BY <1>2 DEF Slide
  <2> DEFINE less == Trimmed(far, m.at)
             s    == Slide(m)
  <2>7. s = [m EXCEPT !.local = local, !.far = less, !.slid = m.at]
    BY <2>6
  <2>8. less = m.far
    BY <2>1, <2>4
  <2> HIDE DEF local, less, s
  <2>9. s = [m EXCEPT !.local = m.local, !.far = m.far, !.slid = m.slid]
    BY <2>1, <2>5, <2>7, <2>8
  <2>10. s = m
    BY <2>9 DEF MapInv, MapShape
  <2> QED BY <2>10 DEF s
<1> QED BY <1>1, <1>2

\* An estimate that is not committed leaves a steady map steady.
LEMMA EstimateSteady ==
  ASSUME NEW m, NEW next, MapInv(m, next), Steady(m), NEW state \in States, NEW world, NEW n
  PROVE  LET est == Estimate(m, state, world, n)
         IN  ~est.commit => Slide(est.map) = est.map
<1> DEFINE m1  == [m EXCEPT !.frame = @ + 1]
           est == Estimate(m, state, world, n)
<1>1. ~est.commit => est.map = m1
  BY DEF Estimate, Measure, Against, Decided
<1>2. MapInv(est.map, next)
  BY EstimateKeeps
<1> HIDE DEF est
<1>3. m1.local = m.local /\ m1.far = m.far /\ m1.at = m.at /\ m1.slid = m.slid
  BY DEF MapInv, MapShape
<1>4. Steady(m1)
  <2> HIDE DEF m1
  <2>1. Behind(m1) = Behind(m)
    BY <1>3 DEF Behind
  <2> QED BY <1>3, <2>1 DEF Steady
<1> HIDE DEF m1
<1>5. ~est.commit => Slide(est.map) = est.map
  BY <1>1, <1>2, <1>4, SteadyStays
<1> QED BY <1>5 DEF est

(***************************************************************************)
(* A branch and the estimator, each with its own map.                      *)
(***************************************************************************)
Lives == [built : BOOLEAN, due : Nat]

BranchInv(b) ==
  /\ b = [mode |-> b.mode, state |-> b.state, upto |-> b.upto, map |-> b.map, next |-> b.next,
          life |-> b.life]
  /\ b.state \in States /\ b.life \in Lives
  /\ MapInv(b.map, b.next)

MainInv(est, next) ==
  /\ est = [state |-> est.state, upto |-> est.upto, map |-> est.map, built |-> est.built,
            due |-> est.due]
  /\ est.state \in States /\ est.upto \in Int /\ est.built \in BOOLEAN /\ est.due \in Nat
  /\ MapInv(est.map, next)

ScanOK(e) ==
  e.move \in Int /\ e.ticks \in Int /\ e.t \in Nat /\ e.points \in Seq(Measures)

LEMMA PredictedIs ==
  ASSUME NEW state \in States, NEW e, ScanOK(e)
  PROVE  Predicted(state, e) \in States
<1> DEFINE place == state.place + e.move
           ticks == state.ticks + e.ticks
           p     == Predicted(state, e)
<1>1. place \in Int /\ ticks \in Int
  BY DEF States, ScanOK
<1>2. p = [state EXCEPT !.place = place, !.ticks = ticks]
  BY DEF Predicted
<1> HIDE DEF p, place, ticks
<1>3. p \in States
  BY <1>1, <1>2 DEF States
<1> QED BY <1>3 DEF p

LEMMA PropagatedIs ==
  ASSUME NEW b, BranchInv(b), NEW e, ScanOK(e)
  PROVE  LET p == Propagated(b, e)
         IN  /\ BranchInv(p) /\ p.mode = b.mode /\ p.state = Predicted(b.state, e)
             /\ p.upto = e.t /\ p.map = b.map /\ p.next = b.next /\ p.life = b.life
<1> DEFINE p  == Propagated(b, e)
           s2 == Predicted(b.state, e)
<1>1. p = [b EXCEPT !.upto = e.t, !.state = s2]
  BY DEF Propagated
<1>2. s2 \in States
  BY PredictedIs DEF BranchInv
<1> HIDE DEF p, s2
<1>3. p = [mode |-> b.mode, state |-> s2, upto |-> e.t, map |-> b.map, next |-> b.next,
           life |-> b.life]
  BY <1>1 DEF BranchInv
<1>4. /\ p.mode = b.mode /\ p.state = s2 /\ p.upto = e.t /\ p.map = b.map /\ p.next = b.next
      /\ p.life = b.life
  BY <1>3
<1>5. BranchInv(p)
  BY <1>2, <1>3, <1>4 DEF BranchInv
<1> QED BY <1>4, <1>5 DEF p, s2

\* What a branch is after a scan, whether it grows its map or not.
LEMMA InsertedIs ==
  ASSUME NEW b, BranchInv(b), NEW world \in Seq(WorldPoints), NEW est,
         est.state \in States, MapInv(est.map, b.next)
  PROVE  LET i == Inserted(b, world, est)
         IN  /\ BranchInv(i) /\ i.mode = b.mode /\ i.upto = b.upto /\ i.life = b.life
             /\ i.state = b.state
             /\ IF est.commit /\ b.mode # "frozen"
                THEN /\ i.map = Slide(Insert(est.map, world, b.next).map)
                     /\ i.next = Insert(est.map, world, b.next).next
                ELSE i.map = est.map /\ i.next = b.next
<1> DEFINE into == Insert(est.map, world, b.next)
           grows == est.commit /\ b.mode # "frozen"
           mp   == IF grows THEN Slide(into.map) ELSE est.map
           nx   == IF grows THEN into.next ELSE b.next
           i    == Inserted(b, world, est)
<1>1. i = [b EXCEPT !.map = mp, !.next = nx]
  <2>1. i = IF grows THEN [b EXCEPT !.map = Slide(into.map), !.next = into.next]
                     ELSE [b EXCEPT !.map = est.map]
    BY DEF Inserted, Grows
  <2> HIDE DEF i, into, grows
  <2>2. CASE grows
    BY <2>1, <2>2
  <2>3. CASE ~grows
    <3>1. i = [b EXCEPT !.map = est.map]
      BY <2>1, <2>3
    <3>2. i = [mode |-> b.mode, state |-> b.state, upto |-> b.upto, map |-> est.map,
               next |-> b.next, life |-> b.life]
      BY <3>1 DEF BranchInv
    <3>3. PICK j : j = [b EXCEPT !.map = est.map, !.next = b.next]
      OBVIOUS
    <3>4. j = [mode |-> b.mode, state |-> b.state, upto |-> b.upto, map |-> est.map,
               next |-> b.next, life |-> b.life]
      BY <3>3 DEF BranchInv
    <3>5. i = [b EXCEPT !.map = est.map, !.next = b.next]
      BY <3>2, <3>3, <3>4
    <3> QED BY <2>3, <3>5
  <2> QED BY <2>2, <2>3
<1>2. MapInv(into.map, into.next)
  BY InsertKeeps
<1>3. MapInv(Slide(into.map), into.next)
  BY <1>2, SlideKeeps
<1> HIDE DEF into, i
<1>4. MapInv(mp, nx)
  BY <1>3
<1> HIDE DEF mp, nx
<1>5. i = [mode |-> b.mode, state |-> b.state, upto |-> b.upto, map |-> mp, next |-> nx,
           life |-> b.life]
  BY <1>1 DEF BranchInv
<1>6. /\ i.mode = b.mode /\ i.state = b.state /\ i.upto = b.upto /\ i.map = mp /\ i.next = nx
      /\ i.life = b.life
  BY <1>5
<1>7. BranchInv(i)
  BY <1>4, <1>5, <1>6 DEF BranchInv
<1>8. IF grows THEN i.map = Slide(into.map) /\ i.next = into.next
               ELSE i.map = est.map /\ i.next = b.next
  BY <1>6 DEF mp, nx
<1> QED BY <1>6, <1>7, <1>8 DEF i, into, grows

\* What the branch is measured by.
Ours(b, e, world) ==
  Estimate(b.map, Predicted(b.state, e), world, IF b.mode = "recent" THEN Exclude ELSE 0)
Where(b, e) == World(e.points, Predicted(b.state, e).place)

LEMMA RunBranchIs ==
  ASSUME NEW b, BranchInv(b), NEW e, ScanOK(e)
  PROVE  LET ran == RunBranch(b, e)
             est == Ours(b, e, Where(b, e))
             into == Insert(est.map, Where(b, e), b.next)
         IN  /\ BranchInv(ran.branch)
             /\ ran.branch.mode = b.mode /\ ran.branch.upto = e.t /\ ran.branch.life = b.life
             /\ e.points = <<>> =>
                  /\ ran.branch.state = Predicted(b.state, e) /\ ran.branch.map = b.map
                  /\ ran.branch.next = b.next /\ ran.result = NoResult
             /\ e.points # <<>> =>
                  /\ ran.branch.state = est.state
                  /\ IF est.commit /\ b.mode # "frozen"
                     THEN ran.branch.map = Slide(into.map) /\ ran.branch.next = into.next
                     ELSE ran.branch.map = est.map /\ ran.branch.next = b.next
                  /\ ran.result = [valid |-> TRUE, t |-> e.t, state |-> est.state,
                                   matches |-> est.matches, origin |-> "propagation"]
<1> DEFINE p == Propagated(b, e)
           w == Where(b, e)
           est == Ours(b, e, w)
           i == Inserted(p, w, est)
           ran == RunBranch(b, e)
<1>1. /\ BranchInv(p) /\ p.mode = b.mode /\ p.state = Predicted(b.state, e)
      /\ p.upto = e.t /\ p.map = b.map /\ p.next = b.next /\ p.life = b.life
  BY PropagatedIs
<1>2. CASE e.points = <<>>
  <2>1. ran = [branch |-> p, result |-> NoResult]
    BY <1>2 DEF RunBranch
  <2> HIDE DEF p, ran
  <2>2. ran.branch = p /\ ran.result = NoResult
    BY <2>1
  <2> QED BY <1>1, <1>2, <2>2 DEF ran
<1>3. CASE e.points # <<>>
  <2>1. ran = [branch |-> [i EXCEPT !.state = est.state],
               result |-> [valid |-> TRUE, t |-> e.t, state |-> est.state,
                           matches |-> est.matches, origin |-> "propagation"]]
    <3>1. ran = Measured(p, e, w)
      BY <1>3 DEF RunBranch, Where
    <3>2. Estimate(p.map, p.state, w, IF p.mode = "recent" THEN Exclude ELSE 0) = est
      BY <1>1 DEF Ours
    <3>3. Measured(p, e, w) = Updated(p, e, w, est)
      BY <3>2 DEF Measured
    <3> QED BY <3>1, <3>3 DEF Updated
  <2>2. Predicted(b.state, e) \in States
    BY PredictedIs DEF BranchInv
  <2>3. w \in Seq(WorldPoints)
    BY <2>2, WorldIs DEF Where, States, ScanOK
  <2>4. est.state \in States /\ MapInv(est.map, p.next)
    BY <1>1, <2>2, EstimateKeeps DEF BranchInv, Ours
  <2> HIDE DEF p, w, est, ran
  <2>5. /\ BranchInv(i) /\ i.mode = b.mode /\ i.upto = e.t /\ i.life = b.life
        /\ IF est.commit /\ b.mode # "frozen"
           THEN /\ i.map = Slide(Insert(est.map, w, b.next).map)
                /\ i.next = Insert(est.map, w, b.next).next
           ELSE i.map = est.map /\ i.next = b.next
    BY <1>1, <2>3, <2>4, InsertedIs
  <2> HIDE DEF i
  <2> DEFINE j == [i EXCEPT !.state = est.state]
  <2>6. j = [mode |-> i.mode, state |-> est.state, upto |-> i.upto, map |-> i.map,
             next |-> i.next, life |-> i.life]
    BY <2>5 DEF BranchInv
  <2>7. ran.branch = j /\ ran.result = [valid |-> TRUE, t |-> e.t, state |-> est.state,
                                        matches |-> est.matches, origin |-> "propagation"]
    BY <2>1
  <2> HIDE DEF j
  <2>8. /\ j.mode = i.mode /\ j.state = est.state /\ j.upto = i.upto /\ j.map = i.map
        /\ j.next = i.next /\ j.life = i.life
    BY <2>6
  <2>9. BranchInv(j)
    BY <2>4, <2>5, <2>6, <2>8 DEF BranchInv
  <2> QED BY <1>3, <2>5, <2>7, <2>8, <2>9 DEF ran, est, w
<1> QED BY <1>2, <1>3

\* The map a scan is measured against, and whether the scan may be inserted.
Base(world) ==
  IF main.built THEN [map |-> main.map, next |-> counter] ELSE Build(main.map, world, counter)
MapDue == (main.due + 1) % config.stride = 0

\* produced is what a scan leaves of the estimator: est of the measurement on base.
ProducedFrom(produced, base, est, world) ==
  /\ produced.matches = est.matches
  /\ produced.est = [state |-> est.state, upto |-> event.t, map |-> produced.est.map, built |-> TRUE,
                due |-> main.due + 1]
  /\ LET into == Insert(est.map, world, base.next)
     IN  /\ MapDue /\ est.commit => produced.est.map = Slide(into.map) /\ produced.next = into.next
         /\ MapDue /\ ~est.commit => produced.est.map = Slide(est.map) /\ produced.next = base.next
         /\ ~MapDue => produced.est.map = est.map /\ produced.next = base.next

LEMMA ProducedIs ==
  ASSUME NEW state, NEW world
  PROVE  LET base == Base(world)
         IN  ProducedFrom(Produced(state, world), base, Estimate(base.map, state, world, 0), world)
<1> DEFINE base == Base(world)
           est  == Estimate(base.map, state, world, 0)
           into == Insert(est.map, world, base.next)
           then == IF est.commit /\ MapDue THEN into ELSE [map |-> est.map, next |-> base.next]
           mp   == IF MapDue THEN Slide(then.map) ELSE then.map
           produced  == Produced(state, world)
<1>1. produced = [est |-> [state |-> est.state, upto |-> event.t, built |-> TRUE, due |-> main.due + 1,
                      map |-> mp],
             next |-> then.next, matches |-> est.matches]
  <2>1. produced = OnMap(state, world, base)
    BY DEF Produced, Base
  <2>2. OnMap(state, world, base) = Updating(world, est, base.next, MapDue)
    BY DEF OnMap, MapDue
  <2>3. Updating(world, est, base.next, MapDue) = Settled(est, MapDue, then)
    BY DEF Updating, Mapped
  <2>4. Settled(est, MapDue, then)
          = [est |-> [state |-> est.state, upto |-> event.t, built |-> TRUE, due |-> main.due + 1,
                      map |-> mp],
             next |-> then.next, matches |-> est.matches]
    BY DEF Settled
  <2> QED BY <2>1, <2>2, <2>3, <2>4
<1>2. /\ MapDue /\ est.commit => mp = Slide(into.map) /\ then.next = into.next
      /\ MapDue /\ ~est.commit => mp = Slide(est.map) /\ then.next = base.next
      /\ ~MapDue => mp = est.map /\ then.next = base.next
  <2> HIDE DEF into, est, base
  <2> QED OBVIOUS
<1> HIDE DEF produced, mp, est, then, base
<1>3. /\ produced.matches = est.matches /\ produced.next = then.next /\ produced.est.map = mp
      /\ produced.est = [state |-> est.state, upto |-> event.t, map |-> mp, built |-> TRUE,
                    due |-> main.due + 1]
  BY <1>1
<1> HIDE DEF into
<1>4. ProducedFrom(produced, base, est, world)
  BY <1>2, <1>3 DEF ProducedFrom, into
<1> QED BY <1>4 DEF produced, base, est

LEMMA ProduceKeeps ==
  ASSUME MainInv(main, counter), ScanOK(event), NEW state \in States, NEW world \in Seq(WorldPoints)
  PROVE  LET produced == Produced(state, world)
         IN  MainInv(produced.est, produced.next) /\ produced.est.built = TRUE /\ (MapDue => Steady(produced.est.map))
<1> DEFINE base == Base(world)
           est  == Estimate(base.map, state, world, 0)
           into == Insert(est.map, world, base.next)
           produced  == Produced(state, world)
<1>1. ProducedFrom(produced, base, est, world)
  BY ProducedIs
<1>2. MapInv(base.map, base.next)
  <2>1. CASE main.built
    <3>1. base.map = main.map /\ base.next = counter
      BY <2>1 DEF Base
    <3> QED BY <3>1 DEF MainInv
  <2>2. CASE ~main.built
    <3>1. base = Build(main.map, world, counter)
      BY <2>2 DEF Base
    <3> HIDE DEF base
    <3> QED BY <3>1, BuildKeeps DEF MainInv
  <2> QED BY <2>1, <2>2
<1> HIDE DEF base
<1>3. est.state \in States /\ MapInv(est.map, base.next)
  BY <1>2, EstimateKeeps
<1> HIDE DEF est, produced
<1>4. MapInv(into.map, into.next)
  BY <1>3, InsertKeeps
<1>5. /\ MapInv(Slide(into.map), into.next) /\ Steady(Slide(into.map))
      /\ MapInv(Slide(est.map), base.next) /\ Steady(Slide(est.map))
  <2> HIDE DEF into
  <2> QED BY <1>3, <1>4, SlideKeeps, SlideSteady
<1> HIDE DEF into
<1>6. MapInv(produced.est.map, produced.next) /\ (MapDue => Steady(produced.est.map))
  <2>1. CASE MapDue /\ est.commit
    BY <1>1, <1>5, <2>1 DEF ProducedFrom, into
  <2>2. CASE MapDue /\ ~est.commit
    BY <1>1, <1>5, <2>2 DEF ProducedFrom
  <2>3. CASE ~MapDue
    BY <1>1, <1>3, <2>3 DEF ProducedFrom
  <2> QED BY <2>1, <2>2, <2>3
<1> DEFINE e == produced.est
<1>7. e = [state |-> est.state, upto |-> event.t, map |-> e.map, built |-> TRUE, due |-> main.due + 1]
  BY <1>1 DEF ProducedFrom
<1> HIDE DEF e
<1>8. e.state = est.state /\ e.upto = event.t /\ e.built = TRUE /\ e.due = main.due + 1
  BY <1>7
<1>9. event.t \in Int /\ main.due + 1 \in Nat
  BY DEF ScanOK, MainInv
<1>10. e.map = produced.est.map
  BY DEF e
<1>11. MainInv(e, produced.next)
  BY <1>3, <1>6, <1>7, <1>8, <1>9, <1>10 DEF MainInv
<1> QED BY <1>6, <1>8, <1>11 DEF e, produced

\* With nothing left out a branch measures a scan as the estimator does.
LEMMA BothMeasure ==
  ASSUME MainInv(main, counter), ScanOK(event), main.built, config.stride = 1,
         Steady(main.map), event.points # <<>>,
         NEW b, BranchInv(b), b.mode = "evolving", b.state = main.state, b.map = main.map,
         b.next = counter
  PROVE  LET at  == Predicted(main.state, event)
             produced == Produced(at, World(event.points, at.place))
             ran == RunBranch(b, event)
         IN  /\ ran.branch.state = produced.est.state /\ ran.branch.upto = produced.est.upto
             /\ ran.branch.map = produced.est.map /\ ran.branch.next = produced.next
             /\ ran.result = [valid |-> TRUE, t |-> event.t, state |-> produced.est.state,
                              matches |-> produced.matches, origin |-> "propagation"]
<1> DEFINE at    == Predicted(main.state, event)
           world == World(event.points, at.place)
           base  == Base(world)
           est   == Estimate(base.map, at, world, 0)
           into  == Insert(est.map, world, base.next)
           produced   == Produced(at, world)
           ran   == RunBranch(b, event)
<1>1. ProducedFrom(produced, base, est, world)
  BY ProducedIs
<1>2. MapDue
  BY DEF MapDue, MainInv
<1>3. base.map = main.map /\ base.next = counter
  BY DEF Base
<1>4. at \in States
  BY PredictedIs DEF MainInv
<1>5. ~est.commit => Slide(est.map) = est.map
  <2> HIDE DEF at, world, base
  <2>1. MapInv(base.map, counter) /\ Steady(base.map)
    BY <1>3 DEF MainInv
  <2> QED BY <1>4, <2>1, EstimateSteady
<1>6. Where(b, event) = world /\ Ours(b, event, world) = est
  BY <1>3 DEF Where, Ours
<1> HIDE DEF at, world, base, est, produced
<1>7. /\ ran.branch.upto = event.t /\ ran.branch.state = est.state
      /\ IF est.commit
         THEN ran.branch.map = Slide(into.map) /\ ran.branch.next = into.next
         ELSE ran.branch.map = est.map /\ ran.branch.next = counter
      /\ ran.result = [valid |-> TRUE, t |-> event.t, state |-> est.state,
                       matches |-> est.matches, origin |-> "propagation"]
  BY <1>3, <1>6, RunBranchIs
<1> HIDE DEF ran, into
<1>8. /\ produced.matches = est.matches /\ produced.est.state = est.state /\ produced.est.upto = event.t
  BY <1>1 DEF ProducedFrom
<1>9. IF est.commit THEN produced.est.map = Slide(into.map) /\ produced.next = into.next
                    ELSE produced.est.map = est.map /\ produced.next = counter
  BY <1>1, <1>2, <1>3, <1>5 DEF ProducedFrom, into
<1>10. ran.branch.map = produced.est.map /\ ran.branch.next = produced.next
  BY <1>7, <1>9
<1> QED BY <1>7, <1>8, <1>10 DEF produced, at, world, ran

(***************************************************************************)
(* The capture.                                                            *)
(***************************************************************************)
\* What a branch and the estimator it was copied from have in common.
Twin(b, est, next) ==
  /\ b.mode = "evolving" /\ b.state = est.state /\ b.upto = est.upto /\ b.map = est.map
  /\ b.next = next

\* What the branch from the file and the one from memory have in common.
Alike(a, b) ==
  /\ a.mode = "evolving" /\ b.mode = "frozen"
  /\ a.state = b.state /\ a.upto = b.upto /\ a.map = b.map

\* What is captured of the estimator decodes to itself.
LEMMA CapturedIs ==
  ASSUME MainInv(main, counter)
  PROVE  LET s == Snapshot(main, counter)
         IN  /\ s.t = node.time /\ s.state = main.state /\ s.upto = main.upto
             /\ s.map = CaptureMap(main.map, counter)
             /\ s.life = [built |-> main.built, due |-> main.due]
             /\ s = [t |-> s.t, state |-> s.state, upto |-> s.upto, map |-> s.map, life |-> s.life]
             /\ Decoded(Encoded(s)) = s
             /\ \A bytes \in Saved(s) : Decodes(bytes) => bytes = Encoded(s)
<1> DEFINE s == Snapshot(main, counter)
           c == CaptureMap(main.map, counter)
           l == [built |-> main.built, due |-> main.due]
<1>1. s = [t |-> node.time, state |-> main.state, upto |-> main.upto, map |-> c, life |-> l]
  BY DEF Snapshot, CaptureImu
<1> HIDE DEF s, c
<1>2. s.t = node.time /\ s.state = main.state /\ s.upto = main.upto /\ s.map = c /\ s.life = l
  BY <1>1
<1>3. s = [t |-> s.t, state |-> s.state, upto |-> s.upto, map |-> c, life |-> s.life]
  BY <1>1, <1>2
<1>4. s.state = [place |-> s.state.place, ticks |-> s.state.ticks,
                 lio |-> s.state.lio, vio |-> s.state.vio]
  BY <1>2 DEF MainInv, States
<1>5. s.life = [built |-> s.life.built, due |-> s.life.due]
  BY <1>2
<1>6. Forest(main.map.local, counter) /\ Forest(main.map.far, counter)
  BY DEF MainInv, MapInv, Grove
<1>7. Decoded(Encoded(s)) = s
  BY <1>3, <1>4, <1>5, <1>6, DecodedIs DEF c
<1>8. \A bytes \in Saved(s) : Decodes(bytes) => bytes = Encoded(s)
  BY WholeDecodes
<1> QED BY <1>2, <1>3, <1>7, <1>8 DEF s, c

\* A branch begins where the estimator is.
LEMMA BranchOf ==
  ASSUME MainInv(main, counter), NEW mode
  PROVE  LET s == Snapshot(main, counter)
             b == Branch(mode, s)
         IN  /\ BranchInv(b) /\ b.mode = mode /\ b.state = main.state /\ b.upto = main.upto
             /\ b.map = main.map /\ b.next = counter
             /\ Reread(b) = s
<1> DEFINE s == Snapshot(main, counter)
           b == Branch(mode, s)
           c == CaptureMap(main.map, counter)
<1>1. /\ s.t = node.time /\ s.state = main.state /\ s.upto = main.upto
      /\ s.map = c /\ s.life = [built |-> main.built, due |-> main.due]
      /\ s = [t |-> s.t, state |-> s.state, upto |-> s.upto, map |-> s.map, life |-> s.life]
  BY CapturedIs
<1>2. RestoreMap(c) = main.map /\ c.next = counter
  BY RestoredIs DEF MainInv
<1> HIDE DEF s, c
<1>3. b = [mode |-> mode, state |-> main.state, upto |-> main.upto, map |-> main.map,
           next |-> counter, life |-> s.life]
  BY <1>1, <1>2 DEF Branch
<1> HIDE DEF b
<1>4. /\ b.mode = mode /\ b.state = main.state /\ b.upto = main.upto /\ b.map = main.map
      /\ b.next = counter /\ b.life = s.life
  BY <1>3
<1>5. s.life \in Lives
  BY <1>1 DEF Lives, MainInv
<1>6. BranchInv(b)
  BY <1>3, <1>4, <1>5 DEF BranchInv, MainInv
<1>7. Reread(b) = [t |-> node.time, state |-> main.state, upto |-> main.upto, map |-> c,
                   life |-> s.life]
  BY <1>4 DEF Reread, CaptureImu, c
<1>8. Reread(b) = s
  BY <1>1, <1>7
<1> QED BY <1>4, <1>6, <1>8 DEF b, s

\* What there is after a capture.
LEMMA ForkedIs ==
  ASSUME MainInv(main, counter)
  PROVE  LET s     == Snapshot(main, counter)
             forks == Forked(s, s)
         IN  /\ \A b \in DOMAIN forks : BranchInv(forks[b]) /\ Reread(forks[b]) = s
             /\ "b0" \in DOMAIN forks /\ Twin(forks.b0, main, counter)
             /\ config.all => "b1" \in DOMAIN forks /\ Alike(forks.b0, forks.b1)
<1> DEFINE s     == Snapshot(main, counter)
           b0    == Branch("evolving", s)
           b1    == Branch("frozen", s)
           b2    == Branch("recent", s)
           forks == Forked(s, s)
<1>1. BranchInv(b0) /\ Twin(b0, main, counter) /\ Reread(b0) = s
  BY BranchOf DEF Twin
<1>2. BranchInv(b1) /\ Alike(b0, b1) /\ Reread(b1) = s
  BY BranchOf DEF Alike
<1>3. BranchInv(b2) /\ Reread(b2) = s
  BY BranchOf
<1>4. forks = IF config.all THEN [b0 |-> b0, b1 |-> b1, b2 |-> b2] ELSE [b0 |-> b0]
  BY DEF Forked
<1> HIDE DEF s, b0, b1, b2, forks
<1>5. CASE config.all
  <2>1. /\ DOMAIN forks = {"b0", "b1", "b2"}
        /\ forks["b0"] = b0 /\ forks["b1"] = b1 /\ forks["b2"] = b2
        /\ forks.b0 = b0 /\ forks.b1 = b1
    BY <1>4, <1>5
  <2> QED BY <1>1, <1>2, <1>3, <1>5, <2>1 DEF forks, s
<1>6. CASE ~config.all
  <2>1. DOMAIN forks = {"b0"} /\ forks["b0"] = b0 /\ forks.b0 = b0
    BY <1>4, <1>6
  <2> QED BY <1>1, <1>6, <2>1 DEF forks, s
<1> QED BY <1>5, <1>6

\* A capture that is loaded, loads what was captured.
LEMMA CaptureIs ==
  ASSUME MainInv(main, counter), NEW bytes \in Saved(Snapshot(main, counter)), Decodes(bytes),
         CaptureFrom(bytes)
  PROVE  /\ \A b \in DOMAIN branches' : BranchInv(branches'[b])
         /\ "b0" \in DOMAIN branches' /\ Twin(branches'.b0, main, counter)
         /\ config.all => "b1" \in DOMAIN branches' /\ Alike(branches'.b0, branches'.b1)
         /\ counter' = counter /\ harness' = [harness EXCEPT !.captured = TRUE]
         /\ verdicts' = verdicts \cup {[kind |-> "capture", pass |-> TRUE]}
<1> DEFINE s      == Snapshot(main, counter)
           forks  == Forked(s, Decoded(bytes))
           parity == \A b \in DOMAIN forks : Hashes(Reread(forks[b])) = Hashes(s)
<1>1. Decoded(bytes) = s
  <2>1. bytes = Encoded(s) /\ Decoded(Encoded(s)) = s
    BY CapturedIs
  <2> QED BY <2>1
<1>2. s.map.next = counter
  <2>1. s.map = CaptureMap(main.map, counter) /\ CaptureMap(main.map, counter).next = counter
    BY CapturedIs, RestoredIs DEF MainInv
  <2> QED BY <2>1
<1>3. /\ verdicts' = verdicts \cup {[kind |-> "capture", pass |-> parity]}
      /\ counter' = s.map.next
      /\ IF parity THEN branches' = forks /\ harness' = [harness EXCEPT !.captured = TRUE]
                   ELSE UNCHANGED <<branches, harness>>
  BY DEF CaptureFrom
<1>4. forks = Forked(s, s)
  BY <1>1
<1>5. /\ \A b \in DOMAIN forks : BranchInv(forks[b]) /\ Reread(forks[b]) = s
      /\ "b0" \in DOMAIN forks /\ Twin(forks.b0, main, counter)
      /\ config.all => "b1" \in DOMAIN forks /\ Alike(forks.b0, forks.b1)
  BY <1>4, ForkedIs
<1> HIDE DEF s, forks
<1>6. parity = TRUE
  BY <1>5
<1> HIDE DEF parity
<1>7. /\ branches' = forks /\ harness' = [harness EXCEPT !.captured = TRUE]
      /\ verdicts' = verdicts \cup {[kind |-> "capture", pass |-> TRUE]}
  BY <1>3, <1>6
<1> QED BY <1>2, <1>3, <1>5, <1>7

(***************************************************************************)
(* The fork.                                                               *)
(***************************************************************************)
EventInv ==
  /\ event.kind = "scan" => ScanOK(event)
  /\ event.kind = "image" => event.t \in Nat /\ event.ticks \in Int /\ event.seen \in SUBSET ImageVoxels

RunInv ==
  /\ config \in [livo : BOOLEAN, all : BOOLEAN, pauses : BOOLEAN, stride : {1, 2}]
  /\ node = [pc |-> node.pc, returning |-> node.returning, time |-> node.time]
  /\ node.time \in Nat /\ node.returning \in BOOLEAN
  /\ node.returning => node.pc \in {"release", "ended"}
  /\ node.pc \in {"fork", "capture"} => event.kind = "scan"
  /\ EventInv

\* Each map is coherent with its own counter. After an exception in a branch the
\* estimator's map has the branch's counter, and run is on its way out.
MapsInv ==
  /\ RunInv
  /\ node.returning \/ MainInv(main, counter)
  /\ \A b \in DOMAIN branches : BranchInv(branches[b])

LEMMA NoMapIs == MapInv(NoMap, 0)
<1> PICK e : e = <<>>
  OBVIOUS
<1>1. DOMAIN e = {} /\ e = [v \in DOMAIN e |-> e[v]] /\ e \in Seq(Nat)
  <2>1. DOMAIN <<>> = {} /\ <<>> = [v \in DOMAIN <<>> |-> <<>>[v]] /\ <<>> \in Seq(Nat)
    OBVIOUS
  <2> QED BY <2>1
<1> DEFINE m == NoMap
<1>2. m = [local |-> e, far |-> e, observed |-> {}, frame |-> 0, frames |-> e, at |-> 0, slid |-> 0]
  BY DEF NoMap
<1> HIDE DEF m
<1>3. /\ m.local = e /\ m.far = e /\ m.observed = {} /\ m.frame = 0 /\ m.frames = e
      /\ m.at = 0 /\ m.slid = 0
  BY <1>2
<1>4. IsFiniteSet({}) /\ Cardinality({}) = 0
  BY FS_EmptySet
<1>5. MapShape(m)
  BY <1>1, <1>2, <1>3, <1>4 DEF MapShape
<1>6. Grove(m.local, m.far, 0)
  BY <1>1, <1>3, <1>4 DEF Grove, Forest
<1>7. Cardinality(DOMAIN m.far) <= LongTermMax
  BY <1>1, <1>3, <1>4, MapAssumption
<1> QED BY <1>5, <1>6, <1>7 DEF MapInv, m

LEMMA MapsInit == ForkInit => MapsInv
<1> SUFFICES ASSUME ForkInit PROVE MapsInv
  OBVIOUS
<1>1. RunInv
  <2>1. node = [pc |-> "spin", returning |-> FALSE, time |-> 0] /\ event = [kind |-> "none"]
    BY DEF ForkInit, NoEvent
  <2>2. node.pc = "spin" /\ node.returning = FALSE /\ node.time = 0 /\ event.kind = "none"
    BY <2>1
  <2> QED BY <2>1, <2>2 DEF ForkInit, RunInv, EventInv
<1>2. MainInv(main, counter)
  <2> DEFINE m == NoMap
             start == [place |-> 0, ticks |-> 0, lio |-> 0, vio |-> 0]
  <2>1. main = [state |-> start, upto |-> 0, map |-> m, built |-> FALSE, due |-> 0] /\ counter = 0
    BY DEF ForkInit, Start
  <2>2. MapInv(m, 0) /\ start \in States
    BY NoMapIs DEF States
  <2> HIDE DEF m, start
  <2>3. /\ main.state = start /\ main.upto = 0 /\ main.map = m /\ main.built = FALSE
        /\ main.due = 0
    BY <2>1
  <2> QED BY <2>1, <2>2, <2>3 DEF MainInv
<1>3. DOMAIN branches = {}
  BY DEF ForkInit
<1> QED BY <1>1, <1>2, <1>3 DEF MapsInv

\* What only moves the node keeps the maps.
LEMMA MapsStay ==
  ASSUME MapsInv, RunInv', UNCHANGED <<main, counter, branches>>, node.returning => node'.returning
  PROVE  MapsInv'
BY DEF MapsInv

LEMMA GotoIs ==
  ASSUME RunInv, NEW pc, Goto(pc)
  PROVE  /\ node' = [pc |-> node'.pc, returning |-> node'.returning, time |-> node'.time]
         /\ node'.pc = pc /\ node'.returning = node.returning /\ node'.time = node.time
<1>1. node' = [pc |-> pc, returning |-> node.returning, time |-> node.time]
  BY DEF RunInv, Goto
<1> QED BY <1>1

LEMMA ReturnIs ==
  ASSUME RunInv, Return
  PROVE  /\ node' = [pc |-> node'.pc, returning |-> node'.returning, time |-> node'.time]
         /\ node'.pc = "release" /\ node'.returning = TRUE /\ node'.time = node.time
<1>1. node' = [pc |-> "release", returning |-> TRUE, time |-> node.time]
  BY DEF RunInv, Return
<1> QED BY <1>1

LEMMA RunStays ==
  ASSUME RunInv, NEW pc, Goto(pc), UNCHANGED <<config, event>>,
         node.returning => pc \in {"release", "ended"},
         pc \in {"fork", "capture"} => event.kind = "scan"
  PROVE  RunInv' /\ node'.returning = node.returning /\ node'.pc = pc
<1>1. /\ node' = [pc |-> node'.pc, returning |-> node'.returning, time |-> node'.time]
      /\ node'.pc = pc /\ node'.returning = node.returning /\ node'.time = node.time
  BY GotoIs
<1> QED BY <1>1 DEF RunInv, EventInv

LEMMA RunReturns ==
  ASSUME RunInv, Return, UNCHANGED <<config, event>>
  PROVE  RunInv' /\ node'.returning = TRUE /\ node'.pc = "release"
<1>1. /\ node' = [pc |-> node'.pc, returning |-> node'.returning, time |-> node'.time]
      /\ node'.pc = "release" /\ node'.returning = TRUE /\ node'.time = node.time
  BY ReturnIs
<1> QED BY <1>1 DEF RunInv, EventInv

LEMMA ScansAre ==
  ASSUME RunInv
  PROVE  ScansNow \subseteq Scans
BY ForkAssumption DEF ScansNow

LEMMA SyncMaps == MapsInv /\ Sync => MapsInv'
<1> SUFFICES ASSUME MapsInv, Sync PROVE MapsInv'
  OBVIOUS
<1> DEFINE t == node.time + 1
           ticks == t - main.upto
<1>1. /\ node.pc = "spin" /\ UNCHANGED <<config, main, counter, branches, harness, pause, verdicts>>
      /\ \/ \E s \in ScansNow :
              /\ event' = [kind |-> "scan", move |-> s.move, points |-> s.points, t |-> t,
                           ticks |-> ticks]
              /\ node' = [node EXCEPT !.time = t, !.pc = IF Forking THEN "fork" ELSE "produce"]
         \/ /\ \E accepted \in BOOLEAN, saw \in SUBSET ImageVoxels :
                 event' = [kind |-> "image", accepted |-> accepted, seen |-> saw, t |-> t,
                           ticks |-> ticks]
            /\ node' = [node EXCEPT !.time = t, !.pc = "produce"]
  BY DEF Sync
<1>2. ~node.returning /\ MainInv(main, counter)
  BY <1>1 DEF MapsInv, RunInv
<1>3. t \in Nat /\ ticks \in Int
  BY <1>2 DEF MapsInv, RunInv, MainInv
<1> HIDE DEF t, ticks
<1>4. CASE \E s \in ScansNow :
              /\ event' = [kind |-> "scan", move |-> s.move, points |-> s.points, t |-> t,
                           ticks |-> ticks]
              /\ node' = [node EXCEPT !.time = t, !.pc = IF Forking THEN "fork" ELSE "produce"]
  <2>1. PICK s \in ScansNow :
              /\ event' = [kind |-> "scan", move |-> s.move, points |-> s.points, t |-> t,
                           ticks |-> ticks]
              /\ node' = [node EXCEPT !.time = t, !.pc = IF Forking THEN "fork" ELSE "produce"]
    BY <1>4
  <2>2. s.move \in Int /\ s.points \in Seq(Measures)
    <3>1. s \in [move : Int, points : Seq(Measures)]
      BY ScansAre, ForkAssumption DEF MapsInv, Measures
    <3> QED BY <3>1
  <2>3. event'.kind = "scan" /\ ScanOK(event')
    BY <1>3, <2>1, <2>2 DEF ScanOK
  <2> DEFINE pc == IF Forking THEN "fork" ELSE "produce"
  <2>4. node' = [node EXCEPT !.time = t, !.pc = pc]
    BY <2>1
  <2> HIDE DEF pc
  <2>5. node' = [pc |-> pc, returning |-> node.returning, time |-> t]
    BY <2>4 DEF MapsInv, RunInv
  <2>6. node'.pc = pc /\ node'.returning = node.returning /\ node'.time = t
    BY <2>5
  <2>7. RunInv'
    BY <1>1, <1>2, <1>3, <2>3, <2>5, <2>6 DEF MapsInv, RunInv, EventInv
  <2> QED BY <1>1, <1>2, <2>6, <2>7, MapsStay
<1>5. CASE /\ \E accepted \in BOOLEAN, saw \in SUBSET ImageVoxels :
                 event' = [kind |-> "image", accepted |-> accepted, seen |-> saw, t |-> t,
                           ticks |-> ticks]
           /\ node' = [node EXCEPT !.time = t, !.pc = "produce"]
  <2>1. PICK accepted \in BOOLEAN, saw \in SUBSET ImageVoxels :
                 event' = [kind |-> "image", accepted |-> accepted, seen |-> saw, t |-> t,
                           ticks |-> ticks]
    BY <1>5
  <2>2. event'.kind = "image" /\ event'.t = t /\ event'.ticks = ticks /\ event'.seen = saw
    BY <2>1
  <2>3. node' = [pc |-> "produce", returning |-> node.returning, time |-> t]
    BY <1>5 DEF MapsInv, RunInv
  <2>4. node'.pc = "produce" /\ node'.returning = node.returning /\ node'.time = t
    BY <2>3
  <2>5. RunInv'
    BY <1>1, <1>2, <1>3, <2>1, <2>2, <2>3, <2>4 DEF MapsInv, RunInv, EventInv
  <2> QED BY <1>1, <1>2, <2>4, <2>5, MapsStay
<1> QED BY <1>1, <1>4, <1>5

LEMMA PauseMaps ==
  MapsInv /\ (Pausing \/ PauseRefused \/ Releasing \/ Released) => MapsInv'
<1> SUFFICES ASSUME MapsInv, Pausing \/ PauseRefused \/ Releasing \/ Released PROVE MapsInv'
  OBVIOUS
<1>1. UNCHANGED <<config, event, main, counter, branches>>
  BY DEF Pausing, PauseRefused, Releasing, Released, nodeVars
<1>2. CASE Pausing \/ Releasing
  <2>1. UNCHANGED node
    BY <1>2 DEF Pausing, Releasing
  <2> QED BY <1>1, <2>1 DEF MapsInv, RunInv, EventInv
<1>3. CASE PauseRefused
  <2>1. Return \/ (Goto("release") /\ node.pc = "capture")
    BY <1>3 DEF PauseRefused
  <2>2. RunInv' /\ (node.returning => node'.returning)
    <3>1. CASE Return
      BY <1>1, <3>1, RunReturns DEF MapsInv
    <3>2. CASE Goto("release")
      BY <1>1, <3>2, RunStays DEF MapsInv
    <3> QED BY <2>1, <3>1, <3>2
  <2> QED BY <1>1, <2>2, MapsStay
<1>4. CASE Released
  <2> DEFINE pc == IF node.returning THEN "ended" ELSE "spin"
  <2>1. Goto(pc)
    BY <1>4 DEF Released
  <2>2. (node.returning => pc \in {"release", "ended"}) /\ pc \notin {"fork", "capture"}
    OBVIOUS
  <2> HIDE DEF pc
  <2>3. RunInv' /\ node'.returning = node.returning
    BY <1>1, <2>1, <2>2, RunStays DEF MapsInv
  <2> QED BY <1>1, <2>3, MapsStay
<1> QED BY <1>2, <1>3, <1>4

LEMMA ForkMaps == MapsInv /\ Fork => MapsInv'
<1> SUFFICES ASSUME MapsInv, Fork PROVE MapsInv'
  OBVIOUS
<1> DEFINE ran == [b \in DOMAIN branches |-> RunBranch(branches[b], event)]
<1>1. /\ node.pc = "fork" /\ Goto("produce") /\ UNCHANGED <<config, event, main, counter, pause>>
      /\ branches' = [b \in DOMAIN branches |-> ran[b].branch]
  BY DEF Fork, RunBranches
<1>2. ~node.returning /\ event.kind = "scan" /\ ScanOK(event)
  BY <1>1 DEF MapsInv, RunInv, EventInv
<1>3. RunInv' /\ node'.returning = node.returning
  BY <1>1, <1>2, RunStays DEF MapsInv
<1>4. \A b \in DOMAIN branches : BranchInv(ran[b].branch)
  BY <1>2, RunBranchIs DEF MapsInv
<1> HIDE DEF ran
<1>5. \A b \in DOMAIN branches' : BranchInv(branches'[b])
  BY <1>1, <1>4
<1> QED BY <1>1, <1>3, <1>5 DEF MapsInv

LEMMA ForkThrowsMaps == MapsInv /\ ForkThrows => MapsInv'
<1> SUFFICES ASSUME MapsInv, ForkThrows PROVE MapsInv'
  OBVIOUS
<1>1. Return /\ UNCHANGED <<config, event, main, branches, harness, pause, verdicts>>
  BY DEF ForkThrows
<1>2. RunInv' /\ node'.returning = TRUE
  BY <1>1, RunReturns DEF MapsInv
<1> QED BY <1>1, <1>2 DEF MapsInv

LEMMA ImageMaps == MapsInv /\ ProduceImage => MapsInv' /\ main'.built = main.built
<1> SUFFICES ASSUME MapsInv, ProduceImage PROVE MapsInv' /\ main'.built = main.built
  OBVIOUS
<1> DEFINE mp   == Observe(main.map, event.seen)
           saw == [main EXCEPT !.map = mp]
           ticks == main.state.ticks + event.ticks
           vio  == main.state.vio + 1
           state == [main.state EXCEPT !.ticks = ticks, !.vio = vio]
<1>1. /\ node.pc = "produce" /\ event.kind = "image" /\ Goto("release")
      /\ UNCHANGED <<config, event, counter, branches, harness, pause, verdicts>>
  BY DEF ProduceImage
<1>2. main' = IF event.accepted
              THEN [saw EXCEPT !.upto = event.t, !.state.ticks = @ + event.ticks,
                                !.state.vio = @ + 1]
              ELSE saw
  BY DEF ProduceImage
<1>3. ~node.returning /\ MainInv(main, counter)
  BY <1>1 DEF MapsInv, RunInv
<1>4. event.t \in Nat /\ event.ticks \in Int /\ event.seen \in SUBSET ImageVoxels
  BY <1>1 DEF MapsInv, RunInv, EventInv
<1>5. MapInv(mp, counter)
  <2>1. event.seen \in SUBSET Int /\ IsFiniteSet(event.seen)
    BY <1>4, ForkAssumption, FS_Subset
  <2> QED BY <1>3, <2>1, ObserveKeeps DEF MainInv
<1> HIDE DEF mp
<1>6. saw = [state |-> main.state, upto |-> main.upto, map |-> mp, built |-> main.built,
              due |-> main.due]
  BY <1>3 DEF MainInv
<1>7. state \in States
  <2>1. ticks \in Int /\ vio \in Nat /\ main.state \in States
    BY <1>3, <1>4 DEF MainInv, States
  <2> HIDE DEF ticks, vio
  <2>2. PICK s : s = [main.state EXCEPT !.ticks = ticks, !.vio = vio]
    OBVIOUS
  <2>3. s \in States
    BY <2>1, <2>2 DEF States
  <2> QED BY <2>2, <2>3
<1>8. MainInv(main', counter) /\ main'.built = main.built
  <2>1. CASE ~event.accepted
    <3>1. main' = [state |-> main.state, upto |-> main.upto, map |-> mp, built |-> main.built,
                   due |-> main.due]
      BY <1>2, <1>6, <2>1
    <3>2. /\ main'.state = main.state /\ main'.upto = main.upto /\ main'.map = mp
          /\ main'.built = main.built /\ main'.due = main.due
      BY <3>1
    <3> QED BY <1>3, <1>5, <3>1, <3>2 DEF MainInv
  <2>2. CASE event.accepted
    <3>1. main' = [state |-> state, upto |-> event.t, map |-> mp, built |-> main.built,
                   due |-> main.due]
      BY <1>2, <1>6, <2>2
    <3> HIDE DEF state
    <3>2. /\ main'.state = state /\ main'.upto = event.t /\ main'.map = mp
          /\ main'.built = main.built /\ main'.due = main.due
      BY <3>1
    <3> QED BY <1>3, <1>4, <1>5, <1>7, <3>1, <3>2 DEF MainInv
  <2> QED BY <2>1, <2>2
<1>9. RunInv' /\ node'.returning = node.returning
  BY <1>1, RunStays DEF MapsInv
<1>10. counter' = counter /\ branches' = branches
  BY <1>1
<1> QED BY <1>8, <1>9, <1>10 DEF MapsInv

LEMMA ScanMaps == MapsInv /\ ProduceScan => MapsInv'
<1> SUFFICES ASSUME MapsInv, ProduceScan PROVE MapsInv'
  OBVIOUS
<1> DEFINE at  == Predicted(main.state, event)
           world == World(event.points, at.place)
           produced == Produced(at, world)
           pc  == IF ~harness.captured /\ event.t >= CaptureAt THEN "capture" ELSE "release"
<1>1. /\ node.pc = "produce" /\ event.kind = "scan" /\ Goto(pc)
      /\ UNCHANGED <<config, event, branches, pause>>
      /\ main' = produced.est /\ counter' = produced.next
  BY DEF ProduceScan
<1>2. ~node.returning /\ MainInv(main, counter) /\ ScanOK(event)
  BY <1>1 DEF MapsInv, RunInv, EventInv
<1>3. at \in States
  BY <1>2, PredictedIs DEF MainInv
<1>4. world \in Seq(WorldPoints)
  BY <1>2, <1>3, WorldIs DEF States, ScanOK
<1> HIDE DEF at, world
<1>5. MainInv(produced.est, produced.next)
  BY <1>2, <1>3, <1>4, ProduceKeeps
<1>6. pc \in {"capture", "release"}
  OBVIOUS
<1> HIDE DEF produced, pc
<1>7. RunInv' /\ node'.returning = node.returning
  BY <1>1, <1>2, <1>6, RunStays DEF MapsInv
<1>8. branches' = branches
  BY <1>1
<1> QED BY <1>1, <1>5, <1>7, <1>8 DEF MapsInv

LEMMA NothingMaps == MapsInv /\ ProduceNothing => MapsInv'
<1> SUFFICES ASSUME MapsInv, ProduceNothing PROVE MapsInv'
  OBVIOUS
<1> DEFINE at == Predicted(main.state, event)
<1>1. /\ node.pc = "produce" /\ event.kind = "scan" /\ Goto("release")
      /\ UNCHANGED <<config, event, counter, branches, harness, pause, verdicts>>
      /\ main' = [main EXCEPT !.upto = event.t, !.state = at]
  BY DEF ProduceNothing
<1>2. ~node.returning /\ MainInv(main, counter) /\ ScanOK(event)
  BY <1>1 DEF MapsInv, RunInv, EventInv
<1>3. at \in States
  BY <1>2, PredictedIs DEF MainInv
<1> HIDE DEF at
<1>4. main' = [state |-> at, upto |-> event.t, map |-> main.map, built |-> main.built,
               due |-> main.due]
  BY <1>1, <1>2 DEF MainInv
<1>5. /\ main'.state = at /\ main'.upto = event.t /\ main'.map = main.map
      /\ main'.built = main.built /\ main'.due = main.due
  BY <1>4
<1>6. MainInv(main', counter)
  BY <1>2, <1>3, <1>4, <1>5 DEF MainInv, ScanOK
<1>7. RunInv' /\ node'.returning = node.returning
  BY <1>1, <1>2, RunStays DEF MapsInv
<1>8. counter' = counter /\ branches' = branches
  BY <1>1
<1> QED BY <1>6, <1>7, <1>8 DEF MapsInv

LEMMA CaptureMaps == MapsInv /\ Capture => MapsInv'
<1> SUFFICES ASSUME MapsInv, Capture PROVE MapsInv'
  OBVIOUS
<1>1. /\ node.pc = "capture" /\ Goto("release") /\ UNCHANGED <<config, event, main, pause>>
      /\ \E bytes \in Saved(Snapshot(main, counter)) :
           IF Capturable /\ Decodes(bytes) THEN CaptureFrom(bytes)
           ELSE UNCHANGED <<verdicts, counter, branches, harness>>
  BY DEF Capture
<1>2. ~node.returning /\ MainInv(main, counter)
  BY <1>1 DEF MapsInv, RunInv
<1>3. counter' = counter /\ \A b \in DOMAIN branches' : BranchInv(branches'[b])
  <2>1. PICK bytes \in Saved(Snapshot(main, counter)) :
           IF Capturable /\ Decodes(bytes) THEN CaptureFrom(bytes)
           ELSE UNCHANGED <<verdicts, counter, branches, harness>>
    BY <1>1
  <2>2. CASE Decodes(bytes) /\ CaptureFrom(bytes)
    BY <1>2, <2>2, CaptureIs
  <2>3. CASE UNCHANGED <<verdicts, counter, branches, harness>>
    BY <2>3 DEF MapsInv
  <2> QED BY <2>1, <2>2, <2>3
<1>4. RunInv' /\ node'.returning = node.returning
  BY <1>1, RunStays DEF MapsInv
<1>5. main' = main
  BY <1>1
<1> QED BY <1>2, <1>3, <1>4, <1>5 DEF MapsInv

LEMMA MapsStep == MapsInv /\ [ForkNext]_forkVars => MapsInv'
<1> SUFFICES ASSUME MapsInv, [ForkNext]_forkVars PROVE MapsInv'
  OBVIOUS
<1>1. CASE UNCHANGED <<config, node, event, main, counter, branches>>
  BY <1>1 DEF MapsInv, RunInv, EventInv
<1>2. CASE UNCHANGED forkVars
  BY <1>1, <1>2, Zenon DEF forkVars
<1>3. CASE ScriptSeesRequest \/ ScriptGoesOn
  BY <1>1, <1>3, Zenon DEF ScriptSeesRequest, ScriptGoesOn, nodeVars
<1>4. CASE NodeStep
  BY <1>4, PauseMaps, ForkMaps, ForkThrowsMaps, ImageMaps, ScanMaps, NothingMaps, CaptureMaps
     DEF NodeStep
<1> QED BY <1>2, <1>3, <1>4, SyncMaps DEF ForkNext

\* In every map of the estimator and of its copies the octrees are in shape and
\* no two planes share an id, while BuildVoxelMap and UpdateVoxelMap of up to four
\* maps draw ids from one counter, until an exception ends run.
THEOREM MapsAreCoherent == ForkSpec => []MapsCoherent
<1>1. MapsInv => MapsCoherent
  BY MapSound DEF MapsInv, MapsCoherent, MainInv, BranchInv
<1> QED BY <1>1, MapsInit, MapsStep, PTL DEF ForkSpec

\* b0 has measured the scan that the estimator is about to.
Ahead ==
  \E b : /\ BranchInv(b) /\ Twin(b, main, counter)
         /\ branches.b0 = RunBranch(b, event).branch
         /\ harness.pending = RunBranch(b, event).result

\* Up to the horizon b0 is the estimator's twin, or, while the estimator has yet
\* to measure the scan that b0 ran first, what a twin became by it.
Paired ==
  IF node.pc = "produce"
  THEN Ahead \/ (harness.finished /\ harness.pending = NoResult)
  ELSE harness.pending = NoResult /\ (harness.finished \/ Twin(branches.b0, main, counter))

\* The branches stand where the comparisons that are still to come need them.
ExactInv ==
  /\ harness = [captured |-> harness.captured, finished |-> harness.finished,
                first |-> harness.first, pending |-> harness.pending]
  /\ node.pc = "capture" => ~harness.captured /\ main.built
  /\ node.pc = "fork" => harness.captured /\ ~harness.finished
  /\ event.kind = "image" => config.livo
  /\ ~harness.captured => harness.pending = NoResult
  /\ harness.captured =>
       /\ main.built /\ config.stride = 1 /\ "b0" \in DOMAIN branches
       /\ config.all /\ harness.first =>
            "b1" \in DOMAIN branches /\ Alike(branches.b0, branches.b1)
       /\ config.livo \/ node.returning \/ Paired
  /\ config.stride = 1 /\ ~config.livo /\ main.built => Steady(main.map)
  /\ BranchesExact

LEMMA NoResultIs == NoResult.valid = FALSE
BY DEF NoResult

LEMMA ExactInit == ForkInit => ExactInv
<1> SUFFICES ASSUME ForkInit PROVE ExactInv
  OBVIOUS
<1>1. /\ node = [pc |-> "spin", returning |-> FALSE, time |-> 0] /\ event = [kind |-> "none"]
      /\ harness = [captured |-> FALSE, finished |-> FALSE, first |-> TRUE, pending |-> NoResult]
      /\ verdicts = {} /\ main = Start
  BY DEF ForkInit, NoEvent
<1> DEFINE start == [place |-> 0, ticks |-> 0, lio |-> 0, vio |-> 0]
<1>2. main.built = FALSE
  BY <1>1 DEF Start
<1>3. /\ node.pc = "spin" /\ event.kind = "none" /\ harness.captured = FALSE
      /\ harness.finished = FALSE /\ harness.first = TRUE /\ harness.pending = NoResult
  BY <1>1
<1> QED BY <1>1, <1>2, <1>3 DEF ExactInv, BranchesExact

\* A step that neither measures nor captures.
LEMMA ExactStay ==
  ASSUME MapsInv, ExactInv, UNCHANGED <<config, event, main, counter, branches, harness, verdicts>>,
         \/ UNCHANGED node
         \/ node.pc # "produce" /\ node'.pc \notin {"produce", "fork", "capture"}
              /\ (node.returning => node'.returning)
  PROVE  ExactInv'
<1>1. BranchesExact'
  BY DEF ExactInv, BranchesExact
<1>2. harness.captured => config.livo \/ node'.returning \/ Paired'
  <2>1. CASE UNCHANGED node
    BY <2>1 DEF ExactInv, Paired, Ahead, Twin, RunBranch
  <2>2. CASE node.pc # "produce" /\ node'.pc \notin {"produce", "fork", "capture"}
             /\ (node.returning => node'.returning)
    BY <2>2 DEF ExactInv, Paired, Twin
  <2> QED BY <2>1, <2>2
<1> QED BY <1>1, <1>2 DEF ExactInv, Alike, Steady

LEMMA PauseExact ==
  MapsInv /\ ExactInv /\ (Pausing \/ PauseRefused \/ Releasing \/ Released) => ExactInv'
<1> SUFFICES ASSUME MapsInv, ExactInv, Pausing \/ PauseRefused \/ Releasing \/ Released
             PROVE  ExactInv'
  OBVIOUS
<1>1. UNCHANGED <<config, event, main, counter, branches, harness, verdicts>>
  BY DEF Pausing, PauseRefused, Releasing, Released, nodeVars
<1>2. CASE Pausing \/ Releasing
  <2>1. UNCHANGED node
    BY <1>2 DEF Pausing, Releasing
  <2> QED BY <1>1, <2>1, ExactStay
<1>3. CASE PauseRefused
  <2>1. node.pc # "produce" /\ (Return \/ Goto("release"))
    BY <1>3 DEF PauseRefused
  <2>2. node'.pc = "release" /\ (node.returning => node'.returning)
    BY <2>1, GotoIs, ReturnIs DEF MapsInv
  <2> QED BY <1>1, <2>1, <2>2, ExactStay
<1>4. CASE Released
  <2> DEFINE pc == IF node.returning THEN "ended" ELSE "spin"
  <2>1. node.pc # "produce" /\ Goto(pc)
    BY <1>4 DEF Released
  <2>2. pc \notin {"produce", "fork", "capture"}
    OBVIOUS
  <2> HIDE DEF pc
  <2>3. node'.pc = pc /\ node'.returning = node.returning
    BY <2>1, GotoIs DEF MapsInv
  <2> QED BY <1>1, <2>1, <2>2, <2>3, ExactStay
<1> QED BY <1>2, <1>3, <1>4

LEMMA SyncExact == MapsInv /\ ExactInv /\ Sync => ExactInv'
<1> SUFFICES ASSUME MapsInv, ExactInv, Sync PROVE ExactInv'
  OBVIOUS
<1> DEFINE t == node.time + 1
           ticks == t - main.upto
<1>1. /\ node.pc = "spin" /\ UNCHANGED <<config, main, counter, branches, harness, pause, verdicts>>
      /\ \/ /\ event'.kind = "scan"
            /\ node' = [node EXCEPT !.time = t, !.pc = IF Forking THEN "fork" ELSE "produce"]
         \/ /\ event'.kind = "image" /\ config.livo
            /\ node' = [node EXCEPT !.time = t, !.pc = "produce"]
  <2>1. \/ /\ \E s \in ScansNow :
              event' = [kind |-> "scan", move |-> s.move, points |-> s.points, t |-> t,
                           ticks |-> ticks]
           /\ node' = [node EXCEPT !.time = t, !.pc = IF Forking THEN "fork" ELSE "produce"]
        \/ /\ \E accepted \in BOOLEAN, saw \in SUBSET ImageVoxels :
                 event' = [kind |-> "image", accepted |-> accepted, seen |-> saw, t |-> t,
                           ticks |-> ticks]
           /\ node' = [node EXCEPT !.time = t, !.pc = "produce"]
           /\ config.livo
    BY DEF Sync
  <2>2. node.pc = "spin" /\ UNCHANGED <<config, main, counter, branches, harness, pause, verdicts>>
    BY DEF Sync
  <2> HIDE DEF t, ticks
  <2> QED BY <2>1, <2>2
<1> DEFINE pc == IF event'.kind = "scan" /\ Forking THEN "fork" ELSE "produce"
<1>2. node' = [node EXCEPT !.time = t, !.pc = pc] /\ (event'.kind = "image" => config.livo)
  BY <1>1
<1>3. pc \in {"fork", "produce"} /\ (pc = "fork" => harness.captured /\ ~harness.finished)
  BY DEF Forking
<1>4. pc = "produce" => config.livo \/ ~harness.captured \/ harness.finished
  BY <1>1 DEF Forking
<1> HIDE DEF t, pc
<1>5. node' = [pc |-> pc, returning |-> node.returning, time |-> t]
  BY <1>2 DEF MapsInv, RunInv
<1>6. node'.pc = pc /\ node'.returning = node.returning
  BY <1>5
<1>7. BranchesExact'
  BY <1>1 DEF ExactInv, BranchesExact
<1>8. harness.captured => config.livo \/ node'.returning \/ Paired'
  BY <1>1, <1>3, <1>4, <1>6 DEF ExactInv, Paired, Twin
<1> QED BY <1>1, <1>2, <1>3, <1>6, <1>7, <1>8 DEF ExactInv, Alike, Steady

LEMMA ForkExact == MapsInv /\ ExactInv /\ Fork => ExactInv'
<1> SUFFICES ASSUME MapsInv, ExactInv, Fork PROVE ExactInv'
  OBVIOUS
<1> DEFINE ran  == [b \in DOMAIN branches |-> RunBranch(branches[b], event)]
           disk == config.all /\ harness.first
           fin  == event.t >= EndAt
<1>1. /\ node.pc = "fork" /\ Goto("produce") /\ UNCHANGED <<config, event, main, counter, pause>>
      /\ branches' = [b \in DOMAIN branches |-> ran[b].branch]
      /\ verdicts' = verdicts \cup IF disk THEN Verdict("disk", ran.b0.result, ran.b1.result)
                                   ELSE {}
      /\ harness' = [harness EXCEPT !.pending = ran.b0.result, !.first = FALSE, !.finished = fin]
  BY DEF Fork, RunBranches
<1>2. ~node.returning /\ event.kind = "scan" /\ ScanOK(event) /\ harness.captured
  BY <1>1 DEF MapsInv, RunInv, EventInv, ExactInv
<1>3. "b0" \in DOMAIN branches /\ BranchInv(branches["b0"]) /\ branches["b0"] = branches.b0
  BY <1>2 DEF ExactInv, MapsInv
<1>4. ran.b0 = RunBranch(branches.b0, event)
  BY <1>3
<1>5. disk => /\ ran.b1 = RunBranch(branches.b1, event) /\ BranchInv(branches.b1)
              /\ Alike(branches.b0, branches.b1)
  <2> SUFFICES ASSUME disk PROVE /\ ran.b1 = RunBranch(branches.b1, event) /\ BranchInv(branches.b1)
                                 /\ Alike(branches.b0, branches.b1)
    OBVIOUS
  <2>1. "b1" \in DOMAIN branches /\ Alike(branches.b0, branches.b1)
    BY <1>2 DEF ExactInv
  <2>2. BranchInv(branches["b1"]) /\ branches["b1"] = branches.b1
    BY <2>1 DEF MapsInv
  <2> QED BY <2>1, <2>2
<1>6. disk => Agree(ran.b0.result, ran.b1.result)
  <2> SUFFICES ASSUME disk PROVE Agree(ran.b0.result, ran.b1.result)
    OBVIOUS
  <2> DEFINE b0 == branches.b0
             b1 == branches.b1
             r0 == RunBranch(b0, event)
             r1 == RunBranch(b1, event)
             e0 == Ours(b0, event, Where(b0, event))
             e1 == Ours(b1, event, Where(b1, event))
  <2>1. BranchInv(b0) /\ BranchInv(b1) /\ Alike(b0, b1)
    BY <1>3, <1>5
  <2> HIDE DEF b0, b1
  <2>2. e0 = e1
    BY <2>1 DEF Ours, Where, Alike
  <2> HIDE DEF e0, e1
  <2>3. IF event.points = <<>> THEN r0.result = NoResult
        ELSE r0.result = [valid |-> TRUE, t |-> event.t, state |-> e0.state,
                          matches |-> e0.matches, origin |-> "propagation"]
    BY <1>2, <2>1, RunBranchIs DEF e0
  <2>4. IF event.points = <<>> THEN r1.result = NoResult
        ELSE r1.result = [valid |-> TRUE, t |-> event.t, state |-> e1.state,
                          matches |-> e1.matches, origin |-> "propagation"]
    BY <1>2, <2>1, RunBranchIs DEF e1
  <2> HIDE DEF r0, r1
  <2>5. r0.result = r1.result
    BY <2>2, <2>3, <2>4
  <2>6. ran.b0 = r0 /\ ran.b1 = r1
    BY <1>4, <1>5 DEF r0, r1, b0, b1
  <2> HIDE DEF ran
  <2> QED BY <2>5, <2>6 DEF Agree
<1>7. branches'.b0 = RunBranch(branches.b0, event).branch /\ "b0" \in DOMAIN branches'
  <2> DEFINE r0 == RunBranch(branches.b0, event)
  <2>1. ran["b0"] = r0
    BY <1>3
  <2> HIDE DEF ran, r0
  <2>2. branches'["b0"] = r0.branch /\ "b0" \in DOMAIN branches'
    BY <1>1, <1>3, <2>1
  <2> QED BY <2>2 DEF r0
<1> DEFINE r == ran.b0.result
<1>8. r = RunBranch(branches.b0, event).result
  BY <1>4
<1> HIDE DEF ran, r, fin, disk
<1>9. harness' = [captured |-> harness.captured, finished |-> fin, first |-> FALSE, pending |-> r]
  BY <1>1 DEF ExactInv, r
<1>10. /\ harness'.captured = harness.captured /\ harness'.finished = fin
       /\ harness'.first = FALSE /\ harness'.pending = r
  BY <1>9
<1>11. node'.pc = "produce" /\ node'.returning = node.returning
  BY <1>1, GotoIs DEF MapsInv
<1>12. BranchesExact'
  <2>1. \A v \in verdicts' : v \in verdicts \/ v.pass
    <3>1. CASE disk
      <4>1. verdicts' = verdicts \cup {[kind |-> "disk", pass |-> Agree(ran.b0.result, ran.b1.result)]}
        BY <1>1, <3>1 DEF Verdict
      <4>2. Agree(ran.b0.result, ran.b1.result)
        BY <1>6, <3>1
      <4> QED BY <4>1, <4>2
    <3>2. CASE ~disk
      BY <1>1, <3>2
    <3> QED BY <3>1, <3>2
  <2> QED BY <1>1, <2>1 DEF ExactInv, BranchesExact
<1>13. config.livo \/ Paired'
  <2> SUFFICES ASSUME ~config.livo PROVE Paired'
    OBVIOUS
  <2>1. Twin(branches.b0, main, counter)
    BY <1>1, <1>2 DEF ExactInv, Paired
  <2>2. PICK b : b = branches.b0
    OBVIOUS
  <2>3. BranchInv(b) /\ Twin(b, main', counter')
    BY <1>1, <1>3, <2>1, <2>2
  <2>4. branches'.b0 = RunBranch(b, event').branch /\ harness'.pending = RunBranch(b, event').result
    BY <1>1, <1>7, <1>8, <1>10, <2>2
  <2> QED BY <1>11, <2>3, <2>4 DEF Paired, Ahead
<1> QED BY <1>1, <1>2, <1>7, <1>9, <1>10, <1>11, <1>12, <1>13 DEF ExactInv, Steady

LEMMA ForkThrowsExact == MapsInv /\ ExactInv /\ ForkThrows => ExactInv'
<1> SUFFICES ASSUME MapsInv, ExactInv, ForkThrows PROVE ExactInv'
  OBVIOUS
<1>1. Return /\ UNCHANGED <<config, event, main, branches, harness, pause, verdicts>>
  BY DEF ForkThrows
<1>2. node'.pc = "release" /\ node'.returning = TRUE
  BY <1>1, ReturnIs DEF MapsInv
<1>3. BranchesExact'
  BY <1>1 DEF ExactInv, BranchesExact
<1> QED BY <1>1, <1>2, <1>3 DEF ExactInv, Alike, Steady

LEMMA ImageExact == MapsInv /\ ExactInv /\ ProduceImage => ExactInv'
<1> SUFFICES ASSUME MapsInv, ExactInv, ProduceImage PROVE ExactInv'
  OBVIOUS
<1>1. /\ event.kind = "image" /\ Goto("release")
      /\ UNCHANGED <<config, event, counter, branches, harness, pause, verdicts>>
  BY DEF ProduceImage
<1>2. config.livo /\ main'.built = main.built
  BY <1>1, ImageMaps DEF ExactInv
<1>3. node'.pc = "release" /\ node'.returning = node.returning
  BY <1>1, GotoIs DEF MapsInv
<1>4. BranchesExact'
  BY <1>1 DEF ExactInv, BranchesExact
<1> QED BY <1>1, <1>2, <1>3, <1>4 DEF ExactInv, Alike

LEMMA NothingExact == MapsInv /\ ExactInv /\ ProduceNothing => ExactInv'
<1> SUFFICES ASSUME MapsInv, ExactInv, ProduceNothing PROVE ExactInv'
  OBVIOUS
<1> DEFINE at == Predicted(main.state, event)
<1>1. /\ node.pc = "produce" /\ event.kind = "scan" /\ event.points = <<>> /\ Goto("release")
      /\ UNCHANGED <<config, event, counter, branches, harness, pause, verdicts>>
      /\ main' = [main EXCEPT !.upto = event.t, !.state = at]
  BY DEF ProduceNothing
<1>2. ~node.returning /\ MainInv(main, counter) /\ ScanOK(event)
  BY <1>1 DEF MapsInv, RunInv, EventInv
<1> HIDE DEF at
<1>3. main' = [state |-> at, upto |-> event.t, map |-> main.map, built |-> main.built,
               due |-> main.due]
  BY <1>1, <1>2 DEF MainInv
<1>4. /\ main'.state = at /\ main'.upto = event.t /\ main'.map = main.map
      /\ main'.built = main.built
  BY <1>3
<1>5. node'.pc = "release" /\ node'.returning = node.returning
  BY <1>1, GotoIs DEF MapsInv
<1>6. BranchesExact'
  BY <1>1 DEF ExactInv, BranchesExact
<1>7. harness.captured => config.livo \/ Paired'
  <2> SUFFICES ASSUME harness.captured, ~config.livo PROVE Paired'
    OBVIOUS
  <2>1. Ahead \/ (harness.finished /\ harness.pending = NoResult)
    BY <1>1, <1>2 DEF ExactInv, Paired
  <2>2. CASE harness.finished /\ harness.pending = NoResult
    BY <1>1, <1>5, <2>2 DEF Paired
  <2>3. CASE Ahead
    <3>1. PICK b : /\ BranchInv(b) /\ Twin(b, main, counter)
                   /\ branches.b0 = RunBranch(b, event).branch
                   /\ harness.pending = RunBranch(b, event).result
      BY <2>3 DEF Ahead
    <3> DEFINE c == RunBranch(b, event).branch
    <3>2. /\ c.mode = b.mode /\ c.upto = event.t /\ c.state = Predicted(b.state, event)
          /\ c.map = b.map /\ c.next = b.next /\ RunBranch(b, event).result = NoResult
      BY <1>1, <1>2, <3>1, RunBranchIs
    <3>3. Predicted(b.state, event) = at
      BY <3>1 DEF Twin, at
    <3> HIDE DEF c
    <3>4. Twin(c, main', counter')
      BY <1>1, <1>4, <3>1, <3>2, <3>3 DEF Twin
    <3>5. branches'.b0 = c /\ harness'.pending = NoResult
      BY <1>1, <3>1, <3>2 DEF c
    <3> QED BY <1>5, <3>4, <3>5 DEF Paired
  <2> QED BY <2>1, <2>2, <2>3
<1> QED BY <1>1, <1>4, <1>5, <1>6, <1>7 DEF ExactInv, Alike

LEMMA ScanExact == MapsInv /\ ExactInv /\ ProduceScan => ExactInv'
<1> SUFFICES ASSUME MapsInv, ExactInv, ProduceScan PROVE ExactInv'
  OBVIOUS
<1> DEFINE at     == Predicted(main.state, event)
           world  == World(event.points, at.place)
           produced    == Produced(at, world)
           result == [valid |-> TRUE, t |-> event.t, state |-> produced.est.state,
                      matches |-> produced.matches,
                      origin |-> IF config.livo THEN "scan" ELSE "propagation"]
           judged == harness.pending.valid /\ harness.pending.t = event.t
           pc     == IF ~harness.captured /\ event.t >= CaptureAt THEN "capture" ELSE "release"
<1>1. /\ node.pc = "produce" /\ event.kind = "scan" /\ event.points # <<>> /\ Goto(pc)
      /\ UNCHANGED <<config, event, branches, pause>>
      /\ main' = produced.est /\ counter' = produced.next
      /\ verdicts' = verdicts \cup IF judged THEN Verdict("memory", result, harness.pending) ELSE {}
      /\ harness' = IF judged THEN [harness EXCEPT !.pending = NoResult] ELSE harness
  BY DEF ProduceScan
<1>2. ~node.returning /\ MainInv(main, counter) /\ ScanOK(event)
  BY <1>1 DEF MapsInv, RunInv, EventInv
<1>3. at \in States
  BY <1>2, PredictedIs DEF MainInv
<1>4. world \in Seq(WorldPoints)
  BY <1>2, <1>3, WorldIs DEF States, ScanOK
<1>5. produced.est.built = TRUE /\ (MapDue => Steady(produced.est.map))
  <2> HIDE DEF at, world
  <2> QED BY <1>2, <1>3, <1>4, ProduceKeeps
<1>6. config.stride = 1 => MapDue
  BY <1>2 DEF MapDue, MainInv
<1>7. main'.built = TRUE /\ (config.stride = 1 => Steady(main'.map))
  <2> HIDE DEF produced
  <2> QED BY <1>1, <1>5, <1>6
<1>8. node'.pc = pc /\ node'.returning = node.returning
  <2> HIDE DEF pc
  <2> QED BY <1>1, GotoIs DEF MapsInv
<1>9. pc # "fork" /\ pc # "produce" /\ (pc = "capture" => ~harness.captured)
  OBVIOUS
<1>10. /\ harness'.captured = harness.captured /\ harness'.finished = harness.finished
       /\ harness'.first = harness.first
       /\ harness'.pending = IF judged THEN NoResult ELSE harness.pending
       /\ harness' = [captured |-> harness'.captured, finished |-> harness'.finished,
                      first |-> harness'.first, pending |-> harness'.pending]
  <2> HIDE DEF judged
  <2>1. CASE judged
    <3>1. harness' = [captured |-> harness.captured, finished |-> harness.finished,
                      first |-> harness.first, pending |-> NoResult]
      BY <1>1, <2>1 DEF ExactInv
    <3> QED BY <2>1, <3>1
  <2>2. CASE ~judged
    BY <1>1, <2>2 DEF ExactInv
  <2> QED BY <2>1, <2>2
\* What b0 said and became is what the estimator says and becomes.
<1>11. harness.captured /\ ~config.livo /\ Ahead =>
         judged /\ harness.pending = result /\ Twin(branches.b0, main', counter')
  <2> SUFFICES ASSUME harness.captured, ~config.livo, Ahead
               PROVE  judged /\ harness.pending = result /\ Twin(branches.b0, main', counter')
    OBVIOUS
  <2>1. PICK b : /\ BranchInv(b) /\ Twin(b, main, counter)
                 /\ branches.b0 = RunBranch(b, event).branch
                 /\ harness.pending = RunBranch(b, event).result
    BY DEF Ahead
  <2>2. main.built /\ config.stride = 1 /\ Steady(main.map)
    BY DEF ExactInv
  <2> DEFINE ran == RunBranch(b, event)
  <2>3. /\ ran.branch.state = produced.est.state /\ ran.branch.upto = produced.est.upto
        /\ ran.branch.map = produced.est.map /\ ran.branch.next = produced.next
        /\ ran.result = [valid |-> TRUE, t |-> event.t, state |-> produced.est.state,
                         matches |-> produced.matches, origin |-> "propagation"]
    BY <1>1, <1>2, <2>1, <2>2, BothMeasure DEF Twin
  <2>4. ran.branch.mode = "evolving"
    BY <1>2, <2>1, RunBranchIs DEF Twin
  <2> HIDE DEF ran, produced
  <2>5. branches.b0 = ran.branch /\ harness.pending = ran.result
    BY <2>1 DEF ran
  <2>6. Twin(branches.b0, main', counter')
    BY <1>1, <2>3, <2>4, <2>5 DEF Twin
  <2>7. harness.pending = result
    BY <2>3, <2>5
  <2>8. harness.pending.valid = TRUE /\ harness.pending.t = event.t
    BY <2>3, <2>5
  <2> QED BY <2>6, <2>7, <2>8
<1> HIDE DEF at, world, produced, result, judged, pc
<1>12. ~harness.captured \/ (harness.finished /\ harness.pending = NoResult) => ~judged
  BY NoResultIs DEF judged, ExactInv
<1>13. harness.captured /\ ~config.livo =>
         Ahead \/ (harness.finished /\ harness.pending = NoResult)
  BY <1>1, <1>2 DEF ExactInv, Paired
<1>14. BranchesExact'
  <2>1. CASE judged
    <3>1. verdicts' = verdicts \cup {[kind |-> "memory", pass |-> Agree(result, harness.pending)]}
      BY <1>1, <2>1 DEF Verdict
    <3>2. config.livo \/ harness.pending = result
      BY <1>11, <1>12, <1>13, <2>1
    <3>3. config.livo \/ Agree(result, harness.pending)
      BY <3>2 DEF Agree
    <3> QED BY <1>1, <3>1, <3>3 DEF ExactInv, BranchesExact
  <2>2. CASE ~judged
    BY <1>1, <2>2 DEF ExactInv, BranchesExact
  <2> QED BY <2>1, <2>2
<1>15. harness.captured => config.livo \/ Paired'
  <2> SUFFICES ASSUME harness.captured, ~config.livo PROVE Paired'
    OBVIOUS
  <2>1. CASE Ahead
    BY <1>1, <1>8, <1>9, <1>10, <1>11, <2>1 DEF Paired
  <2>2. CASE harness.finished /\ harness.pending = NoResult
    BY <1>8, <1>9, <1>10, <1>12, <2>2 DEF Paired
  <2> QED BY <1>13, <2>1, <2>2
<1>16. ~harness.captured => harness'.pending = NoResult
  BY <1>10 DEF ExactInv
<1> QED BY <1>1, <1>7, <1>8, <1>9, <1>10, <1>14, <1>15, <1>16 DEF ExactInv, Alike

LEMMA CaptureExact == MapsInv /\ ExactInv /\ Capture => ExactInv'
<1> SUFFICES ASSUME MapsInv, ExactInv, Capture PROVE ExactInv'
  OBVIOUS
<1>1. /\ node.pc = "capture" /\ Goto("release") /\ UNCHANGED <<config, event, main, pause>>
      /\ \E bytes \in Saved(Snapshot(main, counter)) :
           IF Capturable /\ Decodes(bytes) THEN CaptureFrom(bytes)
           ELSE UNCHANGED <<verdicts, counter, branches, harness>>
  BY DEF Capture
<1>2. ~node.returning /\ MainInv(main, counter) /\ ~harness.captured /\ main.built
      /\ harness.pending = NoResult
  BY <1>1 DEF MapsInv, RunInv, ExactInv
<1>3. node'.pc = "release" /\ node'.returning = node.returning
  BY <1>1, GotoIs DEF MapsInv
<1>4. PICK bytes \in Saved(Snapshot(main, counter)) :
           IF Capturable /\ Decodes(bytes) THEN CaptureFrom(bytes)
           ELSE UNCHANGED <<verdicts, counter, branches, harness>>
  BY <1>1
<1>5. CASE Capturable /\ Decodes(bytes) /\ CaptureFrom(bytes)
  <2>1. /\ "b0" \in DOMAIN branches' /\ Twin(branches'.b0, main, counter)
        /\ config.all => "b1" \in DOMAIN branches' /\ Alike(branches'.b0, branches'.b1)
        /\ counter' = counter /\ harness' = [harness EXCEPT !.captured = TRUE]
        /\ verdicts' = verdicts \cup {[kind |-> "capture", pass |-> TRUE]}
    BY <1>2, <1>5, CaptureIs
  <2>2. harness' = [captured |-> TRUE, finished |-> harness.finished,
                    first |-> harness.first, pending |-> harness.pending]
    BY <2>1 DEF ExactInv
  <2>3. /\ harness'.captured = TRUE /\ harness'.finished = harness.finished
        /\ harness'.first = harness.first /\ harness'.pending = NoResult
    BY <1>2, <2>2
  <2>4. BranchesExact'
    BY <1>1, <2>1 DEF ExactInv, BranchesExact
  <2>5. Paired'
    BY <1>1, <1>3, <2>1, <2>3 DEF Paired
  <2>6. config.stride = 1
    BY <1>5 DEF Capturable
  <2> QED BY <1>1, <1>2, <1>3, <2>1, <2>2, <2>3, <2>4, <2>5, <2>6 DEF ExactInv, Steady
<1>6. CASE UNCHANGED <<verdicts, counter, branches, harness>>
  <2>1. BranchesExact'
    BY <1>1, <1>6 DEF ExactInv, BranchesExact
  <2> QED BY <1>1, <1>2, <1>3, <1>6, <2>1 DEF ExactInv, Steady
<1> QED BY <1>4, <1>5, <1>6

LEMMA ExactStep == MapsInv /\ ExactInv /\ [ForkNext]_forkVars => ExactInv'
<1> SUFFICES ASSUME MapsInv, ExactInv, [ForkNext]_forkVars PROVE ExactInv'
  OBVIOUS
<1>1. CASE UNCHANGED <<config, node, event, main, counter, branches, harness, verdicts>>
  BY <1>1, ExactStay
<1>2. CASE UNCHANGED forkVars
  BY <1>1, <1>2, Zenon DEF forkVars
<1>3. CASE ScriptSeesRequest \/ ScriptGoesOn
  BY <1>1, <1>3, Zenon DEF ScriptSeesRequest, ScriptGoesOn, nodeVars
<1>4. CASE NodeStep
  BY <1>4, PauseExact, ForkExact, ForkThrowsExact, ImageExact, ScanExact, NothingExact, CaptureExact
     DEF NodeStep
<1> QED BY <1>2, <1>3, <1>4, SyncExact DEF ForkNext

\* What captureSnapshot took, memory and file give back, and without images the
\* copy restored from it measures every scan as the estimator does, from the
\* snapshot to the horizon, with the same matches and plane ids.
THEOREM CopiesAreExact == ForkSpec => []BranchesExact
<1>1. MapsInv /\ ExactInv => BranchesExact
  BY DEF ExactInv
<1> QED BY <1>1, MapsInit, MapsStep, ExactInit, ExactStep, PTL DEF ForkSpec
=============================================================================
