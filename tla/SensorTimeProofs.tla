--------------------------- MODULE SensorTimeProofs ---------------------------
(* For every number of boots, events, copies and observations: the sessions   *)
(* of LOCAL time stay apart (SessionsApart of SensorTime), after a loss the   *)
(* mapping is continued (RelockContinuous), and the recorder keeps its bags   *)
(* to the sessions (RecordsItsSession of SessionRecorder).  The second part   *)
(* is about the anchor file (ImuTimeAnchor): nothing torn is read of it.      *)
(*                                                                            *)
(* What a pair of times belongs to is carried along from where it is made:    *)
(* what the host's clock stamped counts in the session it is sent under, and  *)
(* the bridge takes that of its own session only.  A boot that was left is    *)
(* retired, so it is never begun again, though its BOOT is sent again or      *)
(* arrives late.  Nothing is said of pairs that the driver's mapping stamped. *)
EXTENDS SensorTime, SessionRecorder, ImuTimeAnchor, SequenceTheorems, TLAPS

States == {"LOCAL_ONLY", "ACQUIRING", "LOCKED", "HOLDOVER", "RELOCKING", "INVALID"}
Types  == Streams \cup {"BOOT"}

Origins == {"host", "mapping"}

PairOf(b) ==
  {p \in [local : Int, utc : Int, from : Origins, boot : Nat] : p.from = "host" => p.boot = b}
MapOf(b) ==
  [state : States, active : Int \cup {None}, pairs : Seq(PairOf(b)),
   candidate : Seq(PairOf(b)), last : Int, lost : Int]
BridgeOf(b) ==
  [boot : {b}, retired : SUBSET Nat, seq : Int, gate : [Types -> Int], latest : Int,
   ready : Int, host : [n : Int, at : Int, local : Int, diff : Int], map : MapOf(b)]

Event == [boot : Nat \ {0}, type : Types, seq : Int, local : Int, at : Int]
Published == [state : States, active : Int \cup {None}, boot : Nat]
Reported ==
  {o \in [session : Nat, local : Int, utc : Int, associated : BOOLEAN, from : Origins, boot : Nat] :
     o.from = "host" => o.boot = o.session}

TimeTypeOK ==
  /\ now \in Nat /\ mcu \in [boot : Nat \ {0}, seq : Int, since : Int] /\ resent \in Nat
  /\ queue \in Seq(Event)
  /\ bridge.boot \in Nat /\ bridge \in BridgeOf(bridge.boot)
  /\ mapping_topic \in Published \cup {None}
  /\ observations \in Seq(Reported)
  /\ jumped \in Nat
  /\ gnss \in [map : Published \cup {None}, last : Int, date : Int]
  /\ sessions \in Seq(Nat \ {0})

\* the sessions begun are the one the bridge is in and those it has left
Retired ==
  /\ \A i \in DOMAIN sessions : sessions[i] \in bridge.retired \cup {bridge.boot}
  /\ \A i, j \in DOMAIN sessions : i # j => sessions[i] # sessions[j]
  /\ bridge.boot # NoBoot => bridge.boot \notin bridge.retired
  /\ bridge.boot = NoBoot => bridge.retired = {}

TimeInv == TimeTypeOK /\ Retired
-----------------------------------------------------------------------------
\* The newest of a sequence are of the same kind.
LEMMA NewestType ==
  ASSUME NEW S, NEW s \in Seq(S), NEW n \in Nat
  PROVE  Newest(s, n) \in Seq(S)
<1>0. PICK l \in Nat : l = Len(s)
  OBVIOUS
<1>1. PICK m \in 1..(l + 1) : m = IF l > n THEN l - n + 1 ELSE 1
  <2>1. CASE l > n
    BY <2>1
  <2>2. CASE ~(l > n)
    BY <2>2
  <2> QED BY <2>1, <2>2
<1>2. SubSeq(s, m, Len(s)) \in Seq(S)
  <2>1. ASSUME NEW i \in m..Len(s) PROVE s[i] \in S
    BY <1>0
  <2> QED BY <1>0, <2>1, SubSeqProperties
<1> QED BY <1>0, <1>1, <1>2 DEF Newest

LEMMA PushType ==
  ASSUME NEW q \in Seq(Event), NEW e \in Event
  PROVE  Push(q, e) \in Seq(Event)
<1>1. Append(q, e) \in Seq(Event)
  OBVIOUS
<1> QED BY <1>1, NewestType, BridgeAssumption DEF Push

LEMMA FedType ==
  ASSUME NEW q \in Seq(Event), NEW e \in Event, NEW times \in Nat
  PROVE  Fed(q, e, times) \in Seq(Event)
<1>1. [i \in 1..times |-> e] \in Seq(Event)
  OBVIOUS
<1>2. q \o [i \in 1..times |-> e] \in Seq(Event)
  BY <1>1
<1> QED BY <1>2, NewestType, BridgeAssumption DEF Fed
-----------------------------------------------------------------------------
(* MappingStateMachine                                                       *)

LEMMA NoPairs ==
  ASSUME NEW b \in Nat
  PROVE  <<>> \in Seq(PairOf(b))
OBVIOUS

LEMMA NoMappingType ==
  ASSUME NEW b \in Nat
  PROVE  NoMapping \in MapOf(b)
<1>1. PICK s \in Seq(PairOf(b)) : s = <<>>
  BY NoPairs
<1>2. PICK a \in Int \cup {None} : a = None
  OBVIOUS
<1>3. [state |-> "LOCAL_ONLY", active |-> a, pairs |-> s, candidate |-> s, last |-> 0, lost |-> 0]
        \in MapOf(b)
  BY DEF MapOf, States
<1> QED BY <1>1, <1>2, <1>3 DEF NoMapping

\* The loss of the pairs leaves pairs of the same boot.
LEMMA UpdateType ==
  ASSUME NEW b \in Nat, NEW m \in MapOf(b), NEW local \in Int
  PROVE  Update(m, local) \in MapOf(b)
<1>1. PICK o : o = Outage(m, local)
  OBVIOUS
<1>2. o \in MapOf(b)
  <2>1. [m EXCEPT !.state = "HOLDOVER", !.lost = m.last] \in MapOf(b)
    BY DEF MapOf, States
  <2>2. [m EXCEPT !.state = "LOCAL_ONLY", !.pairs = <<>>] \in MapOf(b)
    <3>1. PICK s \in Seq(PairOf(b)) : s = <<>>
      BY NoPairs
    <3>2. [m EXCEPT !.state = "LOCAL_ONLY", !.pairs = s] \in MapOf(b)
      BY DEF MapOf, States
    <3> QED BY <3>1, <3>2
  <2> QED BY <1>1, <2>1, <2>2 DEF Outage
<1>3. Expired(o, local) \in MapOf(b)
  <2>1. [o EXCEPT !.state = "INVALID"] \in MapOf(b)
    BY <1>2 DEF MapOf, States
  <2> QED BY <1>2, <2>1 DEF Expired
<1> QED BY <1>1, <1>3 DEF Update

LEMMA OffsetsType ==
  ASSUME NEW b \in Nat, NEW ps \in Seq(PairOf(b))
  PROVE  Offsets(ps) \subseteq Int
<1>1. ASSUME NEW i \in DOMAIN ps PROVE Offset(ps[i]) \in Int
  <2>1. ps[i] \in PairOf(b)
    OBVIOUS
  <2> QED BY <2>1 DEF Offset, PairOf
<1> QED BY <1>1 DEF Offsets

LEMMA LockType ==
  ASSUME NEW b \in Nat, NEW m \in MapOf(b), NEW o \in Int
  PROVE  Install(m, o) \in MapOf(b) /\ Lock(m, o) \in MapOf(b)
<1>1. PICK i : i = Install(m, o)
  OBVIOUS
<1>2. i \in MapOf(b) /\ i.candidate = m.candidate
  BY <1>1 DEF Install, MapOf
<1>3. PICK k : k = [i EXCEPT !.state = "LOCKED"]
  OBVIOUS
<1>4. k \in MapOf(b)
  BY <1>2, <1>3 DEF MapOf, States
<1>5. [k EXCEPT !.pairs = m.candidate, !.candidate = <<>>] \in MapOf(b)
  <2>1. PICK c \in Seq(PairOf(b)) : c = m.candidate
    BY DEF MapOf
  <2>2. PICK s \in Seq(PairOf(b)) : s = <<>>
    BY NoPairs
  <2>3. [k EXCEPT !.pairs = c, !.candidate = s] \in MapOf(b)
    BY <1>4 DEF MapOf
  <2> QED BY <2>1, <2>2, <2>3
<1> QED BY <1>1, <1>2, <1>3, <1>4, <1>5 DEF Lock

LEMMA GrowType ==
  ASSUME NEW b \in Nat, NEW m \in MapOf(b), NEW p \in PairOf(b)
  PROVE  Grow(m, p) \in MapOf(b)
<1>1. ASSUME NEW s \in Seq(PairOf(b)) PROVE Newest(Append(s, p), Window) \in Seq(PairOf(b))
  <2>1. Append(s, p) \in Seq(PairOf(b)) /\ Window \in Nat
    BY MappingAssumption
  <2> QED BY <2>1, NewestType
<1>2. m.candidate \in Seq(PairOf(b)) /\ m.pairs \in Seq(PairOf(b)) /\ m.state \in States
  BY DEF MapOf
<1>3. PICK c \in Seq(PairOf(b)) :
        c = IF m.state = "RELOCKING" THEN Newest(Append(m.candidate, p), Window) ELSE m.candidate
  BY <1>1, <1>2
<1>4. PICK q \in Seq(PairOf(b)) :
        q = IF m.state = "RELOCKING" THEN m.pairs ELSE Newest(Append(m.pairs, p), Window)
  BY <1>1, <1>2
<1>5. PICK st \in States : st = IF m.state = "LOCAL_ONLY" THEN "ACQUIRING" ELSE m.state
  BY <1>2 DEF States
<1>6. PICK l \in Int : l = p.local
  BY DEF PairOf
<1>7. Grow(m, p) = [m EXCEPT !.candidate = c, !.pairs = q, !.last = l, !.state = st]
  BY <1>3, <1>4, <1>5, <1>6 DEF Grow
<1>8. [m EXCEPT !.candidate = c, !.pairs = q, !.last = l, !.state = st] \in MapOf(b)
  BY DEF MapOf
<1> QED BY <1>7, <1>8

\* One more pair of the boot leaves pairs of the boot only.
LEMMA AddPairType ==
  ASSUME NEW b \in Nat, NEW m \in MapOf(b), NEW p \in PairOf(b), NEW r \in AddPair(m, p)
  PROVE  r \in MapOf(b)
<1>1. PICK e \in MapOf(b) : e = Enter(m)
  <2>1. [m EXCEPT !.state = "RELOCKING", !.candidate = <<>>] \in MapOf(b)
    <3>1. PICK s \in Seq(PairOf(b)) : s = <<>>
      BY NoPairs
    <3>2. [m EXCEPT !.state = "RELOCKING", !.candidate = s] \in MapOf(b)
      BY DEF MapOf, States
    <3> QED BY <3>1, <3>2
  <2> QED BY <2>1 DEF Enter
<1>2. PICK g \in MapOf(b) : g = Grow(e, p)
  BY GrowType
<1>3. Fitted(g) \in Seq(PairOf(b)) /\ g.pairs \in Seq(PairOf(b))
  BY DEF Fitted, MapOf
<1>4. \A o \in Offsets(Fitted(g)) : Lock(g, o) \in MapOf(b)
  BY <1>3, OffsetsType, LockType
<1>5. \A o \in Offsets(g.pairs) : Install(g, o) \in MapOf(b)
  BY <1>3, OffsetsType, LockType
<1>6. Accepted(g) \subseteq MapOf(b)
  BY <1>4 DEF Accepted
<1>7. Refused(g) \subseteq MapOf(b)
  BY <1>5 DEF Refused
<1> QED BY <1>1, <1>2, <1>6, <1>7 DEF AddPair
-----------------------------------------------------------------------------
(* BridgeNode                                                                *)

\* Timing an event leaves the session, its predecessors and the mapping.
LEMMA TimedType ==
  ASSUME NEW k \in Nat, NEW b \in BridgeOf(k), NEW e \in Event
  PROVE  /\ Timed(b, e) \in BridgeOf(k)
         /\ Timed(b, e).retired = b.retired /\ Timed(b, e).map = b.map
<1>1. PICK seq \in Int, type \in Types, local \in Int, at \in Int :
        seq = e.seq /\ type = e.type /\ local = e.local /\ at = e.at
  BY DEF Event
<1>2. PICK s : s = [b EXCEPT !.seq = seq]
  OBVIOUS
<1>3. s \in BridgeOf(k) /\ s.retired = b.retired /\ s.map = b.map
  BY <1>2 DEF BridgeOf
<1>4. PICK g : g = [s.gate EXCEPT ![type] = local]
  OBVIOUS
<1>5. g \in [Types -> Int]
  BY <1>3, <1>4 DEF BridgeOf
<1>6. PICK h : h = HostAdd(s.host, at, local)
  OBVIOUS
<1>7. h \in [n : Int, at : Int, local : Int, diff : Int]
  <2>1. s.host \in [n : Int, at : Int, local : Int, diff : Int]
    BY <1>3 DEF BridgeOf
  <2> QED BY <1>6, <2>1 DEF HostAdd
<1>8. PICK r \in Int : r = IF s.ready < 3 THEN s.ready + 1 ELSE 3
  BY <1>3 DEF BridgeOf
<1>9. PICK t : t = [s EXCEPT !.gate = g, !.latest = local, !.host = h, !.ready = r]
  OBVIOUS
<1>10. t \in BridgeOf(k) /\ t.retired = b.retired /\ t.map = b.map
  BY <1>3, <1>5, <1>7, <1>9 DEF BridgeOf
<1>11. [s EXCEPT !.gate[e.type] = e.local, !.latest = e.local, !.host = HostAdd(@, e.at, e.local),
                 !.ready = IF @ < 3 THEN @ + 1 ELSE 3] = t
  BY <1>1, <1>3, <1>4, <1>6, <1>8, <1>9 DEF BridgeOf
<1>12. Timed(b, e) \in {b, s, t}
  BY <1>1, <1>2, <1>11 DEF Timed
<1> QED BY <1>3, <1>10, <1>12

\* A new session starts with nothing, and the one before it is retired.
LEMMA NewSessionType ==
  ASSUME NEW k \in Nat, NEW b \in BridgeOf(k), NEW boot \in Nat \ {0}
  PROVE  /\ NewSession(b, boot) \in BridgeOf(boot)
         /\ NewSession(b, boot).retired = b.retired \cup ({k} \ {NoBoot})
<1>1. PICK r \in SUBSET Nat : r = b.retired \cup ({k} \ {NoBoot})
  BY DEF BridgeOf
<1>2. b.boot = k
  BY DEF BridgeOf
<1>3. [b EXCEPT !.retired = IF b.boot = NoBoot THEN @ ELSE @ \cup {b.boot}].retired = r
  BY <1>1, <1>2 DEF BridgeOf
<1>4. PICK g : g = [t \in Types |-> 0]
  OBVIOUS
<1>5. g \in [Types -> Int]
  BY <1>4
<1>6. PICK m \in MapOf(boot) : m = NoMapping
  BY NoMappingType
<1>7. NewSession(b, boot) =
        [boot |-> boot, retired |-> r, seq |-> NoEvent, gate |-> g, latest |-> 0, ready |-> 0,
         host |-> [n |-> 0, at |-> 0, local |-> 0, diff |-> 0], map |-> m]
  <2>1. PICK c : c = [b EXCEPT !.retired = IF b.boot = NoBoot THEN @ ELSE @ \cup {b.boot}]
    OBVIOUS
  <2>2. NewSession(b, boot) = [NewBridge EXCEPT !.boot = boot, !.retired = r]
    BY <1>3, <2>1 DEF NewSession, BeginSession
  <2>3. NewBridge =
          [boot |-> NoBoot, retired |-> {}, seq |-> NoEvent, gate |-> g, latest |-> 0, ready |-> 0,
           host |-> [n |-> 0, at |-> 0, local |-> 0, diff |-> 0], map |-> m]
    BY <1>4, <1>6 DEF NewBridge, Types
  <2> QED BY <2>2, <2>3
<1> QED BY <1>1, <1>5, <1>7 DEF BridgeOf, NoEvent

\* An event leaves the session, or begins one that was never begun.
LEMMA ProcessEventType ==
  ASSUME NEW k \in Nat, NEW b \in BridgeOf(k), NEW e \in Event
  PROVE  IF Announces(b, e)
         THEN /\ ProcessEvent(b, e) \in BridgeOf(e.boot)
              /\ ProcessEvent(b, e).retired = b.retired \cup ({k} \ {NoBoot})
         ELSE /\ ProcessEvent(b, e) \in BridgeOf(k)
              /\ ProcessEvent(b, e).retired = b.retired
<1>1. PICK boot \in Nat \ {0} : boot = e.boot
  BY DEF Event
<1>2. b.boot = k
  BY DEF BridgeOf
<1>3. PICK s : s = NewSession(b, boot)
  OBVIOUS
<1>4. s \in BridgeOf(boot) /\ s.retired = b.retired \cup ({k} \ {NoBoot})
  BY <1>3, NewSessionType
<1>5. CASE Announces(b, e)
  <2>1. ProcessEvent(b, e) = Timed(s, e)
    BY <1>1, <1>3, <1>5 DEF ProcessEvent, Announces
  <2> QED BY <1>1, <1>4, <1>5, <2>1, TimedType
<1>6. CASE ~Announces(b, e)
  <2>1. ProcessEvent(b, e) \in {b, Timed(b, e)}
    BY <1>6 DEF ProcessEvent
  <2> QED BY <1>6, <2>1, TimedType
<1> QED BY <1>5, <1>6
-----------------------------------------------------------------------------
LEMMA TimeInitInv == Init => TimeInv
<1> SUFFICES ASSUME Init PROVE TimeInv
  OBVIOUS
<1>1. BootEvent(1, 1) \in Event
  BY SensorAssumption, BridgeAssumption DEF BootEvent, Event, Types
<1>2. queue \in Seq(Event)
  BY <1>1 DEF Init
<1>3. NewBridge \in BridgeOf(0) /\ NewBridge.boot = 0 /\ NewBridge.retired = {}
  <2>1. PICK m \in MapOf(0) : m = NoMapping
    BY NoMappingType
  <2>2. PICK g : g = [t \in Types |-> 0]
    OBVIOUS
  <2>3. g \in [Types -> Int]
    BY <2>2
  <2>4. NewBridge = [boot |-> 0, retired |-> {}, seq |-> NoEvent, gate |-> g, latest |-> 0,
                     ready |-> 0, host |-> [n |-> 0, at |-> 0, local |-> 0, diff |-> 0], map |-> m]
    BY <2>1, <2>2 DEF NewBridge, Types, NoBoot
  <2> QED BY <2>3, <2>4 DEF BridgeOf, NoEvent
<1>4. mcu \in [boot : Nat \ {0}, seq : Int, since : Int] /\ now \in Nat /\ resent \in Nat
  BY SensorAssumption, BridgeAssumption DEF Init
<1>5. observations \in Seq(Reported) /\ sessions \in Seq(Nat \ {0}) /\ sessions = <<>>
  BY DEF Init
<1>6. jumped \in Nat /\ gnss \in [map : Published \cup {None}, last : Int, date : Int]
  <2>1. PICK n \in Published \cup {None} : n = None
    OBVIOUS
  <2>2. [map |-> n, last |-> 0, date |-> -1] \in [map : Published \cup {None}, last : Int, date : Int]
    OBVIOUS
  <2>3. gnss = [map |-> n, last |-> 0, date |-> -1] /\ jumped \in Nat
    BY <2>1 DEF Init, NoDate
  <2> QED BY <2>2, <2>3
<1>7. mapping_topic \in Published \cup {None} /\ bridge = NewBridge
  BY DEF Init
<1> QED BY <1>2, <1>3, <1>4, <1>5, <1>6, <1>7 DEF TimeInv, TimeTypeOK, Retired, NoBoot

\* A step that leaves the bridge and the sessions begun needs its types only.
LEMMA BridgeUntouched ==
  ASSUME TimeInv, TimeTypeOK', UNCHANGED <<bridge, sessions>>
  PROVE  TimeInv'
BY DEF TimeInv, Retired

LEMMA McuInv ==
  ASSUME TimeInv,
         \/ \E type \in Streams, times \in Copies : McuEvent(type, times)
         \/ McuReboot
         \/ \E boot \in Boots : BootAgain(boot)
  PROVE  TimeInv'
<1> USE DEF TimeInv, TimeTypeOK
<1>1. SeqRange \in Nat \ {0, 1} /\ SeqStart \in Int
  BY SensorAssumption, BridgeAssumption
<1>2. ASSUME NEW type \in Streams, NEW times \in Copies, McuEvent(type, times) PROVE TimeInv'
  <2>1. PICK n \in Nat, c \in [boot : Nat \ {0}, seq : Int, since : Int] : n = now /\ c = mcu
    OBVIOUS
  <2>2. PICK q \in Int : q = (c.seq + 1) % SeqRange
    BY <1>1
  <2>3. PICK e : e = [boot |-> c.boot, type |-> type, seq |-> q,
                      local |-> n + 2 - c.since, at |-> n + 1]
    OBVIOUS
  <2>4. e \in Event
    BY <2>1, <2>2, <2>3 DEF Event, Types
  <2>5. queue' = Fed(queue, e, times) /\ now' = n + 1 /\ mcu' = [c EXCEPT !.seq = q]
    BY <1>2, <2>1, <2>2, <2>3 DEF McuEvent
  <2>6. queue' \in Seq(Event)
    BY <2>4, <2>5, FedType, SensorAssumption
  <2>7. mcu' \in [boot : Nat \ {0}, seq : Int, since : Int] /\ now' \in Nat
    <3>1. [c EXCEPT !.seq = q] \in [boot : Nat \ {0}, seq : Int, since : Int]
      OBVIOUS
    <3>2. n + 1 \in Nat
      OBVIOUS
    <3> QED BY <2>5, <3>1, <3>2
  <2>8. TimeTypeOK'
    BY <1>2, <2>6, <2>7 DEF McuEvent
  <2> QED BY <1>2, <2>8, BridgeUntouched DEF McuEvent
<1>3. CASE McuReboot
  <2>1. PICK n \in Nat, boot \in Nat \ {0} : n = now /\ boot = mcu.boot
    OBVIOUS
  <2>2. BootEvent(boot + 1, n + 1) \in Event
    BY <1>1, <2>1 DEF BootEvent, Event, Types
  <2>3. Push(queue, BootEvent(boot + 1, n + 1)) \in Seq(Event)
    BY <2>2, PushType
  <2>4. TimeTypeOK'
    BY SMTT(30), <1>1, <1>3, <2>1, <2>3 DEF McuReboot
  <2> QED BY <1>3, <2>4, BridgeUntouched DEF McuReboot
<1>4. ASSUME NEW boot \in Boots, BootAgain(boot) PROVE TimeInv'
  <2>1. PICK n \in Nat : n = now
    OBVIOUS
  <2>2. BootEvent(boot, n) \in Event
    BY <1>1, <2>1, BridgeAssumption DEF BootEvent, Event, Types
  <2>3. Push(queue, BootEvent(boot, n)) \in Seq(Event)
    BY <2>2, PushType
  <2>4. TimeTypeOK'
    BY <1>4, <2>1, <2>3 DEF BootAgain, mcu_vars
  <2> QED BY <1>4, <2>4, BridgeUntouched DEF BootAgain
<1> QED BY <1>2, <1>3, <1>4

LEMMA DrainInv ==
  ASSUME TimeInv, Drain
  PROVE  TimeInv'
<1>1. PICK k \in Nat : k = bridge.boot
  BY DEF TimeInv, TimeTypeOK
<1>01. PICK b \in BridgeOf(k) : b = bridge
  BY <1>1 DEF TimeInv, TimeTypeOK
<1>2. PICK e \in Event : e = Head(queue)
  BY DEF TimeInv, TimeTypeOK, Drain
<1>3. PICK r : r = ProcessEvent(b, e)
  OBVIOUS
<1>4. bridge' = r /\ b.boot = k
  BY <1>1, <1>01, <1>2, <1>3 DEF Drain, BridgeOf
<1>5. UNCHANGED <<now, mcu, resent, observations, jumped, gnss>>
  BY DEF Drain, mcu_vars
<1>6. queue' \in Seq(Event)
  BY DEF TimeInv, TimeTypeOK, Drain
<1>7. CASE Announces(b, e)
  <2>1. PICK boot \in Nat \ {0} : boot = e.boot
    BY DEF Event
  <2>2. r \in BridgeOf(boot) /\ r.retired = b.retired \cup ({k} \ {NoBoot}) /\ r.boot = boot
    BY <1>3, <1>7, <2>1, ProcessEventType DEF BridgeOf
  <2>3. boot # k /\ (k # NoBoot => boot \notin b.retired) /\ boot # NoBoot
    BY <1>4, <1>7, <2>1 DEF Announces, NoBoot
  <2>4. sessions' = Append(sessions, boot) /\ mapping_topic' = MappingOf(r)
    BY <1>1, <1>01, <1>2, <1>4, <1>7, <2>2 DEF Drain
  <2>5. mapping_topic' \in Published
    BY <2>2, <2>4 DEF MappingOf, Published, BridgeOf, MapOf
  <2>6. PICK s \in Seq(Nat \ {0}) : s = sessions
    BY DEF TimeInv, TimeTypeOK
  <2>7. /\ sessions' \in Seq(Nat \ {0}) /\ DOMAIN sessions' = 1..(Len(s) + 1)
        /\ sessions'[Len(s) + 1] = boot /\ \A i \in 1..Len(s) : sessions'[i] = s[i]
        /\ DOMAIN s = 1..Len(s) /\ Len(s) \in Nat
    BY <2>4, <2>6
  <2>8. TimeTypeOK'
    BY <1>4, <1>5, <1>6, <2>1, <2>2, <2>5, <2>7 DEF TimeInv, TimeTypeOK
  <2>9. /\ \A i \in 1..Len(s) : s[i] \in b.retired \cup {k} /\ s[i] \in Nat \ {0}
        /\ \A i, j \in 1..Len(s) : i # j => s[i] # s[j]
        /\ k = NoBoot => b.retired = {}
    <3>1. \A i \in 1..Len(s) : s[i] \in Nat \ {0}
      BY <2>6
    <3>2. \A i \in DOMAIN s : s[i] \in b.retired \cup {k}
      BY <1>1, <1>01, <2>6 DEF TimeInv, Retired
    <3>3. \A i, j \in DOMAIN s : i # j => s[i] # s[j]
      BY <2>6 DEF TimeInv, Retired
    <3>4. k = NoBoot => b.retired = {}
      BY <1>1, <1>01 DEF TimeInv, Retired
    <3> QED BY <2>7, <3>1, <3>2, <3>3, <3>4
  <2>10. \A i \in 1..Len(s) : s[i] \in r.retired /\ s[i] # boot
    BY <2>2, <2>3, <2>9 DEF NoBoot
  <2>11. boot \notin r.retired
    BY <2>2, <2>3, <2>9
  <2>12. Retired'
    <3>1. \A i \in DOMAIN sessions' : sessions'[i] \in r.retired \cup {boot}
      BY <2>7, <2>10
    <3>2. \A i, j \in DOMAIN sessions' : i # j => sessions'[i] # sessions'[j]
      BY SMTT(30), <2>7, <2>9, <2>10
    <3> QED BY <1>4, <2>2, <2>3, <2>11, <3>1, <3>2 DEF Retired
  <2> QED BY <2>8, <2>12 DEF TimeInv
<1>8. CASE ~Announces(b, e)
  <2>1. r \in BridgeOf(k) /\ r.retired = b.retired /\ r.boot = k
    BY <1>3, <1>8, ProcessEventType DEF BridgeOf
  <2>2. UNCHANGED <<sessions, mapping_topic>>
    BY <1>1, <1>01, <1>2, <1>8 DEF Drain
  <2>3. TimeTypeOK'
    BY <1>1, <1>01, <1>4, <1>5, <1>6, <2>1, <2>2 DEF TimeInv, TimeTypeOK
  <2>4. Retired'
    BY <1>1, <1>01, <1>4, <2>1, <2>2 DEF TimeInv, Retired
  <2> QED BY <2>3, <2>4 DEF TimeInv
<1> QED BY <1>7, <1>8

\* The mapping changes to one of pairs of the same boot.
LEMMA MapChanges ==
  ASSUME TimeInv, NEW m \in MapOf(bridge.boot), bridge' = [bridge EXCEPT !.map = m],
         mapping_topic' = MappingOf(bridge'), observations' \in Seq(Reported),
         UNCHANGED <<now, mcu, resent, queue, jumped, gnss, sessions>>
  PROVE  TimeInv'
<1>1. PICK k \in Nat : k = bridge.boot
  BY DEF TimeInv, TimeTypeOK
<1>01. PICK b \in BridgeOf(k) : b = bridge
  BY <1>1 DEF TimeInv, TimeTypeOK
<1>2. PICK r : r = [b EXCEPT !.map = m]
  OBVIOUS
<1>3. r \in BridgeOf(k) /\ r.boot = k /\ r.retired = b.retired /\ r.map = m
  BY <1>1, <1>01, <1>2 DEF BridgeOf
<1>4. bridge' = r
  BY <1>1, <1>01, <1>2
<1>5. mapping_topic' \in Published
  BY <1>1, <1>01, <1>3, <1>4 DEF MappingOf, Published, MapOf
<1>6. TimeTypeOK'
  BY <1>1, <1>01, <1>3, <1>4, <1>5 DEF TimeInv, TimeTypeOK
<1> QED BY <1>1, <1>01, <1>3, <1>4, <1>6 DEF TimeInv, Retired

LEMMA StatusInv ==
  ASSUME TimeInv, Status
  PROVE  TimeInv'
<1>1. PICK m : m = Update(bridge.map, bridge.latest)
  OBVIOUS
<1>2. m \in MapOf(bridge.boot)
  <2>1. bridge.map \in MapOf(bridge.boot) /\ bridge.latest \in Int /\ bridge.boot \in Nat
    BY DEF TimeInv, TimeTypeOK, BridgeOf
  <2> QED BY <1>1, <2>1, UpdateType
<1>3. bridge' = [bridge EXCEPT !.map = m]
  BY <1>1 DEF Status
<1>4. observations' \in Seq(Reported)
  BY DEF Status, TimeInv, TimeTypeOK
<1> QED BY <1>2, <1>3, <1>4, MapChanges DEF Status, mcu_vars

\* What is taken from an observation is a pair of the bridge's session.
LEMMA ObservedType ==
  ASSUME NEW o \in Reported, Observed(bridge, o)
  PROVE  UtcPair(o) \in PairOf(bridge.boot)
<1>1. PICK p : p = UtcPair(o)
  OBVIOUS
<1>2. p \in [local : Int, utc : Int, from : Origins, boot : Nat]
      /\ p.from = o.from /\ p.boot = o.boot
  BY <1>1 DEF UtcPair, Reported
<1>3. o.session = bridge.boot /\ (o.from = "host" => o.boot = o.session)
  BY DEF Observed, Reported
<1> QED BY <1>1, <1>2, <1>3 DEF PairOf

LEMMA ObservationInv ==
  ASSUME TimeInv, Observation
  PROVE  TimeInv'
<1>1. PICK o \in Reported : o = Head(observations)
  BY DEF TimeInv, TimeTypeOK, Observation
<1>2. observations' \in Seq(Reported)
  BY DEF TimeInv, TimeTypeOK, Observation
<1>3. CASE Observed(bridge, o)
  <2>1. UtcPair(o) \in PairOf(bridge.boot)
    BY <1>3, ObservedType
  <2>2. PICK m \in AddPair(bridge.map, UtcPair(o)) :
          bridge' = [bridge EXCEPT !.map = m] /\ mapping_topic' = MappingOf(bridge')
    BY <1>1, <1>3 DEF Observation
  <2>3. bridge.map \in MapOf(bridge.boot) /\ bridge.boot \in Nat
    BY DEF TimeInv, TimeTypeOK, BridgeOf
  <2>4. m \in MapOf(bridge.boot)
    BY <2>1, <2>2, <2>3, AddPairType
  <2> QED BY <1>2, <2>2, <2>4, MapChanges DEF Observation, mcu_vars
<1>4. CASE ~Observed(bridge, o)
  <2>1. TimeTypeOK' /\ UNCHANGED <<bridge, sessions>>
    BY <1>1, <1>2, <1>4 DEF Observation, TimeInv, TimeTypeOK, mcu_vars
  <2> QED BY <2>1, BridgeUntouched
<1> QED BY <1>3, <1>4

\* The driver takes a mapping over, and UTC jumps.
LEMMA ReceiveMappingInv ==
  ASSUME TimeInv, ReceiveMapping \/ JumpUtc
  PROVE  TimeInv'
<1>1. CASE ReceiveMapping
  <2>1. PICK m \in Published \cup {None}, g \in [map : Published \cup {None}, last : Int, date : Int] :
          m = mapping_topic /\ g = gnss
    BY DEF TimeInv, TimeTypeOK
  <2>2. [g EXCEPT !.map = m] \in [map : Published \cup {None}, last : Int, date : Int]
    OBVIOUS
  <2>3. gnss' \in [map : Published \cup {None}, last : Int, date : Int] /\ mapping_topic' = None
    BY <1>1, <2>1, <2>2 DEF ReceiveMapping
  <2>4. TimeTypeOK'
    BY <1>1, <2>3 DEF ReceiveMapping, TimeInv, TimeTypeOK, mcu_vars
  <2> QED BY <1>1, <2>4, BridgeUntouched DEF ReceiveMapping
<1>2. CASE JumpUtc
  <2>1. TimeTypeOK'
    BY <1>2, SensorAssumption DEF JumpUtc, TimeInv, TimeTypeOK, mcu_vars
  <2> QED BY <1>2, <2>1, BridgeUntouched DEF JumpUtc
<1> QED BY <1>1, <1>2

\* What the driver stamps by the host's clock counts in the session it names.
LEMMA SentType ==
  ASSUME TimeInv, NEW from \in Origins, NEW local \in Int, NEW utc \in Int,
         local # 0 => from = "host" \/ gnss.map # None
  PROVE  Sent(from, local, utc) \in Seq(Reported)
<1>1. Stamp.session \in Nat
  <2>1. bridge.boot \in Nat
    BY DEF TimeInv, TimeTypeOK
  <2> QED BY <2>1 DEF Stamp, NoBoot
<1>2. observations \in Seq(Reported)
  BY DEF TimeInv, TimeTypeOK
<1>3. ASSUME local # 0 PROVE UtcObserved(from, local, utc) \in Reported
  <2>1. PICK boot \in Nat :
          /\ boot = IF from = "host" THEN Stamp.session ELSE gnss.map.boot
          /\ from = "host" => boot = Stamp.session
    <3>1. from # "host" => gnss.map.boot \in Nat
      BY <1>3 DEF TimeInv, TimeTypeOK, Published
    <3> QED BY <1>1, <3>1
  <2>2. PICK o : o = UtcObserved(from, local, utc)
    OBVIOUS
  <2>3. o = [session |-> Stamp.session, local |-> local, utc |-> utc, associated |-> Associated,
             from |-> from, boot |-> boot]
    BY <2>1, <2>2 DEF UtcObserved
  <2>4. o \in [session : Nat, local : Int, utc : Int, associated : BOOLEAN, from : Origins, boot : Nat]
    BY <1>1, <2>3, SensorAssumption
  <2>5. o.from = "host" => o.boot = o.session
    BY <2>1, <2>3
  <2> QED BY <2>2, <2>4, <2>5 DEF Reported
<1> QED BY <1>2, <1>3 DEF Sent

LEMMA UtcType ==
  ASSUME TimeInv, NEW record
  PROVE  Dated(record) \in Int /\ ParsedUtc(record) \in Int
<1>1. Utc \in Int /\ Day \in Nat \ {0}
  BY SensorAssumption DEF TimeInv, TimeTypeOK, Utc
<1>2. PICK u \in Int, d \in Nat \ {0} : u = Utc /\ d = Day
  BY <1>1
<1>3. u \div d \in Int /\ u % d \in Int
  OBVIOUS
<1>4. Dated(record) \in Int
  BY <1>2, <1>3 DEF Dated, TimeInv, TimeTypeOK
<1>5. PICK t \in Int : t = Dated(record)
  BY <1>4
<1>6. t * d + (u % d) \in Int
  BY <1>3
<1> QED BY <1>2, <1>4, <1>5, <1>6 DEF ParsedUtc

LEMMA ConvertedType ==
  ASSUME TimeInv, NEW utc \in Int
  PROVE  Converted(utc) \in Int
<1>1. gnss.map \in Published \cup {None} /\ gnss.last \in Int
  BY DEF TimeInv, TimeTypeOK
<1>2. CASE gnss.map = None
  BY <1>2 DEF Converted
<1>3. CASE gnss.map # None
  <2>1. gnss.map.active \in Int \cup {None}
    BY <1>1, <1>3 DEF Published
  <2>2. CASE gnss.map.active = None
    BY <2>2 DEF Converted
  <2>3. CASE gnss.map.active # None
    <3>1. utc - gnss.map.active \in Int
      BY <2>1, <2>3
    <3> QED BY <3>1 DEF Converted
  <2> QED BY <2>2, <2>3
<1> QED BY <1>2, <1>3

LEMMA StampType ==
  ASSUME TimeInv
  PROVE  Stamp.local \in Int
<1>1. PICK k \in Nat : k = bridge.boot
  BY DEF TimeInv, TimeTypeOK
<1>2. PICK b \in BridgeOf(k) : b = bridge
  BY <1>1 DEF TimeInv, TimeTypeOK
<1>3. b.host.diff \in Int /\ now \in Int
  BY DEF BridgeOf, TimeInv, TimeTypeOK
<1> QED BY <1>2, <1>3 DEF Stamp, HostLocal

LEMMA RecordInv ==
  ASSUME TimeInv, TimeRecord \/ \E record \in {"KSXT", "GGA"} : Position(record)
  PROVE  TimeInv'
<1>1. PICK g \in [map : Published \cup {None}, last : Int, date : Int] : g = gnss
  BY DEF TimeInv, TimeTypeOK
<1>2. CASE TimeRecord
  <2>1. PICK d \in Int : d = Dated("ZDA")
    BY UtcType
  <2>2. [g EXCEPT !.date = d] \in [map : Published \cup {None}, last : Int, date : Int]
    OBVIOUS
  <2>3. observations' \in Seq(Reported)
    <3>1. Stamp.local \in Int
      BY StampType
    <3>2. observations' = Sent("host", Stamp.local, ParsedUtc("ZDA"))
      BY <1>2 DEF TimeRecord
    <3> QED BY <3>1, <3>2, UtcType, SentType DEF Origins
  <2>4. TimeTypeOK'
    BY <1>1, <1>2, <2>1, <2>2, <2>3 DEF TimeRecord, TimeInv, TimeTypeOK, mcu_vars
  <2> QED BY <1>2, <2>4, BridgeUntouched DEF TimeRecord
<1>3. ASSUME NEW record \in {"KSXT", "GGA"}, Position(record) PROVE TimeInv'
  <2>1. PICK d \in Int, u \in Int : d = Dated(record) /\ u = ParsedUtc(record)
    BY UtcType
  <2>2. PICK c \in Int : c = Converted(u) /\ (c # 0 => gnss.map # None)
    BY <2>1, ConvertedType DEF Converted
  <2>20. PICK l \in Int : l = IF c > 0 THEN c ELSE g.last
    OBVIOUS
  <2>3. [g EXCEPT !.date = d, !.last = l] \in [map : Published \cup {None}, last : Int, date : Int]
    OBVIOUS
  <2>4. gnss' = [g EXCEPT !.date = d, !.last = l] /\ observations' = Sent("mapping", c, u)
    BY <1>1, <1>3, <2>1, <2>2, <2>20 DEF Position
  <2>5. observations' \in Seq(Reported)
    BY <2>2, <2>4, SentType DEF Origins
  <2>6. TimeTypeOK'
    BY <1>3, <2>3, <2>4, <2>5 DEF Position, TimeInv, TimeTypeOK, mcu_vars
  <2> QED BY <1>3, <2>6, BridgeUntouched DEF Position
<1> QED BY <1>2, <1>3

\* Types hold, and every session begun is the current one or retired.
THEOREM TimeInvariant == Spec => []TimeInv
<1>1. TimeInv /\ [Next]_vars => TimeInv'
  <2> SUFFICES ASSUME TimeInv, [Next]_vars PROVE TimeInv'
    OBVIOUS
  <2>1. CASE UNCHANGED vars
    BY <2>1 DEF vars, mcu_vars, TimeInv, TimeTypeOK, Retired
  <2>2. CASE Next
    BY <2>2, McuInv, DrainInv, StatusInv, ObservationInv, ReceiveMappingInv, RecordInv DEF Next
  <2> QED BY <2>1, <2>2
<1> QED BY <1>1, TimeInitInv, PTL DEF Spec

\* Whatever events are lost, doubled or sent again and whatever observations
\* are late: no session is begun twice, and of the pairs the host's clock
\* stamped the mapping is fitted to those of its own session only.
THEOREM SessionsStayApart == Spec => []SessionsApart
<1>1. TimeInv => SessionsApart
  <2> SUFFICES ASSUME TimeInv PROVE SessionsApart
    OBVIOUS
  <2>1. /\ bridge.map.pairs \in Seq(PairOf(bridge.boot))
        /\ bridge.map.candidate \in Seq(PairOf(bridge.boot))
    BY DEF TimeInv, TimeTypeOK, BridgeOf, MapOf
  <2>2. ASSUME NEW b, NEW s \in Seq(PairOf(b)), NEW p \in ToSet(s), p.from = "host"
        PROVE  p.boot = b
    <3>1. PICK i \in DOMAIN s : p = s[i]
      BY <2>2 DEF ToSet
    <3>2. s[i] \in PairOf(b)
      BY <2>2
    <3> QED BY <2>2, <3>1, <3>2 DEF PairOf
  <2>3. \A p \in ToSet(bridge.map.pairs) \cup ToSet(bridge.map.candidate) :
          p.from = "host" => p.boot = bridge.boot
    BY <2>1, <2>2
  <2> QED BY <2>3 DEF SessionsApart, TimeInv, Retired
<1> QED BY <1>1, TimeInvariant, PTL
-----------------------------------------------------------------------------
(* Relocking.  Whatever pairs come after the loss, those kept for the relock  *)
(* follow one another, and there is a mapping that they have to continue.     *)

Lost(m) == m.state \in {"HOLDOVER", "RELOCKING"}

\* q is later than p by both clocks, and neither has stepped in between
Follows(p, q) ==
  /\ q.local # 0 /\ q.utc # 0 /\ q.local > p.local /\ q.utc > p.utc
  /\ Gap(q.local - p.local, q.utc - p.utc) <= MaxIntervalError

InSteps(ps) == \A i, j \in DOMAIN ps : j = i + 1 => Follows(ps[i], ps[j])

RelockOK(m) ==
  Lost(m) => m.active # None /\ (m.state = "RELOCKING" => InSteps(m.candidate))

\* What RelockContinuous asks of a mapping m that becomes r.
Continues(m, r) ==
  /\ r.state = "LOCKED" /\ r.active \in Offsets(r.pairs)
  /\ Gap(r.active, m.active) <= MaxRelockStep
  /\ Len(r.pairs) >= RelockCount
  /\ Last(r.pairs).local - Head(r.pairs).local >= MinSpan
  /\ InSteps(r.pairs)

\* What becomes of a mapping m after one more pair.
Relocks(m, r) == RelockOK(r) /\ (Lost(m) /\ r.active # m.active => Continues(m, r))

LEMMA AppendSteps ==
  ASSUME NEW S, NEW c \in Seq(S), NEW p \in S, InSteps(c), Appendable(c, p)
  PROVE  InSteps(Append(c, p))
<1>1. PICK n \in Nat : n = Len(c)
  OBVIOUS
<1>2. PICK s : s = Append(c, p)
  OBVIOUS
<1>3. /\ DOMAIN c = 1..n /\ DOMAIN s = 1..(n + 1) /\ s[n + 1] = p
      /\ \A i \in 1..n : s[i] = c[i]
  BY <1>1, <1>2
<1>4. ASSUME NEW i \in 1..(n + 1), NEW j \in 1..(n + 1), j = i + 1 PROVE Follows(s[i], s[j])
  <2>1. i \in 1..n /\ s[i] = c[i]
    BY <1>3, <1>4
  <2>2. CASE j = n + 1
    <3>1. i = n /\ s[j] = p /\ c # <<>>
      BY <1>1, <1>3, <1>4, <2>1, <2>2
    <3>2. Last(c) = c[n]
      BY <1>1 DEF Last
    <3>3. /\ p.local # 0 /\ p.utc # 0 /\ p.local > c[n].local /\ p.utc > c[n].utc
          /\ Gap(p.local - c[n].local, p.utc - c[n].utc) <= MaxIntervalError
      BY <3>1, <3>2 DEF Appendable
    <3> QED BY <2>1, <3>1, <3>3 DEF Follows
  <2>3. CASE j # n + 1
    <3>1. j \in 1..n /\ s[j] = c[j]
      BY <1>3, <1>4, <2>3
    <3> QED BY <1>3, <1>4, <2>1, <3>1 DEF InSteps
  <2> QED BY <2>2, <2>3
<1> QED BY <1>2, <1>3, <1>4 DEF InSteps

LEMMA NewestSteps ==
  ASSUME NEW S, NEW t \in Seq(S), NEW n \in Nat, InSteps(t)
  PROVE  InSteps(Newest(t, n))
<1>1. PICK l \in Nat : l = Len(t) /\ DOMAIN t = 1..l
  OBVIOUS
<1>2. PICK m \in 1..(l + 1) : m = IF l > n THEN l - n + 1 ELSE 1
  <2>1. CASE l > n
    BY <2>1
  <2>2. CASE ~(l > n)
    BY <2>2
  <2> QED BY <2>1, <2>2
<1>3. PICK s : s = Newest(t, n)
  OBVIOUS
<1>4. s = SubSeq(t, m, l)
  BY <1>1, <1>2, <1>3 DEF Newest
<1>5. DOMAIN s = 1..(l - m + 1) /\ \A i \in 1..(l - m + 1) : s[i] = t[m + i - 1]
  <2>1. \A i \in m..l : t[i] \in S
    BY <1>1
  <2> QED BY <1>1, <1>4, <2>1, SubSeqProperties
<1>6. ASSUME NEW i \in DOMAIN s, NEW j \in DOMAIN s, j = i + 1 PROVE Follows(s[i], s[j])
  <2>1. PICK u \in 1..l, v \in 1..l : u = m + i - 1 /\ v = m + j - 1
    BY <1>5
  <2>2. v = u + 1 /\ s[i] = t[u] /\ s[j] = t[v]
    BY <1>5, <1>6, <2>1
  <2> QED BY <1>1, <2>2 DEF InSteps
<1> QED BY <1>3, <1>6 DEF InSteps

\* Pairs that follow one another are those the bridge would append one by one.
LEMMA StepsAppendable ==
  ASSUME NEW S, NEW ps \in Seq(S), InSteps(ps)
  PROVE  \A i \in 1..(Len(ps) - 1) : Appendable(SubSeq(ps, 1, i), ps[i + 1])
<1>1. PICK n \in Nat : n = Len(ps) /\ DOMAIN ps = 1..n
  OBVIOUS
<1>2. ASSUME NEW i \in 1..(n - 1) PROVE Appendable(SubSeq(ps, 1, i), ps[i + 1])
  <2>1. PICK u \in 1..n, v \in 1..n : u = i /\ v = i + 1
    BY <1>2
  <2>2. PICK s : s = SubSeq(ps, 1, u)
    OBVIOUS
  <2>3. \A k \in 1..u : ps[k] \in S
    BY <1>1
  <2>4. s \in Seq(S) /\ Len(s) = u /\ s[u] = ps[u]
    BY <2>2, <2>3, SubSeqProperties
  <2>5. Last(s) = ps[u]
    BY <2>4 DEF Last
  <2>6. Follows(ps[u], ps[v])
    BY <1>1, <2>1 DEF InSteps
  <2>7. Appendable(s, ps[v])
    BY <2>5, <2>6 DEF Follows, Appendable
  <2> QED BY <2>1, <2>2, <2>7
<1> QED BY <1>1, <1>2

\* A pair taken after a loss joins the candidate if it follows the last of them.
LEMMA GrowRelocks ==
  ASSUME NEW b \in Nat, NEW m \in MapOf(b), NEW p \in PairOf(b), RelockOK(m),
         m.state = "RELOCKING", Appendable(m.candidate, p)
  PROVE  InSteps(Grow(m, p).candidate)
<1>1. PICK c \in Seq(PairOf(b)) : c = m.candidate
  BY DEF MapOf
<1>2. InSteps(c) /\ Window \in Nat
  BY <1>1, MappingAssumption DEF RelockOK, Lost
<1>3. InSteps(Append(c, p)) /\ Append(c, p) \in Seq(PairOf(b))
  BY <1>1, <1>2, AppendSteps
<1>4. InSteps(Newest(Append(c, p), Window))
  BY <1>2, <1>3, NewestSteps
<1>5. Grow(m, p).candidate = Newest(Append(m.candidate, p), Window)
  BY DEF Grow, MapOf
<1> QED BY <1>1, <1>4, <1>5

\* The parts of a mapping that grew.
LEMMA GrownIs ==
  ASSUME NEW b \in Nat, NEW m \in MapOf(b), NEW p \in PairOf(b)
  PROVE  LET g == Grow(m, p)
         IN  /\ g.active = m.active
             /\ m.state # "LOCAL_ONLY" => g.state = m.state
             /\ Lost(g) => g.state = m.state
BY DEF Grow, MapOf, Lost

LEMMA LockIs ==
  ASSUME NEW b \in Nat, NEW m \in MapOf(b), NEW o \in Int
  PROVE  LET r == Lock(m, o)
         IN  /\ r.state = "LOCKED" /\ r.active = o
             /\ m.candidate # <<>> => r.pairs = m.candidate
<1>1. PICK i : i = Install(m, o)
  OBVIOUS
<1>2. i \in MapOf(b) /\ i.active = o
  BY <1>1, LockType DEF Install, MapOf
<1>3. PICK k : k = [i EXCEPT !.state = "LOCKED"]
  OBVIOUS
<1>4. k \in MapOf(b) /\ k.state = "LOCKED" /\ k.active = o
  BY <1>2, <1>3 DEF MapOf, States
<1>5. PICK c : c = m.candidate
  OBVIOUS
<1>6. PICK j : j = [k EXCEPT !.pairs = c, !.candidate = <<>>]
  OBVIOUS
<1>7. j.pairs = c /\ j.state = "LOCKED" /\ j.active = o
  BY <1>4, <1>6 DEF MapOf
<1>8. Lock(m, o) = IF c = <<>> THEN k ELSE j
  BY <1>1, <1>3, <1>5, <1>6 DEF Lock
<1> QED BY <1>4, <1>5, <1>7, <1>8

\* What candidateReady accepts while relocking.
LEMMA AcceptedRelocks ==
  ASSUME NEW b \in Nat, NEW g \in MapOf(b), NEW r \in Accepted(g), RelockOK(g)
  PROVE  /\ r = g \/ r.state = "LOCKED"
         /\ Lost(g) /\ g.state = "RELOCKING" /\ r.active # g.active => Continues(g, r)
<1>1. Ready(g, Fitted(g))
  BY DEF Accepted
<1>2. PICK o \in Offsets(Fitted(g)) :
        r = IF g.state = "RELOCKING" /\ ~Continuous(g, o) THEN g ELSE Lock(g, o)
  BY <1>1 DEF Accepted
<1>3. o \in Int
  <2>1. Fitted(g) \in Seq(PairOf(b))
    BY DEF Fitted, MapOf
  <2> QED BY <2>1, OffsetsType
<1>4. CASE g.state = "RELOCKING" /\ ~Continuous(g, o)
  BY <1>2, <1>4
<1>5. CASE ~(g.state = "RELOCKING" /\ ~Continuous(g, o))
  <2>1. r = Lock(g, o)
    BY <1>2, <1>5
  <2>2. /\ r.state = "LOCKED" /\ r.active = o
        /\ g.candidate # <<>> => r.pairs = g.candidate
    BY <1>3, <2>1, LockIs
  <2>3. ASSUME g.state = "RELOCKING", Lost(g) PROVE Continues(g, r)
    <3>1. PICK c \in Seq(PairOf(b)) : c = g.candidate /\ c = Fitted(g)
      BY <2>3 DEF Fitted, MapOf
    <3>2. InSteps(c)
      BY <2>3, <3>1 DEF RelockOK
    <3>3. /\ Len(c) >= RelockCount /\ Last(c).local - Head(c).local >= MinSpan
          /\ RelockCount \in Nat \ {0, 1}
      BY <1>1, <2>3, <3>1, MappingAssumption DEF Ready
    <3>4. c # <<>>
      BY <3>3
    <3>5. Gap(g.active, o) <= MaxRelockStep
      BY <1>5, <2>3 DEF Continuous, RelockOK
    <3>6. Gap(o, g.active) <= MaxRelockStep
      <4>1. g.active \in Int
        BY <2>3 DEF MapOf, RelockOK
      <4> QED BY <1>3, <3>5, <4>1 DEF Gap
    <3>7. r.pairs = c /\ o \in Offsets(c)
      BY <1>2, <2>2, <3>1, <3>4
    <3> QED BY <2>2, <3>2, <3>3, <3>6, <3>7 DEF Continues
  <2> QED BY <2>2, <2>3
<1> QED BY <1>4, <1>5

LEMMA RefusedRelocks ==
  ASSUME NEW b \in Nat, NEW g \in MapOf(b), NEW r \in Refused(g)
  PROVE  r = g \/ (g.state = "LOCKED" /\ r.state = "LOCKED")
<1>1. \A o \in Offsets(g.pairs) : Install(g, o).state = g.state
  BY DEF Install, MapOf
<1> QED BY <1>1 DEF Refused

\* addPair
LEMMA AddPairRelocks ==
  ASSUME NEW b \in Nat, NEW m \in MapOf(b), NEW p \in PairOf(b), NEW r \in AddPair(m, p),
         RelockOK(m)
  PROVE  Relocks(m, r)
<1>0. PICK s \in Seq(PairOf(b)) : s = <<>>
  BY NoPairs
<1>1. s = <<>> /\ DOMAIN s = {}
  BY <1>0
<1>2. PICK e : e = Enter(m)
  OBVIOUS
<1>3. /\ e \in MapOf(b) /\ e.active = m.active /\ RelockOK(e)
      /\ (Lost(e) <=> Lost(m)) /\ (Lost(e) => e.state = "RELOCKING")
  <2>1. CASE m.state = "HOLDOVER"
    <3>1. e = [m EXCEPT !.state = "RELOCKING", !.candidate = s]
      BY <1>1, <1>2, <2>1 DEF Enter
    <3>2. e \in MapOf(b) /\ e.active = m.active /\ e.state = "RELOCKING" /\ e.candidate = s
      BY <3>1 DEF MapOf, States
    <3>3. InSteps(s)
      BY <1>1 DEF InSteps
    <3> QED BY <2>1, <3>2, <3>3 DEF RelockOK, Lost
  <2>2. CASE m.state # "HOLDOVER"
    <3>1. e = m
      BY <1>2, <2>2 DEF Enter
    <3> QED BY <2>2, <3>1 DEF Lost
  <2> QED BY <2>1, <2>2
<1>4. PICK g : g = Grow(e, p)
  OBVIOUS
<1>5. /\ g \in MapOf(b) /\ g.active = m.active
      /\ (Lost(g) <=> Lost(m)) /\ (Lost(g) => g.state = "RELOCKING")
  BY <1>3, <1>4, GrowType, GrownIs DEF Lost
<1>6. r = e \/ (Appendable(Fitted(e), p) /\ (r \in Accepted(g) \/ r \in Refused(g)))
  BY <1>2, <1>4 DEF AddPair
<1>7. CASE r = e
  BY <1>3, <1>7 DEF Relocks
<1>8. ASSUME Appendable(Fitted(e), p) PROVE RelockOK(g)
  <2>1. ASSUME Lost(g) PROVE g.active # None /\ InSteps(g.candidate)
    <3>1. m.active # None /\ e.state = "RELOCKING" /\ Fitted(e) = e.candidate
      BY <1>3, <1>5, <2>1 DEF RelockOK, Fitted
    <3> QED BY <1>3, <1>4, <1>5, <1>8, <3>1, GrowRelocks
  <2> QED BY <2>1 DEF RelockOK
<1>9. CASE Appendable(Fitted(e), p) /\ r \in Accepted(g)
  <2>1. /\ RelockOK(g) /\ (r = g \/ r.state = "LOCKED")
        /\ Lost(g) /\ r.active # g.active => Continues(g, r)
    BY <1>5, <1>8, <1>9, AcceptedRelocks
  <2>2. RelockOK(r)
    BY <2>1 DEF RelockOK, Lost
  <2>3. Lost(m) /\ r.active # m.active => Continues(m, r)
    BY <1>5, <2>1 DEF Continues
  <2> QED BY <2>2, <2>3 DEF Relocks
<1>10. CASE Appendable(Fitted(e), p) /\ r \in Refused(g)
  <2>1. RelockOK(g) /\ (r = g \/ (g.state = "LOCKED" /\ r.state = "LOCKED"))
    BY <1>5, <1>8, <1>10, RefusedRelocks
  <2>2. RelockOK(r)
    BY <2>1 DEF RelockOK, Lost
  <2>3. Lost(m) => r.active = m.active
    BY <1>5, <2>1 DEF Lost
  <2> QED BY <2>2, <2>3 DEF Relocks
<1> QED BY <1>6, <1>7, <1>9, <1>10

\* update: a mapping is lost only when there is one.
LEMMA UpdateRelocks ==
  ASSUME NEW b \in Nat, NEW m \in MapOf(b), NEW local \in Int, RelockOK(m)
  PROVE  RelockOK(Update(m, local)) /\ Update(m, local).active = m.active
<1>1. PICK o : o = Outage(m, local)
  OBVIOUS
<1>2. PICK h : h = [m EXCEPT !.state = "HOLDOVER", !.lost = m.last]
  OBVIOUS
<1>3. PICK l : l = [m EXCEPT !.state = "LOCAL_ONLY", !.pairs = <<>>]
  OBVIOUS
<1>4. /\ h.state = "HOLDOVER" /\ h.active = m.active
      /\ l.state = "LOCAL_ONLY" /\ l.active = m.active
  BY <1>2, <1>3 DEF MapOf
<1>5. o = m \/ (o = h /\ m.active # None) \/ o = l
  BY <1>1, <1>2, <1>3 DEF Outage
<1>6. RelockOK(o) /\ o.active = m.active
  BY <1>4, <1>5 DEF RelockOK, Lost
<1>7. PICK i : i = [o EXCEPT !.state = "INVALID"]
  OBVIOUS
<1>8. o \in MapOf(b)
  <2>1. h \in MapOf(b)
    BY <1>2 DEF MapOf, States
  <2>2. PICK s \in Seq(PairOf(b)) : s = <<>>
    BY NoPairs
  <2>3. [m EXCEPT !.state = "LOCAL_ONLY", !.pairs = s] \in MapOf(b)
    BY DEF MapOf, States
  <2> QED BY <1>3, <1>5, <2>1, <2>2, <2>3
<1>9. i.state = "INVALID" /\ i.active = m.active
  BY <1>6, <1>7, <1>8 DEF MapOf
<1>10. Expired(o, local) = o \/ Expired(o, local) = i
  BY <1>7 DEF Expired
<1>11. Update(m, local) = m \/ Update(m, local) = Expired(o, local)
  BY <1>1 DEF Update
<1>12. RelockOK(i)
  BY <1>9 DEF RelockOK, Lost
<1> QED BY <1>6, <1>9, <1>10, <1>11, <1>12

\* An event leaves the mapping, or begins a session without one.
LEMMA DrainRelocks ==
  ASSUME TimeInv, RelockOK(bridge.map), Drain
  PROVE  /\ RelockOK(bridge'.map)
         /\ bridge'.boot = bridge.boot => bridge'.map = bridge.map
<1>1. PICK k \in Nat : k = bridge.boot
  BY DEF TimeInv, TimeTypeOK
<1>2. PICK b \in BridgeOf(k) : b = bridge
  BY <1>1 DEF TimeInv, TimeTypeOK
<1>3. PICK e \in Event : e = Head(queue)
  <2>1. queue \in Seq(Event) /\ queue # <<>>
    BY DEF Drain, TimeInv, TimeTypeOK
  <2> QED BY <2>1
<1>4. bridge' = ProcessEvent(b, e)
  BY <1>2, <1>3 DEF Drain
<1>5. CASE Announces(b, e)
  <2>1. PICK boot \in Nat \ {0} : boot = e.boot
    BY DEF Event
  <2>2. PICK s : s = NewSession(b, boot)
    OBVIOUS
  <2>3. s \in BridgeOf(boot) /\ s.map = NoMapping
    <3>1. s \in BridgeOf(boot)
      BY <2>2, NewSessionType
    <3>2. s.map = NoMapping
      BY <2>2 DEF NewSession, BeginSession, NewBridge
    <3> QED BY <3>1, <3>2
  <2>4. bridge' = Timed(s, e) /\ boot # b.boot
    BY <1>4, <1>5, <2>1, <2>2 DEF ProcessEvent, Announces
  <2>5. bridge'.map = NoMapping /\ bridge'.boot = boot
    BY <2>3, <2>4, TimedType DEF BridgeOf
  <2>6. RelockOK(NoMapping)
    BY DEF RelockOK, Lost, NoMapping
  <2> QED BY <1>2, <2>4, <2>5, <2>6
<1>6. CASE ~Announces(b, e)
  <2>1. bridge' = b \/ bridge' = Timed(b, e)
    BY <1>4, <1>6 DEF ProcessEvent
  <2> QED BY <1>2, <2>1, TimedType
<1> QED BY <1>5, <1>6

\* An observation may continue the mapping; the status only notices its loss.
LEMMA MapRelocks ==
  ASSUME TimeInv, RelockOK(bridge.map), Observation \/ Status
  PROVE  Relocks(bridge.map, bridge'.map)
<1>1. PICK k \in Nat : k = bridge.boot
  BY DEF TimeInv, TimeTypeOK
<1>2. PICK b \in BridgeOf(k) : b = bridge
  BY <1>1 DEF TimeInv, TimeTypeOK
<1>3. b.map \in MapOf(k) /\ b.latest \in Int /\ RelockOK(b.map)
  BY <1>2 DEF BridgeOf
<1>4. CASE Observation
  <2>1. PICK o \in Reported : o = Head(observations)
    <3>1. observations \in Seq(Reported) /\ observations # <<>>
      BY <1>4 DEF Observation, TimeInv, TimeTypeOK
    <3> QED BY <3>1
  <2>2. CASE Observed(b, o)
    <3>1. UtcPair(o) \in PairOf(k)
      BY <1>1, <1>2, <2>2, ObservedType
    <3>2. PICK m \in AddPair(b.map, UtcPair(o)) : bridge' = [b EXCEPT !.map = m]
      BY <1>2, <1>4, <2>1, <2>2 DEF Observation
    <3>3. bridge'.map = m
      BY <3>2 DEF BridgeOf
    <3> QED BY <1>2, <1>3, <3>1, <3>2, <3>3, AddPairRelocks
  <2>3. CASE ~Observed(b, o)
    <3>1. bridge' = bridge
      BY <1>2, <1>4, <2>1, <2>3 DEF Observation
    <3> QED BY <3>1 DEF Relocks
  <2> QED BY <2>2, <2>3
<1>5. CASE Status
  <2>1. PICK m : m = Update(b.map, b.latest)
    OBVIOUS
  <2>2. bridge' = [b EXCEPT !.map = m]
    BY <1>2, <1>5, <2>1 DEF Status
  <2>3. bridge'.map = m
    BY <2>2 DEF BridgeOf
  <2> QED BY <1>2, <1>3, <2>1, <2>3, UpdateRelocks DEF Relocks
<1> QED BY <1>4, <1>5

\* No step changes the mapping after a loss, but an observation may continue it.
LEMMA RelockStep ==
  ASSUME TimeInv, TimeInv', RelockOK(bridge.map), [Next]_vars
  PROVE  /\ RelockOK(bridge'.map)
         /\ Lost(bridge.map) /\ bridge'.boot = bridge.boot
            /\ bridge'.map.active # bridge.map.active => Continues(bridge.map, bridge'.map)
<1>1. CASE Drain
  BY <1>1, DrainRelocks
<1>2. CASE Observation \/ Status
  BY <1>2, MapRelocks DEF Relocks
<1>3. CASE bridge' = bridge
  BY <1>3
<1>4. Drain \/ Observation \/ Status \/ bridge' = bridge
  BY DEF Next, vars, McuEvent, McuReboot, BootAgain, ReceiveMapping, JumpUtc, TimeRecord, Position
<1> QED BY <1>1, <1>2, <1>3, <1>4

\* After a loss of the pairs a mapping in use is replaced only by one within
\* MaxRelockStep of it that is the offset of one of at least RelockCount pairs,
\* each of them a later one without a step of the clock and all over MinSpan,
\* whatever observations were still on their way and whoever stamped them
\* (MappingStateMachine::addPair).
THEOREM RelocksAreContinuous == Spec => RelockContinuous
<1>1. Init => RelockOK(bridge.map)
  BY DEF Init, NewBridge, NoMapping, RelockOK, Lost
<1>2. TimeInv /\ RelockOK(bridge.map) /\ TimeInv' /\ [Next]_vars => RelockOK(bridge.map)'
  BY RelockStep
<1>3. TimeInv /\ RelockOK(bridge.map) /\ TimeInv' /\ [Next]_vars =>
        [ /\ bridge.map.state \in {"HOLDOVER", "RELOCKING"}
          /\ bridge'.boot = bridge.boot /\ bridge'.map.active # bridge.map.active
          => LET ps == bridge'.map.pairs
             IN  /\ bridge'.map.state = "LOCKED" /\ bridge'.map.active \in Offsets(ps)
                 /\ Gap(bridge'.map.active, bridge.map.active) <= MaxRelockStep
                 /\ Len(ps) >= RelockCount /\ Last(ps).local - Head(ps).local >= MinSpan
                 /\ \A i \in 1..(Len(ps) - 1) : Appendable(SubSeq(ps, 1, i), ps[i + 1]) ]_vars
  <2> SUFFICES ASSUME TimeInv, RelockOK(bridge.map), TimeInv', [Next]_vars,
                      bridge.map.state \in {"HOLDOVER", "RELOCKING"},
                      bridge'.boot = bridge.boot, bridge'.map.active # bridge.map.active
               PROVE  LET ps == bridge'.map.pairs
                      IN  /\ bridge'.map.state = "LOCKED" /\ bridge'.map.active \in Offsets(ps)
                          /\ Gap(bridge'.map.active, bridge.map.active) <= MaxRelockStep
                          /\ Len(ps) >= RelockCount
                          /\ Last(ps).local - Head(ps).local >= MinSpan
                          /\ \A i \in 1..(Len(ps) - 1) : Appendable(SubSeq(ps, 1, i), ps[i + 1])
    OBVIOUS
  <2>1. Continues(bridge.map, bridge'.map)
    BY RelockStep DEF Lost
  <2>2. PICK ps : ps = bridge'.map.pairs
    OBVIOUS
  <2>3. ps \in Seq(PairOf(bridge'.boot))
    BY <2>2 DEF TimeInv, TimeTypeOK, BridgeOf, MapOf
  <2>4. \A i \in 1..(Len(ps) - 1) : Appendable(SubSeq(ps, 1, i), ps[i + 1])
    BY <2>1, <2>2, <2>3, StepsAppendable DEF Continues
  <2> QED BY <2>1, <2>2, <2>4 DEF Continues
<1> QED BY <1>1, <1>2, <1>3, TimeInvariant, PTL DEF Spec, RelockContinuous
-----------------------------------------------------------------------------
(* The recorder                                                              *)

RecorderTypeOK ==
  /\ setup \in [dry : BOOLEAN, named : BOOLEAN]
  /\ gate \in [session_id : Nat, local_ready : BOOLEAN, seen_topics : SUBSET RequiredTopics]
  /\ process \in {"none", "running", "ending", "exited"}
  /\ current_session \in Nat
  /\ failed \in BOOLEAN /\ shutting_down \in BOOLEAN
  /\ time_status \in [session_id : Nat, local_ready : BOOLEAN]

\* A session that is known cannot become unknown, so a bag that is running
\* when the gate's session changes is noticed.
RecorderInv ==
  /\ RecorderTypeOK
  /\ gate.session_id <= time_status.session_id
  /\ RecordsItsSession

\* _maybe_start with no other bag running: the bag it starts is of the gate's
\* session, and a ready gate leaves none without a bag that has not failed.
LEMMA Starts ==
  ASSUME NEW g \in [session_id : Nat, local_ready : BOOLEAN, seen_topics : SUBSET RequiredTopics],
         NEW p \in {"none", "running", "ending", "exited"}, RecorderTypeOK,
         MaybeStart(g, p), UNCHANGED shutting_down,
         p = "running" => current_session = g.session_id /\ g.session_id # 0
  PROVE  /\ process' \in {"none", "running", "ending", "exited"}
         /\ current_session' \in Nat /\ failed' \in BOOLEAN
         /\ process' = "running" => current_session' = g.session_id /\ g.session_id # 0
         /\ GateReady(g) /\ ~failed' /\ ~shutting_down' => process' # "none"
<1>1. CASE shutting_down \/ failed \/ p # "none" \/ ~GateReady(g)
  BY <1>1 DEF MaybeStart, RecorderTypeOK
<1>2. CASE ~(shutting_down \/ failed \/ p # "none" \/ ~GateReady(g))
  <2>1. GateReady(g) /\ g.session_id # 0 /\ g.session_id \in Nat
    BY <1>2 DEF GateReady
  <2>2. CASE StartBag(g)
    BY <2>1, <2>2 DEF StartBag, RecorderTypeOK
  <2>3. CASE RefuseBag /\ current_session' = g.session_id
    BY <2>1, <2>3 DEF RefuseBag
  <2> QED BY <1>2, <2>2, <2>3 DEF MaybeStart
<1> QED BY <1>1, <1>2

LEMMA RecorderStep ==
  ASSUME RecorderInv, [RecorderNext]_recorderVars
  PROVE  RecorderInv'
<1> USE DEF RecorderInv
<1>1. PICK g \in [session_id : Nat, local_ready : BOOLEAN, seen_topics : SUBSET RequiredTopics] : g = gate
  BY DEF RecorderTypeOK
<1>2. PICK t \in [session_id : Nat, local_ready : BOOLEAN] : t = time_status
  BY DEF RecorderTypeOK
<1>3. /\ process = "running" => current_session = g.session_id /\ g.session_id # 0
      /\ GateReady(g) /\ ~failed /\ ~shutting_down => process # "none"
      /\ g.session_id <= t.session_id
  BY <1>1, <1>2 DEF RecordsItsSession
<1>4. ASSUME NEW topic \in RequiredTopics, TopicCallback(topic) PROVE RecorderInv'
  <2>1. PICK h : h = [g EXCEPT !.seen_topics = @ \union {topic}]
    OBVIOUS
  <2>2. /\ h \in [session_id : Nat, local_ready : BOOLEAN, seen_topics : SUBSET RequiredTopics]
        /\ h.session_id = g.session_id
    BY <2>1
  <2>3. gate' = h /\ MaybeStart(h, process) /\ UNCHANGED <<setup, shutting_down, time_status>>
    BY <1>1, <1>4, <2>1 DEF TopicCallback
  <2> QED BY <1>2, <1>3, <2>2, <2>3, Starts DEF RecorderTypeOK, RecordsItsSession
<1>5. CASE TimeCallback
  <2>1. PICK h : h = UpdateTime(g, t)
    OBVIOUS
  <2>2. /\ h \in [session_id : Nat, local_ready : BOOLEAN, seen_topics : SUBSET RequiredTopics]
        /\ h.session_id = t.session_id
    BY <2>1 DEF UpdateTime
  <2>3. gate' = h /\ UNCHANGED <<setup, shutting_down, time_status>>
    BY <1>1, <1>2, <1>5, <2>1 DEF TimeCallback
  <2>4. CASE Changed(g, t) /\ process # "none"
    <3>1. CASE MaybeStart(h, "none")
      BY <1>2, <2>2, <2>3, <3>1, Starts DEF RecorderTypeOK, RecordsItsSession
    <3>2. CASE LeaveEnding
      BY <1>2, <2>2, <2>3, <3>2 DEF LeaveEnding, RecorderTypeOK, RecordsItsSession
    <3> QED BY <1>1, <1>2, <1>5, <2>3, <2>4, <3>1, <3>2 DEF TimeCallback
  <2>5. CASE ~(Changed(g, t) /\ process # "none")
    <3>1. MaybeStart(h, process)
      BY <1>1, <1>2, <1>5, <2>3, <2>5 DEF TimeCallback
    <3>2. process = "running" => h.session_id = g.session_id
      BY <1>3, <2>2, <2>5 DEF Changed
    <3> QED BY <1>2, <1>3, <2>2, <2>3, <3>1, <3>2, Starts DEF RecorderTypeOK, RecordsItsSession
  <2> QED BY <2>4, <2>5
<1>6. CASE CheckProcess
  BY <1>6 DEF CheckProcess, RecorderTypeOK, RecordsItsSession
<1>7. CASE StopRecorder
  BY <1>7 DEF StopRecorder, LeaveEnding, RecorderTypeOK, RecordsItsSession
<1>8. CASE BagExits
  BY <1>8 DEF BagExits, RecorderTypeOK, RecordsItsSession
<1>9. CASE BridgeMoves
  <2>1. time_status' \in [session_id : Nat, local_ready : BOOLEAN] /\ t.session_id <= time_status'.session_id
    <3>1. CASE time_status' = [session_id |-> t.session_id + 1, local_ready |-> FALSE]
      BY <3>1
    <3>2. CASE time_status' = [t EXCEPT !.local_ready = TRUE]
      <4>1. [t EXCEPT !.local_ready = TRUE] \in [session_id : Nat, local_ready : BOOLEAN]
        OBVIOUS
      <4>2. [t EXCEPT !.local_ready = TRUE].session_id = t.session_id /\ t.session_id \in Nat
        OBVIOUS
      <4> QED BY <3>2, <4>1, <4>2
    <3> QED BY <1>2, <1>9, <3>1, <3>2 DEF BridgeMoves
  <2> QED BY <1>1, <1>2, <1>3, <1>9, <2>1 DEF BridgeMoves, bagVars, RecorderTypeOK, RecordsItsSession
<1>10. CASE SecondPasses
  BY <1>10 DEF SecondPasses, bagVars, RecorderTypeOK, RecordsItsSession
<1>11. CASE UNCHANGED recorderVars
  BY <1>11 DEF recorderVars, bagVars, RecorderTypeOK, RecordsItsSession
<1> QED BY <1>4, <1>5, <1>6, <1>7, <1>8, <1>9, <1>10, <1>11 DEF RecorderNext

\* Whatever sessions change, bags end, fail to close or collide: a bag that is
\* being written is of the session known, and a ready recorder that has not
\* failed has a bag.
THEOREM BagsFollowSessions == RecorderSpec => []RecordsItsSession
<1>1. RecorderInit => RecorderInv
  <2> SUFFICES ASSUME RecorderInit PROVE RecorderInv
    OBVIOUS
  <2>1. gate.session_id = 0 /\ time_status.session_id = 0 /\ process = "none"
    BY DEF RecorderInit, NewGate
  <2>2. RecorderTypeOK
    BY DEF RecorderInit, RecorderTypeOK, NewGate
  <2> QED BY <2>1, <2>2 DEF RecorderInv, RecordsItsSession, GateReady
<1>2. RecorderInv => RecordsItsSession
  BY DEF RecorderInv
<1> QED BY <1>1, <1>2, RecorderStep, PTL DEF RecorderSpec

-----------------------------------------------------------------------------
(* The anchor file: its sequence lock is correct for any number of writes,    *)
(* kills, restarts and attempts, when loads and stores become visible in      *)
(* program order.                                                             *)

(* The writer.  Stores show in program order, so the ones left are the last *)
(* of the plan, the sequence of the file is odd while fields change, and an *)
(* even sequence says that the file is what the last finished write left.   *)
WriterInv ==
  /\ \A i \in left : \A j \in 1..5 : i <= j => j \in left
  /\ left # {} => ~Odd(target["seq"]) /\ target["seq"] > 0
  /\ 1 \in left => mem["seq"] < target["seq"] - 1
  /\ left # {} /\ 1 \notin left => mem["seq"] = target["seq"] - 1
  /\ left = {} /\ up => ~Odd(mem["seq"])
  /\ Len(written) > 0
  /\ ~Odd(mem["seq"]) => mem = written[Len(written)]

(* The places of the two loads of the sequence that a reader compares.      *)
First == IF reader = "cpp" THEN 1 ELSE 2
Second == IF reader = "cpp" THEN 5 ELSE 6

(* What the attempt has loaded from the first of them on is what the file   *)
(* holds, unless the sequence has moved since.                              *)
LoadsInOrder ==
  /\ \A i \in DOMAIN got : 1..(i - 1) \subseteq DOMAIN got
  /\ ~reading => DOMAIN got = {}

LoadsCurrent ==
  First \in DOMAIN got /\ ~Odd(got[First]) =>
    /\ got[First] <= mem["seq"]
    /\ got[First] = mem["seq"] =>
         \A j \in DOMAIN got : First <= j /\ j <= Second => got[j] = mem[LoadPlan[j]]

(* Once the sequence is seen unmoved, the loads in between are of one write.*)
LoadsOfOneWrite ==
  Second \in DOMAIN got /\ ~Odd(got[First]) /\ got[Second] = got[First] =>
    \E n \in since..Len(written) :
      \A j \in First..Second : got[j] = written[n][LoadPlan[j]]

ReaderInv == LoadsInOrder /\ LoadsCurrent /\ LoadsOfOneWrite

AnchorInv == TypeOK /\ WriterInv /\ ReaderInv /\ NeverTorn

-----------------------------------------------------------------------------
(* Lemmas about the operators.                                             *)

(* Anchor puts its four fields together.                                   *)
LEMMA AnchorFields ==
  \A e, q, t, r \in Nat :
    /\ Anchor(e, q, t, r) \in Memory
    /\ Anchor(e, q, t, r)["epoch"] = e /\ Anchor(e, q, t, r)["seq"] = q
    /\ Anchor(e, q, t, r)["stamp"] = t /\ Anchor(e, q, t, r)["ready"] = r
<1>. TAKE e, q, t, r \in Nat
<1>. DEFINE A == Anchor(e, q, t, r)
<1>1. \A c \in Cells : A[c] = CASE c = "epoch" -> e [] c = "seq" -> q
                                [] c = "stamp" -> t [] c = "ready" -> r
  BY DEF Anchor
<1>2. A["epoch"] = e /\ A["seq"] = q /\ A["stamp"] = t /\ A["ready"] = r
  BY <1>1 DEF Cells
<1>3. A \in Memory
  <2>. DEFINE F(c) == CASE c = "epoch" -> e [] c = "seq" -> q
                        [] c = "stamp" -> t [] c = "ready" -> r
  <2>1. A = [c \in Cells |-> F(c)]
    BY DEF Anchor
  <2>2. \A c \in Cells : F(c) \in Nat
    BY DEF Cells
  <2>. HIDE DEF F
  <2>. QED
    BY <2>1, <2>2 DEF Memory
<1>. QED
  BY <1>2, <1>3

(* A memory is its four fields put together.                               *)
LEMMA AnchorOfFields ==
  ASSUME NEW m \in Memory
  PROVE  Anchor(m["epoch"], m["seq"], m["stamp"], m["ready"]) = m
<1>1. m = [c \in Cells |-> m[c]]
  BY DEF Memory
<1>2. \A c \in Cells :
        m[c] = CASE c = "epoch" -> m["epoch"] [] c = "seq" -> m["seq"]
                 [] c = "stamp" -> m["stamp"] [] c = "ready" -> m["ready"]
  BY DEF Cells
<1>. QED
  BY <1>1, <1>2 DEF Anchor

(* The odd sequence of a write is odd, and above the one in the file.      *)
LEMMA NextOddAbove ==
  ASSUME NEW n \in Nat
  PROVE  NextOdd(n) \in Nat /\ NextOdd(n) > n /\ ~Odd(NextOdd(n) + 1)
  BY DEF NextOdd, Odd

(* The places of the two plans.                                            *)
LEMMA Places ==
  /\ DOMAIN StorePlan = 1..5
  /\ StorePlan[1] = "seq" /\ StorePlan[2] = "epoch" /\ StorePlan[3] = "stamp"
  /\ StorePlan[4] = "ready" /\ StorePlan[5] = "seq"
  /\ \A i \in 1..5 : StorePlan[i] \in Cells
  /\ \A i \in DOMAIN LoadPlan : i \in Nat /\ LoadPlan[i] \in Cells
<1>1. CASE reader = "cpp"
  BY <1>1 DEF StorePlan, LoadPlan, Cells
<1>2. CASE reader # "cpp"
  BY <1>2 DEF StorePlan, LoadPlan, Cells
<1>. QED
  BY <1>1, <1>2

(* Where the C++ reader loads what.                                        *)
LEMMA CppPlaces ==
  ASSUME reader = "cpp"
  PROVE  /\ DOMAIN LoadPlan = 1..5 /\ First = 1 /\ Second = 5
         /\ LoadPlan[1] = "seq" /\ LoadPlan[2] = "epoch" /\ LoadPlan[3] = "stamp"
         /\ LoadPlan[4] = "ready" /\ LoadPlan[5] = "seq"
  BY DEF LoadPlan, First, Second

(* Where the mapper loads what.                                            *)
LEMMA MapperPlaces ==
  ASSUME reader # "cpp"
  PROVE  /\ DOMAIN LoadPlan = 1..8 /\ First = 2 /\ Second = 6
         /\ LoadPlan[1] = "epoch" /\ LoadPlan[2] = "seq" /\ LoadPlan[3] = "stamp"
         /\ LoadPlan[4] = "ready" /\ LoadPlan[5] = "epoch" /\ LoadPlan[6] = "seq"
         /\ LoadPlan[7] = "stamp" /\ LoadPlan[8] = "ready"
  BY DEF LoadPlan, First, Second

-----------------------------------------------------------------------------
(* The writer's steps.                                                     *)

(* A write that begins leaves the file and the reader alone.               *)
LEMMA WriteBegins ==
  ASSUME AnchorInv, NEW e \in Nat, NEW t \in Nat, NEW r \in Nat, Write(e, t, r),
         UNCHANGED readerVars
  PROVE  /\ writes' \in 0..MaxWrites /\ target' \in Memory /\ left' = 1..5
         /\ mem' = mem /\ written' = written
         /\ WriterInv' /\ ReaderInv' /\ NeverTorn'
<1>. DEFINE next == NextOdd(mem["seq"]) + 1
<1>1. mem["seq"] \in Nat
  BY DEF AnchorInv, TypeOK, Memory, Cells
<1>2. PICK q \in Nat : q = next /\ q - 1 > mem["seq"] /\ ~Odd(q) /\ q > 0
  <2>1. next \in Nat /\ next - 1 > mem["seq"] /\ ~Odd(next) /\ next > 0
    BY <1>1, NextOddAbove
  <2>. QED
    BY <2>1
<1>3. target' = Anchor(e, q, t, r) /\ left' = 1..5 /\ mem' = mem /\ written' = written
  BY <1>2, Places DEF Write
<1>4. target' \in Memory /\ target'["seq"] = q
  <2>. DEFINE A == Anchor(e, q, t, r)
  <2>1. A \in Memory /\ A["seq"] = q
    BY AnchorFields
  <2>2. target' = A
    BY <1>3
  <2>. QED
    BY <2>1, <2>2
<1>5. WriterInv'
  BY <1>1, <1>2, <1>3, <1>4 DEF WriterInv, AnchorInv
<1>6. ReaderInv' /\ NeverTorn'
  BY <1>3 DEF AnchorInv, ReaderInv, LoadsInOrder, LoadsCurrent, LoadsOfOneWrite, NeverTorn,
              readerVars, First, Second, LoadPlan
<1>7. writes' \in 0..MaxWrites
  BY NumbersAssumption DEF Write, AnchorInv, TypeOK
<1>. QED
  BY <1>3, <1>4, <1>5, <1>6, <1>7

(* Opening the file.                                                       *)
LEMMA OpenStep ==
  ASSUME AnchorInv, Open
  PROVE  AnchorInv'
<1>1. epoch' \in Nat /\ 0 \in Nat /\ run' = 0 /\ up' = TRUE
      /\ Write(epoch', 0, 0) /\ UNCHANGED readerVars
  BY DEF Open, AnchorInv, TypeOK
<1>2. /\ writes' \in 0..MaxWrites /\ target' \in Memory /\ left' = 1..5
      /\ mem' = mem /\ written' = written
      /\ WriterInv' /\ ReaderInv' /\ NeverTorn'
  <2>1. PICK e \in Nat : e = epoch'
    BY <1>1
  <2>2. Write(e, 0, 0)
    BY <1>1, <2>1
  <2>. QED
    BY <1>1, <2>2, WriteBegins
<1>3. TypeOK'
  BY <1>1, <1>2, Places DEF AnchorInv, TypeOK, readerVars, LoadPlan
<1>. QED
  BY <1>2, <1>3 DEF AnchorInv

(* A sample, or an invalidation.                                           *)
LEMMA ObserveStep ==
  ASSUME AnchorInv, NEW valid \in BOOLEAN, NEW continuous \in BOOLEAN,
         Observe(valid, continuous)
  PROVE  AnchorInv'
<1>1. run' \in Nat /\ up' = up /\ epoch' = epoch /\ epoch \in Nat /\ UNCHANGED readerVars
  BY DEF Observe, AnchorInv, TypeOK
<1>2. /\ writes' \in 0..MaxWrites /\ target' \in Memory /\ left' = 1..5
      /\ mem' = mem /\ written' = written
      /\ WriterInv' /\ ReaderInv' /\ NeverTorn'
  <2>1. CASE valid
    <3>1. PICK t \in Nat : t = writes'
      BY <2>1 DEF Observe, Write, AnchorInv, TypeOK
    <3>2. PICK r \in Nat : r = IF run' >= MinReady THEN 1 ELSE 0
      OBVIOUS
    <3>3. PICK e \in Nat : e = epoch
      BY <1>1
    <3>4. Write(e, t, r)
      BY <2>1, <3>1, <3>2, <3>3 DEF Observe
    <3>. QED
      BY <1>1, <3>4, WriteBegins
  <2>2. CASE ~valid
    <3>1. PICK e \in Nat : e = epoch
      BY <1>1
    <3>2. Write(e, 0, 0)
      BY <2>2, <3>1 DEF Observe
    <3>. QED
      BY <1>1, <3>2, WriteBegins
  <2>. QED
    BY <2>1, <2>2
<1>3. TypeOK'
  BY <1>1, <1>2, Places DEF AnchorInv, TypeOK, readerVars, LoadPlan
<1>. QED
  BY <1>2, <1>3 DEF AnchorInv

(* Closing the file.                                                       *)
LEMMA CloseStep ==
  ASSUME AnchorInv, Close
  PROVE  AnchorInv'
<1>1. run' = 0 /\ up' = FALSE /\ epoch' = epoch /\ epoch \in Nat
      /\ Write(epoch, 0, 0) /\ UNCHANGED readerVars
  BY DEF Close, AnchorInv, TypeOK
<1>2. /\ writes' \in 0..MaxWrites /\ target' \in Memory /\ left' = 1..5
      /\ mem' = mem /\ written' = written
      /\ WriterInv' /\ ReaderInv' /\ NeverTorn'
  <2>1. PICK e \in Nat : e = epoch
    BY <1>1
  <2>2. Write(e, 0, 0)
    BY <1>1, <2>1
  <2>. QED
    BY <1>1, <2>2, WriteBegins
<1>3. TypeOK'
  BY <1>1, <1>2, Places DEF AnchorInv, TypeOK, readerVars, LoadPlan
<1>. QED
  BY <1>2, <1>3 DEF AnchorInv

(* A kill: the file stays as it is, and nothing is to come.                *)
LEMMA KillStep ==
  ASSUME AnchorInv, Kill
  PROVE  AnchorInv'
<1>1. up' = FALSE /\ left' = {}
      /\ UNCHANGED <<mem, target, epoch, run, writes, written, readerVars>>
  BY DEF Kill
<1>2. TypeOK'
  BY <1>1 DEF AnchorInv, TypeOK, readerVars, LoadPlan
<1>3. WriterInv'
  BY <1>1 DEF AnchorInv, WriterInv
<1>4. ReaderInv' /\ NeverTorn'
  BY <1>1 DEF AnchorInv, ReaderInv, LoadsInOrder, LoadsCurrent, LoadsOfOneWrite, NeverTorn,
              readerVars, First, Second, LoadPlan
<1>. QED
  BY <1>2, <1>3, <1>4 DEF AnchorInv

(* A store shows: the sequence of the file only grows, and it leaves every  *)
(* even value it has at the next store.                                     *)
LEMMA ShowStep ==
  ASSUME InOrder, AnchorInv, NEW i \in 1..5, Show(i)
  PROVE  AnchorInv'
<1>. DEFINE cell == StorePlan[i]
            v == IF i = 1 THEN target["seq"] - 1 ELSE target[cell]
<1>1. i \in left /\ left' = left \ {i} /\ mem' = [mem EXCEPT ![cell] = v]
      /\ UNCHANGED <<target, up, epoch, run, writes, readerVars>>
  BY DEF Show
<1>2. /\ mem \in Memory /\ target \in Memory /\ left \subseteq 1..5
      /\ written \in Seq(Memory) /\ mem["seq"] \in Nat /\ target["seq"] \in Nat
  BY Places DEF AnchorInv, TypeOK, Memory, Cells
<1>3. \A j \in 1..5 : j \in left <=> i <= j
  BY <1>1, <1>2 DEF Show, MayShow, AnchorInv, WriterInv
<1>4. cell \in Cells /\ v \in Nat
  <2>1. cell \in Cells
    BY Places
  <2>2. target[cell] \in Nat
    BY <1>2, <2>1 DEF Memory
  <2>3. target["seq"] - 1 \in Nat
    BY <1>1, <1>2 DEF AnchorInv, WriterInv
  <2>. QED
    BY <2>1, <2>2, <2>3
<1>5. mem' \in Memory /\ mem'[cell] = v /\ \A c \in Cells : c # cell => mem'[c] = mem[c]
  <2>. HIDE DEF cell, v
  <2>. QED
    BY <1>1, <1>2, <1>4 DEF Memory
<1>6. i # 5 => 5 \in left' /\ left' # {} /\ written' = written
  BY <1>1, <1>3 DEF Show
<1>7. i = 5 => left' = {} /\ written' = Append(written, mem')
  BY <1>1, <1>2, <1>3 DEF Show
<1>8. /\ i = 1 => mem["seq"] < target["seq"] - 1 /\ mem'["seq"] = target["seq"] - 1
      /\ i # 1 => mem["seq"] = target["seq"] - 1
      /\ i \in 2..4 => mem'["seq"] = mem["seq"]
      /\ i = 5 => mem'["seq"] = target["seq"]
      /\ ~Odd(target["seq"]) /\ target["seq"] > 0
  <2>1. /\ i = 1 => mem["seq"] < target["seq"] - 1
        /\ i # 1 => mem["seq"] = target["seq"] - 1
        /\ ~Odd(target["seq"]) /\ target["seq"] > 0
    BY <1>1, <1>3 DEF AnchorInv, WriterInv
  <2>2. i \in 2..4 => cell # "seq"
    BY Places
  <2>3. i \in {1, 5} => cell = "seq"
    BY Places
  <2>4. "seq" \in Cells
    BY DEF Cells
  <2>. QED
    BY <1>5, <2>1, <2>2, <2>3, <2>4
<1>9. mem'["seq"] \in Nat /\ mem["seq"] <= mem'["seq"]
      /\ (~Odd(mem["seq"]) => mem["seq"] < mem'["seq"])
      /\ (i # 5 => Odd(mem'["seq"])) /\ (i = 5 => ~Odd(mem'["seq"]))
  BY <1>2, <1>8 DEF Odd
<1>10. /\ written' \in Seq(Memory) /\ Len(written') >= Len(written)
       /\ \A n \in 1..Len(written) : written'[n] = written[n]
       /\ i = 5 => written'[Len(written')] = mem'
       /\ Len(written) \in Nat
  <2>1. Len(written) \in Nat
    BY <1>2
  <2>2. CASE i = 5
    <3>1. written' = Append(written, mem')
      BY <1>7, <2>2
    <3>. QED
      BY <1>2, <1>5, <2>1, <2>2, <3>1, AppendProperties
  <2>3. CASE i # 5
    <3>1. written' = written
      BY <1>6, <2>3
    <3>. QED
      BY <1>2, <2>1, <2>3, <3>1
  <2>. QED
    BY <2>2, <2>3
<1>11. TypeOK'
  BY SMTT(30), <1>1, <1>2, <1>5, <1>10, Places DEF AnchorInv, TypeOK, readerVars, LoadPlan
<1>12. WriterInv'
  <2>1. \A j \in left' : \A k \in 1..5 : j <= k => k \in left'
    BY <1>1, <1>2, <1>3
  <2>2. left' # {} => i # 5
    BY <1>7
  <2>3. 1 \notin left'
    BY <1>1, <1>2, <1>3
  <2>4. left' # {} => mem'["seq"] = target'["seq"] - 1
    BY <1>1, <1>8, <2>2
  <2>5. Len(written') > 0
    BY <1>10 DEF AnchorInv, WriterInv
  <2>6. ~Odd(mem'["seq"]) => i = 5
    BY <1>9
  <2>7. left' = {} => i = 5
    BY <1>6
  <2>. QED
    BY <1>1, <1>8, <1>9, <1>10, <2>1, <2>2, <2>3, <2>4, <2>5, <2>6, <2>7 DEF WriterInv
<1>13. LoadsCurrent'
  <2>1. UNCHANGED <<got, First, Second, LoadPlan>>
    BY <1>1 DEF readerVars, First, Second, LoadPlan
  <2>2. SUFFICES ASSUME First \in DOMAIN got, ~Odd(got[First])
                 PROVE  got[First] <= mem'["seq"] /\ got[First] # mem'["seq"]
    BY <2>1 DEF LoadsCurrent
  <2>3. got[First] <= mem["seq"] /\ got[First] \in Nat
    BY <2>2 DEF AnchorInv, ReaderInv, LoadsCurrent, TypeOK
  <2>. QED
    BY <1>2, <1>9, <2>2, <2>3
<1>14. LoadsOfOneWrite' /\ NeverTorn'
  <2>1. UNCHANGED <<got, since, outcome, First, Second, LoadPlan>>
    BY <1>1 DEF readerVars, First, Second, LoadPlan
  <2>2. \A n \in since..Len(written) : n \in since'..Len(written')
                                        /\ written'[n] = written[n]
    BY <1>10, <2>1 DEF AnchorInv, TypeOK
  <2>3. LoadsOfOneWrite'
    BY <2>1, <2>2 DEF AnchorInv, ReaderInv, LoadsOfOneWrite
  <2>4. NeverTorn'
    BY <2>1, <2>2 DEF AnchorInv, NeverTorn
  <2>. QED
    BY <2>3, <2>4
<1>15. LoadsInOrder'
  BY <1>1 DEF AnchorInv, ReaderInv, LoadsInOrder, readerVars
<1>. QED
  BY <1>11, <1>12, <1>13, <1>14, <1>15 DEF AnchorInv, ReaderInv

-----------------------------------------------------------------------------
(* The reader's steps.                                                     *)

(* A read begins.                                                          *)
LEMMA BeginReadStep ==
  ASSUME AnchorInv, BeginRead
  PROVE  AnchorInv'
<1>1. /\ ~reading /\ reading' = TRUE /\ since' = Len(written) /\ outcome' = NoOutcome
      /\ UNCHANGED <<writerVars, reader, attempt, got, known>>
  BY DEF BeginRead
<1>2. DOMAIN got = {}
  BY <1>1 DEF AnchorInv, ReaderInv, LoadsInOrder
<1>3. NoOutcome \in [result : Results, snapshot : Memory] /\ NoOutcome.result = "none"
  BY AnchorFields DEF NoOutcome, Results, Empty
<1>4. TypeOK'
  BY <1>1, <1>3 DEF AnchorInv, TypeOK, WriterInv, writerVars, LoadPlan
<1>5. WriterInv'
  BY <1>1 DEF AnchorInv, WriterInv, writerVars
<1>6. ReaderInv'
  BY <1>1, <1>2 DEF ReaderInv, LoadsInOrder, LoadsCurrent, LoadsOfOneWrite, First, Second
<1>7. NeverTorn'
  BY <1>1, <1>3 DEF NeverTorn
<1>. QED
  BY <1>4, <1>5, <1>6, <1>7 DEF AnchorInv

(* A load: at the second load of the sequence, if it has not moved, the file *)
(* is what the last finished write left, and so are the loads in between.   *)
LEMMA LoadStep ==
  ASSUME InOrder, AnchorInv, NEW i \in 1..8, Load(i)
  PROVE  AnchorInv'
<1>. DEFINE p == First
            q == Second
<1>1. /\ reading /\ i \in DOMAIN LoadPlan /\ i \notin DOMAIN got
      /\ 1..(i - 1) \subseteq DOMAIN got
      /\ UNCHANGED <<writerVars, reader, reading, attempt, known, outcome, since>>
  BY DEF Load
<1>2. /\ DOMAIN got' = DOMAIN got \cup {i} /\ got'[i] = mem[LoadPlan[i]]
      /\ \A j \in DOMAIN got : got'[j] = got[j]
  BY <1>1 DEF Load
<1>3. UNCHANGED <<mem, written, since, outcome, reading, First, Second, LoadPlan>>
  BY <1>1 DEF writerVars, First, Second, LoadPlan
<1>4. /\ mem \in Memory /\ \A c \in Cells : mem[c] \in Nat
      /\ LoadPlan[i] \in Cells /\ DOMAIN got \subseteq DOMAIN LoadPlan
      /\ \A j \in DOMAIN LoadPlan : j \in Nat /\ j > 0
  <2>1. LoadPlan[i] \in Cells
    BY <1>1, Places
  <2>2. \A j \in DOMAIN LoadPlan : j \in Nat /\ j > 0
    BY CppPlaces, MapperPlaces
  <2>. QED
    BY <2>1, <2>2 DEF AnchorInv, TypeOK, Memory
<1>5. \A j \in DOMAIN got : j < i
  <2>1. \A j \in DOMAIN got : 1..(j - 1) \subseteq DOMAIN got
    BY DEF AnchorInv, ReaderInv, LoadsInOrder
  <2>. QED
    BY <1>1, <1>4, <2>1
<1>6. /\ p \in Nat /\ q \in Nat /\ 0 < p /\ p < q
      /\ LoadPlan[p] = "seq" /\ LoadPlan[q] = "seq"
  BY CppPlaces, MapperPlaces
<1>7. TypeOK'
  BY <1>1, <1>2, <1>3, <1>4 DEF AnchorInv, TypeOK, writerVars
<1>8. WriterInv'
  BY <1>1 DEF AnchorInv, WriterInv, writerVars
<1>9. NeverTorn'
  BY <1>3 DEF AnchorInv, NeverTorn
<1>10. LoadsInOrder'
  <2>1. \A j \in DOMAIN got' : 1..(j - 1) \subseteq DOMAIN got'
    BY <1>1, <1>2 DEF AnchorInv, ReaderInv, LoadsInOrder
  <2>. QED
    BY <1>1, <2>1 DEF LoadsInOrder
<1>11. LoadsCurrent'
  <2>1. SUFFICES ASSUME p \in DOMAIN got', ~Odd(got'[p])
                 PROVE  /\ got'[p] <= mem["seq"]
                        /\ got'[p] = mem["seq"] =>
                             \A j \in DOMAIN got' : p <= j /\ j <= q
                                                   => got'[j] = mem[LoadPlan[j]]
    BY <1>3 DEF LoadsCurrent
  <2>2. CASE i = p
    <3>1. got'[p] = mem["seq"] /\ mem["seq"] \in Nat
      BY <1>2, <1>4, <1>6, <2>2
    <3>2. \A j \in DOMAIN got' : p <= j => j = i
      BY <1>2, <1>4, <1>5, <1>6, <2>2
    <3>. QED
      BY <1>2, <3>1, <3>2
  <2>3. CASE i # p
    <3>1. p \in DOMAIN got /\ got'[p] = got[p] /\ ~Odd(got[p])
      BY <1>2, <2>1, <2>3
    <3>2. /\ got[p] <= mem["seq"]
          /\ got[p] = mem["seq"] =>
               \A j \in DOMAIN got : p <= j /\ j <= q => got[j] = mem[LoadPlan[j]]
      BY <3>1 DEF AnchorInv, ReaderInv, LoadsCurrent
    <3>. QED
      BY <1>2, <3>1, <3>2
  <2>. QED
    BY <2>2, <2>3
<1>12. LoadsOfOneWrite'
  <2>1. SUFFICES ASSUME q \in DOMAIN got', ~Odd(got'[p]), got'[q] = got'[p]
                 PROVE  \E n \in since..Len(written) :
                          \A j \in p..q : got'[j] = written[n][LoadPlan[j]]
    BY <1>3 DEF LoadsOfOneWrite
  <2>2. CASE i = q
    <3>1. \A j \in p..q : j \in DOMAIN got'
      BY <1>1, <1>2, <1>6, <2>2
    <3>2. p \in DOMAIN got' /\ got'[p] = mem["seq"]
      BY <1>2, <1>6, <2>1, <2>2, <3>1
    <3>3. \A j \in p..q : got'[j] = mem[LoadPlan[j]]
      BY <1>3, <1>6, <1>11, <2>1, <3>1, <3>2 DEF LoadsCurrent
    <3>4. mem = written[Len(written)]
      BY <2>1, <3>2 DEF AnchorInv, WriterInv
    <3>5. Len(written) \in since..Len(written)
      BY DEF AnchorInv, TypeOK
    <3>. QED
      BY <3>3, <3>4, <3>5
  <2>3. CASE i # q
    <3>1. q \in DOMAIN got
      BY <1>2, <2>1, <2>3
    <3>2. \A j \in p..q : j \in DOMAIN got
      <4>1. 1..(q - 1) \subseteq DOMAIN got
        BY <3>1 DEF AnchorInv, ReaderInv, LoadsInOrder
      <4>. QED
        BY <1>6, <3>1, <4>1
    <3>3. \A j \in p..q : got'[j] = got[j]
      BY <1>2, <3>2
    <3>4. p \in p..q /\ q \in p..q
      BY <1>6
    <3>5. \E n \in since..Len(written) : \A j \in p..q : got[j] = written[n][LoadPlan[j]]
      BY <2>1, <3>1, <3>3, <3>4 DEF AnchorInv, ReaderInv, LoadsOfOneWrite
    <3>. QED
      BY <3>3, <3>5
  <2>. QED
    BY <2>2, <2>3
<1>. QED
  BY <1>7, <1>8, <1>9, <1>10, <1>11, <1>12 DEF AnchorInv, ReaderInv

(* What a stable attempt has loaded is what one finished write left.       *)
LEMMA StableIsWritten ==
  ASSUME AnchorInv, Stable
  PROVE  \E n \in since..Len(written) : Snapshot = written[n]
<1>1. \A n \in since..Len(written) : written[n] \in Memory
  BY DEF AnchorInv, TypeOK
<1>2. CASE reader = "cpp"
  <2>1. PICK n \in since..Len(written) : \A j \in 1..5 : got[j] = written[n][LoadPlan[j]]
    BY <1>2, CppPlaces DEF AnchorInv, ReaderInv, LoadsOfOneWrite, Stable, AllLoaded
  <2>2. PICK m \in Memory : m = written[n]
    BY <1>1, <2>1
  <2>3. got[2] = m["epoch"] /\ got[5] = m["seq"]
        /\ got[3] = m["stamp"] /\ got[4] = m["ready"]
    BY <1>2, <2>1, <2>2, CppPlaces
  <2>4. Snapshot = Anchor(m["epoch"], m["seq"], m["stamp"], m["ready"])
    BY <1>2, <2>3 DEF Snapshot
  <2>. QED
    BY <2>1, <2>2, <2>4, AnchorOfFields
<1>3. CASE reader # "cpp"
  <2>1. PICK n \in since..Len(written) : \A j \in 2..6 : got[j] = written[n][LoadPlan[j]]
    BY <1>3, MapperPlaces DEF AnchorInv, ReaderInv, LoadsOfOneWrite, Stable, AllLoaded
  <2>2. PICK m \in Memory : m = written[n]
    BY <1>1, <2>1
  <2>3. got[7] = got[3] /\ got[8] = got[4]
    BY <1>3 DEF Stable
  <2>4. got[5] = m["epoch"] /\ got[6] = m["seq"]
        /\ got[7] = m["stamp"] /\ got[8] = m["ready"]
    BY <1>3, <2>1, <2>2, <2>3, MapperPlaces
  <2>5. Snapshot = Anchor(m["epoch"], m["seq"], m["stamp"], m["ready"])
    BY <1>3, <2>4 DEF Snapshot
  <2>. QED
    BY <2>1, <2>2, <2>5, AnchorOfFields
<1>. QED
  BY <1>2, <1>3

(* An attempt ends, or the read does: nothing of it is kept.               *)
LEMMA AttemptEnds ==
  ASSUME AnchorInv, got' = <<>>, reading' \in BOOLEAN, UNCHANGED <<writerVars, reader, since>>
  PROVE  WriterInv' /\ ReaderInv'
<1>1. DOMAIN got' = {}
  OBVIOUS
<1>2. WriterInv'
  BY DEF AnchorInv, WriterInv, writerVars
<1>3. First' \notin DOMAIN got' /\ Second' \notin DOMAIN got'
  BY <1>1
<1>. QED
  BY <1>1, <1>2, <1>3 DEF ReaderInv, LoadsInOrder, LoadsCurrent, LoadsOfOneWrite

(* A stable read ends.                                                     *)
LEMMA ReadStableStep ==
  ASSUME AnchorInv, ReadStable
  PROVE  AnchorInv'
<1>1. /\ reading' = FALSE /\ attempt' = 1 /\ got' = <<>>
      /\ outcome' = [result |-> Verdict(Snapshot), snapshot |-> Snapshot]
      /\ UNCHANGED <<writerVars, reader, since>>
  BY DEF ReadStable, Return
<1>2. PICK n \in since..Len(written) : Snapshot = written[n]
  BY StableIsWritten DEF ReadStable
<1>3. Snapshot \in Memory
  BY <1>2 DEF AnchorInv, TypeOK
<1>4. Verdict(Snapshot) \in Results
  BY DEF Verdict, Results
<1>5. known' \in Nat
  BY <1>3 DEF ReadStable, AnchorInv, TypeOK, Memory, Cells
<1>6. 1 \in 1..MaxAttempts
  BY NumbersAssumption
<1>7. TypeOK'
  <2>1. DOMAIN got' = {}
    BY <1>1
  <2>. QED
    BY <1>1, <1>3, <1>4, <1>5, <1>6, <2>1 DEF AnchorInv, TypeOK, writerVars
<1>8. WriterInv' /\ ReaderInv'
  BY <1>1, AttemptEnds
<1>9. NeverTorn'
  BY <1>1, <1>2 DEF NeverTorn, writerVars
<1>. QED
  BY <1>7, <1>8, <1>9 DEF AnchorInv

(* An attempt fails.                                                       *)
LEMMA ReadAgainStep ==
  ASSUME AnchorInv, ReadAgain
  PROVE  AnchorInv'
<1>1. got' = <<>> /\ UNCHANGED <<writerVars, reader, known, since>>
  BY DEF ReadAgain, Return
<1>2. 1 \in 1..MaxAttempts /\ DOMAIN got' = {}
  BY <1>1, NumbersAssumption
<1>3. CASE AttemptsLeft
  <2>1. attempt' = attempt + 1 /\ UNCHANGED <<reading, outcome>>
    BY <1>3 DEF ReadAgain
  <2>2. attempt' \in 1..MaxAttempts
    BY <1>3, <2>1, NumbersAssumption DEF AttemptsLeft, AnchorInv, TypeOK
  <2>3. TypeOK'
    BY <1>1, <1>2, <2>1, <2>2 DEF AnchorInv, TypeOK, writerVars
  <2>4. WriterInv' /\ ReaderInv'
    BY <1>1, <2>1, AttemptEnds DEF AnchorInv, TypeOK
  <2>5. NeverTorn'
    BY <1>1, <2>1 DEF AnchorInv, NeverTorn, writerVars
  <2>. QED
    BY <2>3, <2>4, <2>5 DEF AnchorInv
<1>4. CASE ~AttemptsLeft
  <2>1. reading' = FALSE /\ attempt' = 1
        /\ outcome' = [result |-> "inconsistent", snapshot |-> Empty]
    BY <1>4 DEF ReadAgain, Return
  <2>2. Empty \in Memory
    BY AnchorFields DEF Empty
  <2>3. TypeOK'
    BY <1>1, <1>2, <2>1, <2>2 DEF AnchorInv, TypeOK, writerVars, Results
  <2>4. WriterInv' /\ ReaderInv'
    BY <1>1, <2>1, AttemptEnds
  <2>5. NeverTorn'
    BY <2>1 DEF NeverTorn
  <2>. QED
    BY <2>3, <2>4, <2>5 DEF AnchorInv
<1>. QED
  BY <1>3, <1>4

-----------------------------------------------------------------------------
(* The invariant, and what follows from it.                                *)

LEMMA AnchorInitInv == AnchorInit => AnchorInv
<1>. SUFFICES ASSUME AnchorInit PROVE AnchorInv
  OBVIOUS
<1>1. Empty \in Memory /\ Empty["seq"] = 0
  BY AnchorFields DEF Empty
<1>2. mem = Empty /\ target = Empty /\ left = {} /\ written = <<Empty>> /\ since = 1
      /\ reading = FALSE /\ got = <<>> /\ up = FALSE /\ outcome = NoOutcome
      /\ epoch = 0 /\ run = 0 /\ writes = 0 /\ reader \in Kinds /\ attempt = 1 /\ known = 0
  BY DEF AnchorInit
<1>3. written \in Seq(Memory) /\ Len(written) = 1 /\ written[1] = Empty
  BY <1>1, <1>2
<1>4. NoOutcome \in [result : Results, snapshot : Memory] /\ NoOutcome.result = "none"
  BY <1>1 DEF NoOutcome, Results
<1>5. DOMAIN got = {}
  BY <1>2
<1>6. TypeOK
  <2>1. mem \in Memory /\ target \in Memory /\ left \subseteq DOMAIN StorePlan
    BY <1>1, <1>2
  <2>2. up \in BOOLEAN /\ reading \in BOOLEAN
    BY <1>2
  <2>3. /\ epoch \in Nat /\ run \in Nat /\ writes \in 0..MaxWrites
        /\ reader \in Kinds /\ attempt \in 1..MaxAttempts /\ known \in Nat
    <3>1. epoch = 0 /\ run = 0 /\ writes = 0 /\ reader \in Kinds /\ attempt = 1 /\ known = 0
      BY <1>2
    <3>. QED
      BY <3>1, NumbersAssumption
  <2>4. DOMAIN got \subseteq DOMAIN LoadPlan /\ \A i \in DOMAIN got : got[i] \in Nat
    BY <1>5
  <2>5. outcome \in [result : Results, snapshot : Memory]
    BY <1>2, <1>4
  <2>6. written \in Seq(Memory) /\ since \in 1..Len(written)
    BY <1>2, <1>3
  <2>. QED
    BY <2>1, <2>2, <2>3, <2>4, <2>5, <2>6 DEF TypeOK
<1>7. WriterInv
  BY <1>1, <1>2, <1>3 DEF WriterInv
<1>8. ReaderInv
  BY <1>5 DEF ReaderInv, LoadsInOrder, LoadsCurrent, LoadsOfOneWrite, First, Second
<1>9. NeverTorn
  BY <1>2, <1>4 DEF NeverTorn
<1>. QED
  BY <1>6, <1>7, <1>8, <1>9 DEF AnchorInv

LEMMA AnchorNextInv ==
  ASSUME InOrder
  PROVE  AnchorInv /\ [AnchorNext]_anchorVars => AnchorInv'
<1>. SUFFICES ASSUME AnchorInv, [AnchorNext]_anchorVars PROVE AnchorInv'
  OBVIOUS
<1>1. CASE Open
  BY <1>1, OpenStep
<1>2. CASE Close
  BY <1>2, CloseStep
<1>3. CASE Kill
  BY <1>3, KillStep
<1>4. CASE \E valid, continuous \in BOOLEAN : Observe(valid, continuous)
  BY <1>4, ObserveStep
<1>5. CASE \E i \in 1..5 : Show(i)
  BY <1>5, ShowStep
<1>6. CASE BeginRead
  BY <1>6, BeginReadStep
<1>7. CASE ReadStable
  BY <1>7, ReadStableStep
<1>8. CASE ReadAgain
  BY <1>8, ReadAgainStep
<1>9. CASE \E i \in 1..8 : Load(i)
  BY <1>9, LoadStep
<1>10. CASE UNCHANGED anchorVars
  BY <1>10 DEF AnchorInv, TypeOK, WriterInv, ReaderInv, LoadsInOrder, LoadsCurrent,
               LoadsOfOneWrite, NeverTorn, First, Second, LoadPlan, anchorVars, writerVars,
               readerVars
<1>. QED
  BY <1>1, <1>2, <1>3, <1>4, <1>5, <1>6, <1>7, <1>8, <1>9, <1>10 DEF AnchorNext

(* In program order, the file, the writer and the readers keep their types. *)
THEOREM AnchorTypeCorrect ==
  ASSUME InOrder
  PROVE  AnchorSpec => []TypeOK
<1>1. AnchorInv => TypeOK
  BY DEF AnchorInv
<1>. QED
  BY <1>1, AnchorInitInv, AnchorNextInv, PTL DEF AnchorSpec

(* In program order, ReadImuTimeAnchorState and decode_stable_snapshots never *)
(* return a mix of two writes, the leftovers of a killed driver, or an anchor *)
(* older than a write that was finished before the read began.              *)
THEOREM AnchorNeverTorn ==
  ASSUME InOrder
  PROVE  AnchorSpec => []NeverTorn
<1>1. AnchorInv => NeverTorn
  BY DEF AnchorInv
<1>. QED
  BY <1>1, AnchorInitInv, AnchorNextInv, PTL DEF AnchorSpec

(* In program order, the first write of a restarted driver leaves the file   *)
(* whole, whatever the killed one had left.                                 *)
THEOREM AnchorRestartReadable ==
  ASSUME InOrder
  PROVE  AnchorSpec => []RestartReadable
<1>1. AnchorInv => RestartReadable
  BY DEF AnchorInv, WriterInv, RestartReadable
<1>. QED
  BY <1>1, AnchorInitInv, AnchorNextInv, PTL DEF AnchorSpec
=============================================================================
