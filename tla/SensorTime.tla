----------------------------- MODULE SensorTime ------------------------------
(* The MCU, the time bridge and the GNSS serial driver in host_local mode:   *)
(* the driver stamps records by the bridge's host clock, sends the bridge    *)
(* observations of UTC, and turns the UTC of a position back into LOCAL time *)
(* by the mapping the bridge fits to them.                                   *)
(*                                                                           *)
(* Between them are the serial line of the MCU (events are lost, come twice, *)
(* and a BOOT may be sent again), two topics, and a receiver whose UTC may   *)
(* jump and whose records do not all carry a date. sessions is history: the  *)
(* sessions the bridge has begun; so is where the LOCAL time of a pair comes *)
(* from (from) and the session in which it counts (boot).                    *)
EXTENDS TimeBridge

CONSTANTS
  Day,         \* length of a day of UTC
  UtcStart,    \* UTC when the clocks start
  Associated,  \* replay_has_pps_association: the bridge may use the observations
  Jumps,       \* by how much the receiver's UTC may jump, once
  SeqStart,    \* first event sequence of a boot
  Copies,      \* how often an event of the MCU may reach the bridge
  MaxNow,      \* bound: time ends
  MaxResent,   \* bound: BOOT events sent again
  MaxObserved  \* bound: observations waiting (queue_size 20)

ASSUME SensorAssumption ==
  /\ Day \in Nat \ {0} /\ UtcStart \in Nat \ {0} /\ Jumps \subseteq Nat \ {0}
  /\ Associated \in BOOLEAN /\ Copies \subseteq Nat
  /\ SeqStart \in 0..(SeqRange - 1) /\ {MaxNow, MaxResent, MaxObserved} \subseteq Nat

VARIABLES now, mcu, queue, bridge, mapping_topic, observations, jumped, gnss,
          resent, sessions

mcu_vars == <<now, mcu, resent>>
vars == <<mcu_vars, queue, bridge, mapping_topic, observations, jumped, gnss,
          sessions>>

NoDate == -1

BootEvent(boot, at) ==
  [boot |-> boot, type |-> "BOOT", seq |-> SeqStart, local |-> 1, at |-> at]

\* gnss: the mapping last received, last_local_measurement_ns and the parser's
\* last_date.
Init ==
  /\ now = 1 /\ mcu = [boot |-> 1, seq |-> SeqStart, since |-> 1] /\ resent = 0
  /\ queue = <<BootEvent(1, 1)>> /\ bridge = NewBridge
  /\ mapping_topic = None /\ observations = <<>> /\ jumped = 0
  /\ gnss = [map |-> None, last |-> 0, date |-> NoDate]
  /\ sessions = <<>>

\* feedBytes: the decoder drops a broken frame whole and finds the next one, so
\* an event is queued as often as its frame came through.
Fed(waiting, e, times) == Newest(waiting \o [i \in 1..times |-> e], Capacity)

\* Time passes with an event of the MCU.
McuEvent(type, times) ==
  LET e == [boot |-> mcu.boot, type |-> type, seq |-> (mcu.seq + 1) % SeqRange,
            local |-> now + 2 - mcu.since, at |-> now + 1]
  IN  /\ now < MaxNow
      /\ now' = now + 1 /\ mcu' = [mcu EXCEPT !.seq = e.seq]
      /\ queue' = Fed(queue, e, times)
      /\ UNCHANGED <<resent, bridge, mapping_topic, observations, jumped, gnss, sessions>>

\* The MCU starts over: LOCAL time and the sequence begin again.
McuReboot ==
  /\ now < MaxNow /\ mcu.boot + 1 \in Boots
  /\ now' = now + 1
  /\ mcu' = [boot |-> mcu.boot + 1, seq |-> SeqStart, since |-> now + 1]
  /\ queue' = Push(queue, BootEvent(mcu.boot + 1, now + 1))
  /\ UNCHANGED <<resent, bridge, mapping_topic, observations, jumped, gnss, sessions>>

\* A BOOT of this boot or of an earlier one comes again.
BootAgain(boot) ==
  /\ resent < MaxResent /\ boot <= mcu.boot
  /\ resent' = resent + 1 /\ queue' = Push(queue, BootEvent(boot, now))
  /\ UNCHANGED <<now, mcu, bridge, mapping_topic, observations, jumped, gnss, sessions>>

\* drain takes up to 64 waiting events in one callback, so it may end after any
\* of them, and the serial thread goes on between two.  A session that begins
\* is announced by a mapping that has no version yet.
Drain ==
  /\ queue # <<>> /\ queue' = Tail(queue)
  /\ bridge' = ProcessEvent(bridge, Head(queue))
  /\ IF Announces(bridge, Head(queue))
     THEN /\ sessions' = Append(sessions, bridge'.boot)
          /\ mapping_topic' = MappingOf(bridge')
     ELSE UNCHANGED <<sessions, mapping_topic>>
  /\ UNCHANGED <<mcu_vars, observations, jumped, gnss>>

\* publishStatus: the outage is noticed and the mapping is sent; a status that
\* changes nothing sends a mapping that is known already.
Status ==
  /\ Update(bridge.map, bridge.latest) # bridge.map
  /\ bridge' = [bridge EXCEPT !.map = Update(@, bridge.latest)]
  /\ mapping_topic' = MappingOf(bridge')
  /\ UNCHANGED <<mcu_vars, queue, observations, jumped, gnss, sessions>>

\* utcObservationCallback
Observation ==
  /\ observations # <<>> /\ observations' = Tail(observations)
  /\ LET o == Head(observations)
     IN  IF ~Observed(bridge, o) THEN UNCHANGED <<bridge, mapping_topic>>
         ELSE \E m \in AddPair(bridge.map, UtcPair(o)) :
                /\ bridge' = [bridge EXCEPT !.map = m]
                /\ mapping_topic' = MappingOf(bridge')
  /\ UNCHANGED <<mcu_vars, queue, jumped, gnss, sessions>>

\* _mapping_callback
ReceiveMapping ==
  /\ mapping_topic # None
  /\ gnss' = [gnss EXCEPT !.map = mapping_topic] /\ mapping_topic' = None
  /\ UNCHANGED <<mcu_vars, queue, bridge, observations, jumped, sessions>>

JumpUtc ==
  /\ jumped = 0 /\ jumped' \in Jumps
  /\ UNCHANGED <<mcu_vars, queue, bridge, mapping_topic, observations, gnss, sessions>>

-----------------------------------------------------------------------------
Utc == now + UtcStart + jumped

\* GnssParser: KSXT and ZDA carry the date, GGA the time of day only.
Dated(record) == IF record = "GGA" THEN gnss.date ELSE Utc \div Day
ParsedUtc(record) ==
  IF Dated(record) = NoDate THEN 0 ELSE Dated(record) * Day + (Utc % Day)

\* utc_to_local
Converted(utc) ==
  LET m == gnss.map
      local == utc - m.active
  IN  IF m = None \/ utc = 0 THEN 0
      ELSE IF m.active = None \/ m.state \notin Usable THEN 0
      ELSE IF local > gnss.last THEN local ELSE 0

\* _timestamp_for_frame: the host's time of reception, by the bridge's service.
Stamp == IF HostKnown(bridge) THEN [session |-> bridge.boot, local |-> HostLocal(bridge, now)]
         ELSE [session |-> NoBoot, local |-> 0]

\* The session is the host stamp's. History: whether the LOCAL time is from the
\* host's clock or from the driver's mapping, and in which session it counts.
UtcObserved(from, local, utc) ==
  [session |-> Stamp.session, local |-> local, utc |-> utc, associated |-> Associated,
   from |-> from, boot |-> IF from = "host" THEN Stamp.session ELSE gnss.map.boot]

\* _publish_utc_observation; one that is not valid is sent and ignored.
Sent(from, local, utc) ==
  IF local = 0 \/ utc = 0 THEN observations
  ELSE Append(observations, UtcObserved(from, local, utc))

\* A record without a valid position: only its UTC is of use.
TimeRecord ==
  /\ Len(observations) < MaxObserved
  /\ gnss' = [gnss EXCEPT !.date = Dated("ZDA")]
  /\ observations' = Sent("host", Stamp.local, ParsedUtc("ZDA"))
  /\ UNCHANGED <<mcu_vars, queue, bridge, mapping_topic, jumped, sessions>>

\* _handle_line and _publish_pvt: the position is stamped with the LOCAL time of
\* its UTC, which is valid only after the last one. Its header is the raw
\* frame's, so that time, or 0, is also what its UTC is observed at.
Position(record) ==
  LET utc   == ParsedUtc(record)
      local == Converted(utc)
  IN  /\ Len(observations) < MaxObserved
      /\ gnss' = [gnss EXCEPT !.date = Dated(record),
                              !.last = IF local > 0 THEN local ELSE @]
      /\ observations' = Sent("mapping", local, utc)
      /\ UNCHANGED <<mcu_vars, queue, bridge, mapping_topic, jumped, sessions>>

Next ==
  \/ \E type \in Streams, times \in Copies : McuEvent(type, times)
  \/ McuReboot
  \/ \E boot \in Boots : BootAgain(boot)
  \/ Drain \/ Status \/ Observation \/ ReceiveMapping \/ JumpUtc \/ TimeRecord
  \/ \E record \in {"KSXT", "GGA"} : Position(record)

Spec == Init /\ [][Next]_vars
-----------------------------------------------------------------------------
\* A boot that has ended stays ended, though its BOOT may come again, and what
\* the host's clock stamped is fitted only in its session, though observations
\* of the session before are still on their way.
SessionsApart ==
  /\ \A i, j \in DOMAIN sessions : i # j => sessions[i] # sessions[j]
  /\ \A p \in ToSet(bridge.map.pairs) \cup ToSet(bridge.map.candidate) :
       p.from = "host" => p.boot = bridge.boot

\* In particular no pair counts the LOCAL time of another session. It does not
\* hold: a position may carry such a time under the session of its record.
PairsOfOneSession ==
  \A p \in ToSet(bridge.map.pairs) \cup ToSet(bridge.map.candidate) : p.boot = bridge.boot

\* After a loss the mapping is replaced only by one that continues it: a relock
\* locks on enough pairs over a long enough span, each of them later than those
\* before it by LOCAL time and by UTC and no step of the clock, and its offset
\* is one of theirs, no more than the allowed step from the one before.
RelockContinuous ==
  [][ /\ bridge.map.state \in {"HOLDOVER", "RELOCKING"}
      /\ bridge'.boot = bridge.boot /\ bridge'.map.active # bridge.map.active
      => LET ps == bridge'.map.pairs
         IN  /\ bridge'.map.state = "LOCKED" /\ bridge'.map.active \in Offsets(ps)
             /\ Gap(bridge'.map.active, bridge.map.active) <= MaxRelockStep
             /\ Len(ps) >= RelockCount /\ Last(ps).local - Head(ps).local >= MinSpan
             /\ \A i \in 1..(Len(ps) - 1) : Appendable(SubSeq(ps, 1, i), ps[i + 1]) ]_vars
=============================================================================
