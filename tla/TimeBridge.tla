----------------------------- MODULE TimeBridge ------------------------------
(* The state of the sensor_time_bridge node and what its callbacks do to it: *)
(* events of the MCU become a session of LOCAL time, pairs of LOCAL and UTC  *)
(* time become its mapping, and requests for the LOCAL time of a host time   *)
(* are answered.                                                             *)
(*                                                                           *)
(* A session is named by the boot it belongs to, of which session_id_ is a   *)
(* hash. Ticks are times already (tickToLocalNs), and the frequency is right.*)
EXTENDS TimeMapping, FiniteSets

CONSTANTS
  Boots,       \* boots of the MCU, as numbers from 1 on
  Streams,     \* message types of the MCU other than BOOT
  SeqRange,    \* size of the event sequence (2^32 in the code)
  Capacity     \* queue_capacity

ASSUME BridgeAssumption ==
  /\ Boots \subseteq Nat \ {0}
  /\ SeqRange \in Nat \ {0, 1} /\ Capacity \in Nat \ {0}

NoBoot  == 0
NoEvent == -1

\* The members of BridgeNode that decide something: seq is the sequence
\* tracker, gate the last time of each stream, host the window of
\* HostMonotonicMapper (its size up to 3, its last pair and the session's
\* difference of the two clocks), ready continuous_events_. published are the
\* mappings and events it sent in this callback.
NewBridge == [boot |-> NoBoot, retired |-> {}, seq |-> NoEvent,
              gate |-> [s \in Streams \cup {"BOOT"} |-> 0], latest |-> 0,
              ready |-> 0, host |-> [n |-> 0, at |-> 0, local |-> 0, diff |-> 0],
              map |-> NoMapping]

\* What publishMapping sends: the driver reads all but the session.
MappingOf(b) == [state |-> b.map.state, active |-> b.map.active, boot |-> b.boot]

\* BoundedWireEventQueue::push: a full queue drops its oldest event.
Push(queue, e) == Newest(Append(queue, e), Capacity)

BeginSession(b, boot) ==
  [NewBridge EXCEPT !.boot = boot, !.retired = b.retired]

\* SequenceTracker::observe: ahead of the last event by less than half the range.
Fresh(b, seq) ==
  b.seq = NoEvent \/ LET d == (seq - b.seq) % SeqRange IN d # 0 /\ d < SeqRange \div 2

\* HostMonotonicMapper::add
HostAdd(h, at, local) ==
  IF h.n > 0 /\ (at <= h.at \/ local <= h.local) THEN h
  ELSE [n |-> IF h.n < 3 THEN h.n + 1 ELSE 3, at |-> at, local |-> local, diff |-> at - local]

\* The session of an event: the current one, or a new one that a BOOT of a
\* boot not yet retired begins.
\* Mutant: the boot of the session that ends is not remembered.
ForgetsRetired(b, boot) == BeginSession(b, boot)
NewSession(b, boot) ==
  BeginSession([b EXCEPT !.retired = IF b.boot = NoBoot THEN @ ELSE @ \cup {b.boot}], boot)

Announces(b, e) ==
  /\ e.boot # b.boot
  /\ e.type = "BOOT" /\ (b.boot # NoBoot => e.boot \notin b.retired)

\* The rest of processEvent, in the event's session.
Timed(b, e) ==
  IF ~Fresh(b, e.seq) THEN b
  ELSE LET s == [b EXCEPT !.seq = e.seq]
       IN  IF e.local <= s.gate[e.type] THEN s
           ELSE [s EXCEPT !.gate[e.type] = e.local, !.latest = e.local,
                          !.host = HostAdd(@, e.at, e.local),
                          !.ready = IF @ < 3 THEN @ + 1 ELSE 3]

ProcessEvent(b, e) ==
  IF e.boot = b.boot THEN Timed(b, e)
  ELSE IF Announces(b, e) THEN Timed(NewSession(b, e.boot), e)
  ELSE b

\* hostTimeService: LOCAL time of a host time, once three events were seen
\* and three pairs were fitted.
HostKnown(b) == b.ready = 3 /\ b.host.n = 3
HostLocal(b, host) == host - b.host.diff

\* utcObservationCallback: the state machines that may follow.
\* Mutant: the session of the observation is not compared.
ObservedAnySession(b, o) == o.associated
Observed(b, o) == o.session = b.boot /\ o.associated
UtcPair(o) == [local |-> o.local, utc |-> o.utc, from |-> o.from, boot |-> o.boot]
=============================================================================
