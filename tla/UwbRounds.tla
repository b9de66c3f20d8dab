------------------------------ MODULE UwbRounds ------------------------------
(***************************************************************************)
(* The UWB serial node: the lines of the tag become rounds of ranges.  A   *)
(* debug line opens a round, the next lines_per_round distance lines close *)
(* it; an unfinished round is dropped by the next debug line or by a       *)
(* timeout.  The stamp of a round is that of one of its lines: the host    *)
(* time of the line, mapped either to the IMU clock by the anchor the      *)
(* Livox driver shares, or to LOCAL by the time bridge.                    *)
(*                                                                         *)
(* The node is a function of its state and a line here, one record per     *)
(* node.  A range keeps how long after the line that stamps its round it   *)
(* was read, which no code computes.                                       *)
(***************************************************************************)
EXTENDS Integers, Sequences, FiniteSets

CONSTANTS
  None,
  Anchors,
  Good, Bad,        \* readings inside and outside the range limits; 0 is an empty slot
  LinesPerRound,    \* distance_lines_per_round
  RoundTimeout,     \* round_timeout_s
  RepeatMax,        \* repeat_max_count
  RepeatDuration    \* repeat_max_duration_s

ASSUME RoundsAssumption ==
  /\ LinesPerRound \in Nat \ {0} /\ RoundTimeout \in Nat \ {0}
  /\ {RepeatMax, RepeatDuration} \subseteq Nat
  /\ 0 \notin Good \cup Bad /\ Good \cap Bad = {}

ParserModes == {"distance_round5", "distance"}
TimestampModes == {"livox_imu_anchor", "host_local"}
StampPolicies == {"first_distance_line", "first_nonzero"}

\* The elements of s at the positions in I, in their order.
At(s, I) ==
  [k \in 1..Cardinality(I) |-> s[CHOOSE i \in I : Cardinality({j \in I : j <= i}) = k]]

\* The setup of a node: parser_mode, timestamp_mode, round_timestamp_policy.
Setups == [parser : ParserModes, time : TimestampModes, policy : StampPolicies]

-----------------------------------------------------------------------------
(* The time of a line.                                                     *)

\* LivoxImuTimeMapper and its reader before the first line.
NewMapper == [seen |-> 0, epoch |-> 0, last |-> 0]

\* LivoxImuAnchorReader.read of a good anchor written by epoch: the first read of
\* another epoch fails.
ReadAgain(mapper, epoch) == mapper.seen \in {0, epoch}

\* map_time: the mapped stamps of an epoch increase.
Mapped(mapper, epoch, stamp) ==
  stamp > 0 /\ stamp > (IF mapper.epoch = epoch THEN mapper.last ELSE 0)

\* What the mapped file answers: a good anchor near the host time or far from
\* it, one that is not ready, none that can be read.
Readings == {"fresh", "stale", "not_ready", "missing"}

\* The mapper after a line at host time now, when the IMU clock of the epoch that
\* wrote the anchor is err ahead of the host.
MapperAfter(mapper, imu, now, reading) ==
  IF reading = "missing" THEN mapper
  ELSE IF reading = "not_ready" \/ ~ReadAgain(mapper, imu.epoch)
  THEN [mapper EXCEPT !.seen = imu.epoch]
  ELSE LET last == IF mapper.epoch = imu.epoch THEN mapper.last ELSE 0 IN
       [seen |-> imu.epoch, epoch |-> imu.epoch,
        last |-> IF reading = "fresh" /\ Mapped(mapper, imu.epoch, now + imu.err)
                 THEN now + imu.err ELSE last]

\* _timestamp_for_line: a line that cannot be mapped has stamp 0 and an invalid
\* source; LOCAL time is the host's here.
StampOf(setup, mapper, imu, now, reading) ==
  CASE reading # "fresh" -> 0
    [] setup.time = "host_local" -> now
    [] OTHER -> IF ReadAgain(mapper, imu.epoch) /\ Mapped(mapper, imu.epoch, now + imu.err)
                THEN now + imu.err ELSE 0

-----------------------------------------------------------------------------
(* DistanceRoundAssembler.                                                 *)

NoRound == [waiting |-> FALSE, started |-> 0, lines |-> 0, ranges |-> <<>>, context |-> None]

\* expire.
Expired(round, now) ==
  IF round.waiting /\ now - round.started >= RoundTimeout THEN NoRound ELSE round

\* Mutant: the timestamp context of a dropped round stays selected.
StartRoundKeepsContext(round, now) ==
  [NoRound EXCEPT !.waiting = TRUE, !.started = now, !.context = round.context]

\* _start_round: an unfinished round is dropped.
StartRound(round, now) == [NoRound EXCEPT !.waiting = TRUE, !.started = now]

\* The line that gives the round its stamp.
ContextAfter(setup, round, value, context) ==
  IF setup.policy = "first_distance_line"
  THEN IF round.lines = 0 THEN context ELSE round.context
  ELSE IF value # 0 /\ round.context = None THEN context ELSE round.context

\* process, for a distance line of a round: zero slots count as lines, the
\* second range of an anchor is dropped.
Collected(setup, round, anchor, value, context) ==
  LET seen == {round.ranges[i].anchor : i \in DOMAIN round.ranges} IN
  [round EXCEPT
     !.lines = @ + 1, !.context = ContextAfter(setup, round, value, context),
     !.ranges = IF value = 0 \/ anchor \in seen THEN @
                ELSE Append(@, [anchor |-> anchor, value |-> value, read |-> context.at])]

Complete(round) == round.lines = LinesPerRound

-----------------------------------------------------------------------------
(* RangeFilter and _publish_ranges.                                        *)

\* filter: a repeat of the same range, and a range repeated too long.
Repeats(filter, r) == filter[r.anchor] # None /\ filter[r.anchor].value = r.value
Stuck(filter, r, stamp) ==
  /\ Repeats(filter, r) /\ filter[r.anchor].count + 1 > RepeatMax
  /\ stamp - filter[r.anchor].since >= RepeatDuration

\* The count matters up to RepeatMax.
FilterAfter(filter, ranges, stamp) ==
  [a \in Anchors |->
     IF \E i \in DOMAIN ranges : ranges[i].anchor = a /\ ranges[i].value \in Good
     THEN LET r == ranges[CHOOSE i \in DOMAIN ranges : ranges[i].anchor = a] IN
          IF ~Repeats(filter, r) THEN [value |-> r.value, since |-> stamp, count |-> 1]
          ELSE [filter[a] EXCEPT !.count = IF @ > RepeatMax THEN @ ELSE @ + 1]
     ELSE filter[a]]

Kept(filter, ranges, stamp) ==
  At(ranges, {i \in DOMAIN ranges :
                ranges[i].value \in Bad \/ ~Stuck(filter, ranges[i], stamp)})

\* A round without a mapped stamp is dropped when the IMU anchor stamps.
Unmapped(setup, context) == setup.time = "livox_imu_anchor" /\ context.stamp = 0

\* UwbRangeArray: valid is whether the range is inside the limits, gap how much
\* later than the line that stamps the round it was read.
RangeArray(ranges, context) ==
  [stamp |-> context.stamp,
   ranges |-> [i \in DOMAIN ranges |->
                 [anchor |-> ranges[i].anchor, valid |-> ranges[i].value \in Good,
                  gap |-> ranges[i].read - context.at]]]

\* _publish_ranges: the filter without a stamp uses the host time.
Publish(setup, node, ranges, context, now) ==
  IF Unmapped(setup, context) THEN [node |-> node, out |-> <<>>]
  ELSE LET stamp == IF context.stamp = 0 THEN now ELSE context.stamp
           kept == Kept(node.filter, ranges, stamp) IN
       [node |-> [node EXCEPT !.filter = FilterAfter(@, ranges, stamp)],
        out |-> IF kept = <<>> THEN <<>> ELSE <<RangeArray(kept, context)>>]

-----------------------------------------------------------------------------
(* The node.                                                               *)

NewNode == [round |-> NoRound, filter |-> [a \in Anchors |-> None], mapper |-> NewMapper]

\* _run_serial without input: _expire_protocol_round.
Idle(node, now) == [node EXCEPT !.round = Expired(@, now)]

\* _handle_distance_round5 for a debug line.
DebugLine(setup, node, now) ==
  [node EXCEPT !.round = IF setup.parser = "distance" THEN @
                         ELSE StartRound(Expired(@, now), now)]

\* _handle_distance_round5 for a distance line; outside a round it is out of
\* sync.  With the other parser mode every line is published (UwbParser.parse).
DistanceLine(setup, node, anchor, value, context) ==
  LET round == Expired(node.round, context.at)
      grown == Collected(setup, round, anchor, value, context)
      range == [anchor |-> anchor, value |-> value, read |-> context.at] IN
  IF setup.parser = "distance"
  THEN Publish(setup, node, <<range>>, context, context.at)
  ELSE IF ~round.waiting THEN [node |-> [node EXCEPT !.round = round], out |-> <<>>]
  ELSE IF ~Complete(grown) THEN [node |-> [node EXCEPT !.round = grown], out |-> <<>>]
  ELSE IF grown.ranges = <<>> THEN [node |-> [node EXCEPT !.round = NoRound], out |-> <<>>]
  ELSE Publish(setup, [node EXCEPT !.round = NoRound], grown.ranges, grown.context, context.at)
=============================================================================
