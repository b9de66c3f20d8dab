------------------------------ MODULE UwbManager ------------------------------
(***************************************************************************)
(* UwbManager, the transport of UWB ranges inside FAST-LIVO2: ranges come  *)
(* from the serial node (external_topic), from its own serial port, or     *)
(* from a recorded file, and are handed on to the RTK backend when the     *)
(* front end has an event.  Live ranges wait in a bounded queue that an    *)
(* event empties; recorded ones are matched by the time since the first    *)
(* scan, and sent again when that time goes back.                          *)
(***************************************************************************)
EXTENDS UwbRounds, Functions

CONSTANTS
  Usable,        \* readings that pass correctUwbRange
  Configured,    \* configured anchors; none: every anchor passes
  MaxQueue,      \* max_queue_size
  MaxAge,        \* max_age_s, 0 for none
  Match,         \* replay_match_threshold_s
  StartOffset,   \* replay_start_offset_s
  Window         \* kCrossFormatDuplicateWindowS

ASSUME ManagerAssumption ==
  {MaxQueue, MaxAge, Match, Window} \subseteq Nat /\ MaxQueue > 0 /\ StartOffset \in Int

Sources == {"external_topic", "serial", "file"}

-----------------------------------------------------------------------------
(* Live ranges.                                                            *)

\* measurement_queue_: the oldest are dropped over the capacity.
Queued(queue, ranges) ==
  LET grown == queue \o ranges IN
  SubSeq(grown, (IF Len(grown) > MaxQueue THEN Len(grown) - MaxQueue ELSE 0) + 1, Len(grown))

\* ingestExternalRanges: an array without a stamp is ignored.
Ingested(queue, array) ==
  IF array.stamp = 0 THEN queue
  ELSE Queued(queue, [i \in DOMAIN array.ranges |->
                        [anchor |-> array.ranges[i].anchor, stamp |-> array.stamp,
                         valid |-> array.ranges[i].valid, gap |-> array.ranges[i].gap]])

\* parseLine, and handleLine of the own serial port.
Parsed(anchor, value, stamp) ==
  [anchor |-> anchor, stamp |-> stamp, valid |-> value \in Usable, gap |-> 0]

\* takeRecentMeasurements: everything is taken, what is too old is dropped.
Recent(queue, now) ==
  At(queue, {i \in DOMAIN queue : MaxAge = 0 \/ now - queue[i].stamp <= MaxAge})

-----------------------------------------------------------------------------
(* Recorded ranges.                                                        *)

\* isUwbReplayCrossFormatDuplicate: the debug line of a distance that is there too.
TwinOf(m, d) ==
  /\ m.format = "uwbdbg" /\ d.format = "distance" /\ m.anchor = d.anchor /\ m.value = d.value
  /\ m.stamp - d.stamp \in -Window..Window

\* std::sort by time: the order of equal stamps is open.
SortedForms(s) ==
  {[k \in DOMAIN s |-> s[p[k]]] :
     p \in {q \in [DOMAIN s -> DOMAIN s] :
             IsInjective(q) /\ \A i, j \in DOMAIN s : i < j => s[q[i]].stamp <= s[q[j]].stamp}}

\* loadReplayFile, its last loop: a reading goes if an earlier one of the anchor had
\* its diag number, or one that is kept its time and value, or if it has a twin.
Deduplicated(all) ==
  LET kept[i \in DOMAIN all] ==
        LET m == all[i] IN
        /\ m.diag >= 0 => \A j \in 1..(i - 1) : <<all[j].anchor, all[j].diag>> # <<m.anchor, m.diag>>
        /\ \A j \in DOMAIN all : ~TwinOf(m, all[j])
        /\ \A j \in 1..(i - 1) :
             kept[j] => <<all[j].anchor, all[j].stamp, all[j].value>> # <<m.anchor, m.stamp, m.value>>
  IN  At(all, {i \in DOMAIN all : kept[i]})

\* loadReplayFile: unusable readings and unknown anchors are left out, the rest is
\* sorted by time and freed of repeats.
LoadReplayFile(lines) ==
  {Deduplicated(all) :
     all \in SortedForms(At(lines, {i \in DOMAIN lines :
                               /\ lines[i].value \in Usable
                               /\ Configured = {} \/ lines[i].anchor \in Configured}))}

\* replay_index_, and replay_last_slam_relative_time_ (none before the first event).
NewReplay == [next |-> 1, last |-> -1]

\* A time that goes back by more than the threshold starts the file again.
Rewound(replay, relative) == replay.last >= 0 /\ relative + Match < replay.last

\* takeReplayMeasurements, its loop: from first on, the ranges up to the threshold
\* after relative leave the file; those before it, or before the start, are dropped.
Due(file, first, relative, start) ==
  Cardinality({i \in first..Len(file) : StartOffset + file[i].stamp - start <= relative + Match})

Timely(m, relative, start) ==
  LET at == StartOffset + m.stamp - start IN at >= 0 /\ at >= relative - Match

\* takeReplayMeasurements: what is taken at an event, and the replay after it.
\* Nothing happens once the file is used up, also when the time goes back.
TakeReplay(file, replay, start, relative) ==
  IF replay.next > Len(file) \/ relative < 0 THEN [replay |-> replay, taken |-> <<>>]
  ELSE LET first == IF Rewound(replay, relative) THEN 1 ELSE replay.next
           due == IF StartOffset > 0 /\ relative + Match < StartOffset THEN 0
                  ELSE Due(file, first, relative, start) IN
       [replay |-> [next |-> first + due, last |-> relative],
        taken |-> At(file, {i \in first..(first + due - 1) : Timely(file[i], relative, start)})]

\* publishBackendMeasurements: a recorded stamp is moved to the first scan, the
\* fixed offset is left to the backend.
Rebased(taken, start, lidarStart) ==
  [i \in DOMAIN taken |->
     [anchor |-> taken[i].anchor, stamp |-> lidarStart + taken[i].stamp - start,
      valid |-> TRUE, gap |-> 0]]
=============================================================================
