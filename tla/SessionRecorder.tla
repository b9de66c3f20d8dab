-------------------------- MODULE SessionRecorder ---------------------------
(***************************************************************************)
(* session_recorder.py with recorder_gate.py: the node of the recording    *)
(* launch that runs one rosbag process per session of the time bridge.  It *)
(* starts when LOCAL time is ready, the session is known and every         *)
(* required topic was seen, closes the bag when the session changes, and   *)
(* fails for good when a bag ends by itself or would overwrite another.    *)
(* Callbacks and the process timer hold one lock, so each is one step.     *)
(***************************************************************************)
EXTENDS Integers, FiniteSets

CONSTANTS
  RequiredTopics,   \* effective_required_topics
  LastSession,      \* bound: the session of the last MCU boot
  LastSecond        \* bound: seconds of the host clock

ASSUME RecorderAssumption ==
  /\ IsFiniteSet(RequiredTopics)
  /\ LastSession \in Nat \ {0} /\ LastSecond \in Nat

VARIABLES
  setup,            \* dry_run, and whether bag_name is given
  gate,             \* RecorderGate: session_id, local_ready, seen_topics
  process,          \* rosbag: "none", "running", "ending" (signalled), "exited"
  current_session,  \* the session the bag was started for
  failed,
  shutting_down,
  output_dir,       \* the bags in the output directory
  second,           \* the host clock's second, from which a bag has its name
  time_status       \* the bridge: its session, and whether LOCAL is ready

bagVars == <<process, current_session, failed, output_dir>>
recorderVars == <<setup, gate, bagVars, shutting_down, second, time_status>>
-----------------------------------------------------------------------------
(* RecorderGate                                                            *)

NewGate == [session_id |-> 0, local_ready |-> FALSE, seen_topics |-> {}]

UpdateTime(g, s) == [g EXCEPT !.session_id = s.session_id, !.local_ready = s.local_ready]

\* Mutant: compares with the session already stored.
ChangedAfterStore(g, s) == UpdateTime(g, s).session_id \notin {0, s.session_id}

\* update_time's answer: another session than the known one.
Changed(g, s) == g.session_id \notin {0, s.session_id} /\ s.session_id # 0

GateReady(g) ==
  g.local_ready /\ g.session_id # 0 /\ RequiredTopics \subseteq g.seen_topics
-----------------------------------------------------------------------------
(* Starting and stopping a bag                                             *)

\* bag_filename: the given name, or the second at which it starts.
BagName == IF setup.named THEN "bag" ELSE second

StartBag(g) ==
  /\ process' = "running" /\ current_session' = g.session_id
  /\ output_dir' = IF setup.dry THEN output_dir ELSE output_dir \union {BagName}
  /\ UNCHANGED failed

\* The bag exists already, or rosbag does not start.
RefuseBag ==
  /\ process' = "none" /\ failed' = TRUE
  /\ UNCHANGED output_dir

\* _maybe_start with the gate g, when the process is in state p
MaybeStart(g, p) ==
  IF shutting_down \/ failed \/ p # "none" \/ ~GateReady(g)
  THEN process' = p /\ UNCHANGED <<current_session, failed, output_dir>>
  ELSE \/ /\ setup.dry \/ BagName \notin output_dir
          /\ StartBag(g)
       \/ /\ ~setup.dry  \* Popen can fail as well
          /\ RefuseBag /\ current_session' = g.session_id

\* _stop_bag: a bag that does not end within both timeouts raises out of the
\* callback, and its process stays.
SlowToEnd == process \in {"running", "ending"} /\ ~setup.dry
LeaveEnding ==
  /\ SlowToEnd /\ process' = "ending"
  /\ UNCHANGED <<current_session, failed, output_dir>>
-----------------------------------------------------------------------------
RecorderInit ==
  /\ setup \in [dry : BOOLEAN, named : BOOLEAN]
  /\ gate = NewGate /\ process = "none" /\ current_session = 0
  /\ failed = FALSE /\ shutting_down = FALSE /\ output_dir = {} /\ second = 0
  /\ time_status = [session_id |-> 0, local_ready |-> FALSE]

\* topic_callback
TopicCallback(topic) ==
  /\ gate' = [gate EXCEPT !.seen_topics = @ \union {topic}]
  /\ MaybeStart(gate', process)
  /\ UNCHANGED <<setup, shutting_down, second, time_status>>

\* time_callback: the status the bridge publishes now; any status may be lost.
TimeCallback ==
  /\ gate' = UpdateTime(gate, time_status)
  /\ IF Changed(gate, time_status) /\ process # "none"
     THEN MaybeStart(gate', "none") \/ LeaveEnding
     ELSE MaybeStart(gate', process)
  /\ UNCHANGED <<setup, shutting_down, second, time_status>>

\* _check_process: a bag that ended by itself.
CheckProcess ==
  /\ ~shutting_down /\ process = "exited"
  /\ process' = "none" /\ failed' = TRUE
  /\ UNCHANGED <<setup, gate, current_session, shutting_down, output_dir, second, time_status>>

\* shutdown
StopRecorder ==
  /\ ~shutting_down /\ shutting_down' = TRUE
  /\ \/ process' = "none" /\ UNCHANGED <<current_session, failed, output_dir>>
     \/ LeaveEnding
  /\ UNCHANGED <<setup, gate, second, time_status>>

\* rosbag ends: it was told to, or its disk is full.
BagExits ==
  /\ process \in {"running", "ending"} /\ ~setup.dry
  /\ process' = "exited"
  /\ UNCHANGED <<setup, gate, current_session, failed, shutting_down, output_dir,
                 second, time_status>>

\* The bridge: a boot of the MCU, or LOCAL time after three events in a row.
BridgeMoves ==
  /\ \/ /\ time_status.session_id < LastSession
        /\ time_status' = [session_id |-> time_status.session_id + 1, local_ready |-> FALSE]
     \/ /\ time_status.session_id # 0
        /\ time_status' = [time_status EXCEPT !.local_ready = TRUE]
  /\ UNCHANGED <<setup, gate, bagVars, shutting_down, second>>

SecondPasses ==
  /\ second < LastSecond /\ second' = second + 1
  /\ UNCHANGED <<setup, gate, bagVars, shutting_down, time_status>>

RecorderNext ==
  \/ \E topic \in RequiredTopics : TopicCallback(topic)
  \/ TimeCallback
  \/ CheckProcess
  \/ StopRecorder
  \/ BagExits
  \/ BridgeMoves
  \/ SecondPasses

RecorderSpec == RecorderInit /\ [][RecorderNext]_recorderVars
-----------------------------------------------------------------------------
\* "Readiness depends on LOCAL/session and enabled topics": whatever sessions
\* change, bags end or fail to close, a bag that is being written is of the
\* session the recorder knows, and a recorder that is ready and has not failed
\* is never without a bag.
RecordsItsSession ==
  /\ process = "running" => current_session = gate.session_id /\ gate.session_id # 0
  /\ GateReady(gate) /\ ~failed /\ ~shutting_down => process # "none"
=============================================================================
