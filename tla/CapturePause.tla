----------------------------- MODULE CapturePause -----------------------------
(* The handshake of CapturePauseGuard with run_p4b_with_paused_capture.sh by *)
(* four marker files: the guard asks, the script stops the rosbag processes  *)
(* and acknowledges; the guard reports done, the script continues them and   *)
(* says so.  Neither waits for the other for more than ten seconds.          *)

VARIABLE pause  \* files, guard, script, whether the input is stopped

NoPause == [files |-> {}, guard |-> "none", script |-> "look", stopped |-> FALSE]

Held == pause.guard = "ready"

-----------------------------------------------------------------------------
(* The guard: constructor *)

\* Mutant: an acknowledgement of the last request is left where it is.
ConstructKeeping(enabled) ==
  /\ pause.guard = "none"
  /\ pause' = IF ~enabled THEN [pause EXCEPT !.guard = "ready"]
              ELSE [pause EXCEPT !.guard = "cleared", !.files = @ \ {"done", "resumed"}]

Construct(enabled) ==
  /\ pause.guard = "none"
  /\ pause' = IF ~enabled THEN [pause EXCEPT !.guard = "ready"]
              ELSE [pause EXCEPT !.guard = "cleared",
                                 !.files = @ \ {"ack", "done", "resumed"}]

Ask ==
  /\ pause.guard = "cleared"
  /\ pause' = [pause EXCEPT !.guard = "asked", !.files = @ \cup {"request"}]

Acknowledged ==
  /\ pause.guard = "asked" /\ "ack" \in pause.files
  /\ pause' = [pause EXCEPT !.guard = "ready"]

\* the last look and the end of the wait are not one step
GiveUp ==
  /\ pause.guard = "asked"
  /\ pause' = [pause EXCEPT !.guard = "late"]

-----------------------------------------------------------------------------
(* The guard: destructor *)

ReportDone(enabled) ==
  /\ pause.guard \in {"ready", "late"}
  /\ pause' = IF ~enabled THEN [pause EXCEPT !.guard = "none"]
              ELSE [pause EXCEPT !.guard = IF Held THEN "reported" ELSE "dropped",
                                 !.files = @ \cup {"done"}]

Withdraw ==
  /\ pause.guard \in {"reported", "dropped"}
  /\ pause' = [pause EXCEPT !.guard = IF @ = "reported" THEN "leaving" ELSE "none",
                            !.files = @ \ {"request"}]

\* resumed was seen, or the wait for it has ended
Leave ==
  /\ pause.guard = "leaving"
  /\ pause' = [pause EXCEPT !.guard = "none"]

-----------------------------------------------------------------------------
(* The script *)

\* it may be long in finding the rosbag processes, or find none
SeeRequest ==
  /\ pause.script = "look" /\ "request" \in pause.files /\ ~pause.stopped
  /\ pause' = [pause EXCEPT !.script = "stop"]

SeeDone ==
  /\ pause.script = "look" /\ "done" \in pause.files /\ pause.stopped
  /\ pause' = [pause EXCEPT !.script = "resume"]

StopInput ==
  /\ pause.script = "stop"
  /\ pause' = [pause EXCEPT !.script = "tell", !.stopped = TRUE]

Acknowledge ==
  /\ pause.script = "tell" /\ pause.stopped
  /\ pause' = [pause EXCEPT !.script = "look", !.files = @ \cup {"ack"}]

ResumeInput ==
  /\ pause.script = "resume"
  /\ pause' = [pause EXCEPT !.script = "tell", !.stopped = FALSE]

TellResumed ==
  /\ pause.script = "tell" /\ ~pause.stopped
  /\ pause' = [pause EXCEPT !.script = "look", !.files = @ \cup {"resumed"}]

\* the cleanup when the node has ended
CleanUp ==
  /\ pause.script = "look"
  /\ pause' = [pause EXCEPT !.script = "gone", !.stopped = FALSE]

ScriptStep == SeeDone \/ StopInput \/ Acknowledge \/ ResumeInput \/ TellResumed
=============================================================================
