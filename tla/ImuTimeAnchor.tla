---------------------------- MODULE ImuTimeAnchor ----------------------------
(***************************************************************************)
(* The time anchor the Livox driver shares with other processes in a       *)
(* mapped file, guarded by a sequence lock: the stamp of the last IMU      *)
(* sample, and whether the clock behind it has been steady long enough to  *)
(* be trusted.  The C++ side reads it with ReadImuTimeAnchorState, the     *)
(* time mapper of the GNSS and UWB drivers in Python, by copying the file  *)
(* twice.  The driver may be killed at any point and be started again.     *)
(*                                                                         *)
(* A process executes one load or store at a time.  With InOrder they      *)
(* become visible in program order, as on x86-64; without, in any order    *)
(* that the memory orders requested from the compiler leave open, as on    *)
(* ARM.  A reader changes nothing another process sees, so one is enough.  *)
(* The fields are reduced to one in front of the sequence and two behind   *)
(* it; a file of zeros stands for one without the magic number.            *)
(***************************************************************************)
EXTENDS Integers, Sequences

CONSTANTS
  Kinds,        \* readers: "cpp" is ReadImuTimeAnchorState, "mapper" the Python one
  MaxWrites,    \* bound: how often the driver writes the anchor
  MaxAttempts,  \* attempts of one read
  MinReady,     \* min_ready_samples
  InOrder       \* loads and stores become visible in program order

ASSUME KindsAssumption == Kinds \subseteq {"cpp", "mapper"}
ASSUME NumbersAssumption ==
  MaxWrites \in Nat /\ MaxAttempts \in Nat \ {0} /\ MinReady \in Nat \ {0, 1}
ASSUME OrderAssumption ==
  InOrder \in BOOLEAN /\ (InOrder \/ "mapper" \notin Kinds)

Cells == {"epoch", "seq", "stamp", "ready"}
Memory == [Cells -> Nat]

VARIABLES
  mem,        \* the mapped file, ImuTimeAnchorState
  target,     \* what the running or last write writes
  left,       \* its stores that are not visible yet, by place in StorePlan
  up,         \* the driver has the file open
  epoch,      \* writer_epoch of the running or last driver process
  run,        \* consecutive_samples_
  writes,     \* writes so far
  reader,     \* the kind of the reader
  reading,    \* is a read in progress
  attempt,    \* its attempt
  got,        \* the values the attempt has loaded, by place in LoadPlan
  known,      \* _last_epoch of the mapper, 0 for None
  outcome,    \* how the last read ended, and what it returned
  written,    \* history: what each finished write has left in the file
  since       \* history: how many there were when the read began

writerVars == <<mem, target, left, up, epoch, run, writes, written>>
readerVars == <<reader, reading, attempt, got, known, outcome, since>>
anchorVars == <<writerVars, readerVars>>

Odd(n) == n % 2 = 1
Anchor(e, seq, stamp, ready) ==
  [c \in Cells |-> CASE c = "epoch" -> e [] c = "seq" -> seq
                     [] c = "stamp" -> stamp [] c = "ready" -> ready]
Empty == Anchor(0, 0, 0, 0)      \* the new file

-----------------------------------------------------------------------------
(* The writer.                                                             *)

\* Mutant: a write left unfinished is not taken into account.
NextByOne(n) == n + 1

\* The odd sequence of the next write, also after a write left unfinished.
NextOdd(n) == IF Odd(n) THEN n + 2 ELSE n + 1

\* The stores of a write in program order: the odd sequence, the fields, the even
\* sequence.
StorePlan == <<"seq", "epoch", "stamp", "ready", "seq">>

\* Commit and WriteImuTimeAnchorState.
Write(e, stamp, ready) ==
  /\ left = {} /\ writes < MaxWrites
  /\ writes' = writes + 1
  /\ target' = Anchor(e, NextOdd(mem["seq"]) + 1, stamp, ready)
  /\ left' = DOMAIN StorePlan
  /\ UNCHANGED <<mem, written>>

\* A driver process starts: Open resets the continuity and writes no anchor.
Open ==
  /\ ~up /\ up' = TRUE
  /\ epoch' = epoch + 1 /\ run' = 0
  /\ Write(epoch', 0, 0)
  /\ UNCHANGED readerVars

\* Observe.  A sample is invalid when its stamp, host time or clock source says
\* nothing; it is not continuous when one of them does not follow the last one.
Observe(valid, continuous) ==
  /\ up
  /\ run' = IF ~valid THEN 0 ELSE IF run # 0 /\ continuous THEN run + 1 ELSE 1
  /\ IF valid THEN Write(epoch, writes', IF run' >= MinReady THEN 1 ELSE 0)
     ELSE Write(epoch, 0, 0)
  /\ UNCHANGED <<up, epoch, readerVars>>

\* Close invalidates the anchor.
Close ==
  /\ up /\ up' = FALSE /\ run' = 0
  /\ Write(epoch, 0, 0)
  /\ UNCHANGED <<epoch, readerVars>>

\* The process is killed: the stores it has not executed are lost.
Kill ==
  /\ InOrder /\ (up \/ left # {})
  /\ up' = FALSE /\ left' = {}
  /\ UNCHANGED <<mem, target, epoch, run, writes, written, readerVars>>

\* A store to a field is relaxed and may become visible before those in front of
\* it; the last store releases: it comes after all of them.
MayShow(i) ==
  \/ \A j \in left : i <= j
  \/ ~InOrder /\ StorePlan[i] # "seq"

Show(i) ==
  /\ i \in left /\ MayShow(i)
  /\ left' = left \ {i}
  /\ mem' = [mem EXCEPT ![StorePlan[i]] = IF i = 1 THEN target["seq"] - 1
                                          ELSE target[StorePlan[i]]]
  /\ written' = IF left' = {} THEN Append(written, mem') ELSE written
  /\ UNCHANGED <<target, up, epoch, run, writes, readerVars>>

-----------------------------------------------------------------------------
(* The reader.                                                             *)

\* The cells an attempt loads, in program order.
LoadPlan ==
  IF reader = "cpp" THEN <<"seq", "epoch", "stamp", "ready", "seq">>
  ELSE <<"epoch", "seq", "stamp", "ready", "epoch", "seq", "stamp", "ready">>

NoOutcome == [result |-> "none", snapshot |-> Empty]

BeginRead ==
  /\ ~reading /\ reading' = TRUE
  /\ since' = Len(written)
  /\ outcome' = NoOutcome
  /\ UNCHANGED <<writerVars, reader, attempt, got, known>>

\* The first load of the C++ reader acquires and decides whether there are more;
\* the others may pass each other, and the last one.
Load(i) ==
  /\ reading /\ i \in DOMAIN LoadPlan \ DOMAIN got
  /\ InOrder => 1..(i - 1) \subseteq DOMAIN got
  /\ i # 1 => 1 \in DOMAIN got /\ (reader = "cpp" => ~Odd(got[1]))
  /\ got' = [j \in DOMAIN got \cup {i} |-> IF j = i THEN mem[LoadPlan[i]] ELSE got[j]]
  /\ UNCHANGED <<writerVars, reader, reading, attempt, known, outcome, since>>

AllLoaded == DOMAIN got = DOMAIN LoadPlan

\* Mutant: two copies of an anchor that is being written are taken as well.
OddStable ==
  /\ AllLoaded
  /\ IF reader = "cpp" THEN got[5] = got[1] ELSE \A i \in 1..4 : got[i] = got[i + 4]

\* The sequence is even and has not moved; in Python the two copies are equal.
Stable ==
  /\ AllLoaded
  /\ IF reader = "cpp" THEN ~Odd(got[1]) /\ got[5] = got[1]
     ELSE ~Odd(got[2]) /\ \A i \in 1..4 : got[i] = got[i + 4]

\* candidate, snapshot: the fields as they were loaded last.
Snapshot ==
  IF reader = "cpp" THEN Anchor(got[2], got[5], got[3], got[4])
  ELSE Anchor(got[5], got[6], got[7], got[8])

Results == {"none", "inconsistent", "bad protocol", "not ready", "empty",
            "epoch changed", "ok"}

\* What the fields say; the mapper refuses the first anchor of a new process.
Verdict(s) ==
  IF s["epoch"] = 0 THEN "bad protocol"
  ELSE IF reader = "mapper" /\ known \notin {0, s["epoch"]} THEN "epoch changed"
  ELSE IF s["ready"] = 0 THEN "not ready"
  ELSE IF s["stamp"] = 0 THEN "empty"
  ELSE "ok"

Return(result, s) ==
  /\ reading' = FALSE
  /\ outcome' = [result |-> result, snapshot |-> s]
  /\ attempt' = 1 /\ got' = <<>>

ReadStable ==
  /\ reading /\ Stable
  /\ Return(Verdict(Snapshot), Snapshot)
  /\ known' = IF reader = "mapper" /\ Snapshot["epoch"] # 0 THEN Snapshot["epoch"]
              ELSE known
  /\ UNCHANGED <<writerVars, reader, since>>

\* An attempt fails at the first load of an odd sequence (C++), or at the end.
Failed ==
  \/ reader = "cpp" /\ DOMAIN got = {1} /\ Odd(got[1])
  \/ AllLoaded /\ ~Stable

\* Mutant: one attempt too many.
OneMoreAttempt == attempt <= MaxAttempts

AttemptsLeft == attempt < MaxAttempts

ReadAgain ==
  /\ reading /\ Failed
  /\ IF AttemptsLeft
     THEN attempt' = attempt + 1 /\ got' = <<>> /\ UNCHANGED <<reading, outcome>>
     ELSE Return("inconsistent", Empty)
  /\ UNCHANGED <<writerVars, reader, known, since>>

-----------------------------------------------------------------------------
AnchorInit ==
  /\ mem = Empty /\ target = Empty /\ left = {} /\ up = FALSE /\ epoch = 0 /\ run = 0 /\ writes = 0
  /\ reader \in Kinds /\ reading = FALSE /\ attempt = 1 /\ got = <<>> /\ known = 0
  /\ outcome = NoOutcome
  /\ written = <<Empty>> /\ since = 1

AnchorNext ==
  \/ Open \/ Close \/ Kill
  \/ \E valid, continuous \in BOOLEAN : Observe(valid, continuous)
  \/ \E i \in 1..5 : Show(i)
  \/ BeginRead \/ ReadStable \/ ReadAgain
  \/ \E i \in 1..8 : Load(i)

AnchorSpec == AnchorInit /\ [][AnchorNext]_anchorVars

-----------------------------------------------------------------------------
(* Properties.                                                             *)

\* The type invariant: the states ImuTimeAnchorState, the writer and the readers
\* of imu_time_anchor.cpp and imu_anchor.py can be in.
TypeOK ==
  /\ mem \in Memory /\ target \in Memory /\ left \subseteq DOMAIN StorePlan
  /\ up \in BOOLEAN /\ epoch \in Nat /\ run \in Nat /\ writes \in 0..MaxWrites
  /\ reader \in Kinds /\ reading \in BOOLEAN /\ attempt \in 1..MaxAttempts
  /\ DOMAIN got \subseteq DOMAIN LoadPlan /\ \A i \in DOMAIN got : got[i] \in Nat
  /\ known \in Nat
  /\ outcome \in [result : Results, snapshot : Memory]
  /\ written \in Seq(Memory) /\ since \in 1..Len(written)

\* The sequence lock of ReadImuTimeAnchorState and decode_stable_snapshots: a
\* read never returns a mix of two writes, nor the leftovers of a killed driver,
\* nor an anchor older than a write that was finished before the read began.
NeverTorn ==
  outcome.result \notin {"none", "inconsistent"} =>
    \E n \in since..Len(written) : outcome.snapshot = written[n]

\* What the tests say of an accepted anchor: its fields belong together.
AcceptedNotTorn ==
  outcome.result = "ok" => \E n \in DOMAIN written : outcome.snapshot = written[n]

\* WriteImuTimeAnchorState starts from any sequence: whatever a killed driver has
\* left, the file is whole again once the next process has written it, and its
\* sequence is one that readers accept.
RestartReadable ==
  up /\ left = {} => mem = written[Len(written)] /\ ~Odd(mem["seq"])
=============================================================================
