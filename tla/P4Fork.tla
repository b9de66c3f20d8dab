-------------------------------- MODULE P4Fork --------------------------------
(* The diagnostic fork of p4_fork_harness.cpp and p4_fork_snapshot.cpp beside *)
(* the LiDAR path it copies (handleLIO, run): at one scan the estimator is    *)
(* captured and copied into three branches, through memory and through a      *)
(* file; from then on the branches get every scan before the estimator does,  *)
(* on maps of their own and one shared plane id counter.  While the node      *)
(* captures or runs the branches, a script stops the input on its request.    *)
EXTENDS P4Snapshot, CapturePause

CONSTANTS
  Scans,        \* [move, points]: what the IMU predicts and what is measured
  PausedScans,  \* the scans of the runs that pause the input
  LivoScans,    \* the scans of the runs with images
  ImageVoxels,  \* the voxels the visual map may hold after an image
  Exclude,      \* accepted frames the third branch leaves out
  CaptureAt,    \* snapshot_relative_time_s, in events
  EndAt,        \* end_relative_time_s
  MaxEvents     \* bound on the events of the node

ASSUME ForkAssumption ==
  /\ {CaptureAt, EndAt, MaxEvents, Exclude} \subseteq Nat
  /\ PausedScans \cup LivoScans \subseteq Scans /\ CaptureAt < EndAt
  /\ Scans \subseteq [move : Int, points : Seq([dv : Int, cell : Cells, surf : Surfaces])]
  /\ ImageVoxels \subseteq Int /\ IsFiniteSet(ImageVoxels)

VARIABLES
  config,    \* LIVO or LiDAR only, all branches, pauses, map update stride
  node,      \* pc of run(), whether it is returning, the time in events
  event,     \* the LidarMeasureGroup in hand
  main,      \* the estimator: state, end of IMU propagation, map, scan count
  counter,   \* voxel_plane_id
  branches,  \* the forks
  harness,   \* captured_, finished_, first_packet_, pending_b0_
  verdicts   \* what the validations and the parity test said

forkVars == <<config, node, event, main, counter, branches, harness, pause, verdicts>>
nodeVars == <<config, event, main, counter, branches, harness, verdicts>>

NoEvent == [kind |-> "none"]
Start == [state |-> [place |-> 0, ticks |-> 0, lio |-> 0, vio |-> 0],
          upto |-> 0, map |-> NoMap, built |-> FALSE, due |-> 0]
NoResult == [valid |-> FALSE]

-----------------------------------------------------------------------------
(* What is captured of the estimator. *)

Snapshot(est, next) ==
  [t |-> node.time, state |-> est.state, upto |-> CaptureImu(est), map |-> CaptureMap(est.map, next),
   life |-> [built |-> est.built, due |-> est.due]]

-----------------------------------------------------------------------------
(* Branch and runBranch *)

Branch(mode, s) ==
  [mode |-> mode, state |-> s.state, upto |-> s.upto,
   map |-> RestoreMap(s.map), next |-> s.map.next, life |-> s.life]

\* processImu of a branch or of the estimator, as far as a scan needs it
Predicted(state, meas) == [state EXCEPT !.place = @ + meas.move, !.ticks = @ + meas.ticks]

\* A committed scan is inserted with ids of the branch's own counter.  The
\* branch was never told of a scan's begin, the time origin of the points where
\* there are images.
Grows(b, into) == [b EXCEPT !.map = Slide(into.map), !.next = into.next]
Inserted(b, world, est) ==
  IF est.commit /\ b.mode # "frozen" THEN Grows(b, Insert(est.map, world, b.next))
  ELSE [b EXCEPT !.map = est.map]
Updated(b, meas, world, est) ==
  [branch |-> [Inserted(b, world, est) EXCEPT !.state = est.state],
   result |-> [valid |-> TRUE, t |-> meas.t, state |-> est.state,
               matches |-> est.matches, origin |-> "propagation"]]
Measured(b, meas, world) ==
  Updated(b, meas, world,
          Estimate(b.map, b.state, world, IF b.mode = "recent" THEN Exclude ELSE 0))

Propagated(b, meas) == [b EXCEPT !.upto = meas.t, !.state = Predicted(@, meas)]
RunBranch(b, meas) ==
  IF meas.points = <<>> THEN [branch |-> Propagated(b, meas), result |-> NoResult]
  ELSE Measured(Propagated(b, meas), meas,
                World(meas.points, Predicted(b.state, meas).place))

\* writeValidation
Agree(a, b) ==
  /\ a.valid = b.valid
  /\ a.valid => a.state = b.state /\ a.matches = b.matches /\ a.origin = b.origin
Verdict(kind, a, b) == {[kind |-> kind, pass |-> Agree(a, b)]}

-----------------------------------------------------------------------------
(* run: an event, the branches on it, the estimator on it *)

ForkInit ==
  /\ config \in [livo : BOOLEAN, all : BOOLEAN, pauses : BOOLEAN, stride : {1, 2}]
  /\ config.pauses \/ config.livo => config.all /\ config.stride = 1
  /\ node = [pc |-> "spin", returning |-> FALSE, time |-> 0]
  /\ event = NoEvent /\ main = Start /\ counter = 0
  /\ branches = <<>> /\ verdicts = {} /\ pause = NoPause
  /\ harness = [captured |-> FALSE, finished |-> FALSE, first |-> TRUE, pending |-> NoResult]

Goto(pc) == node' = [node EXCEPT !.pc = pc]
Return == node' = [node EXCEPT !.pc = "release", !.returning = TRUE]

Forking == harness.captured /\ ~harness.finished

ScansNow == IF config.pauses THEN PausedScans ELSE IF config.livo THEN LivoScans ELSE Scans

Sync ==
  /\ node.pc = "spin" /\ node.time < MaxEvents
  /\ LET t     == node.time + 1
         ticks == t - main.upto
     IN  \/ \E s \in ScansNow :
              /\ event' = [kind |-> "scan", move |-> s.move, points |-> s.points,
                           t |-> t, ticks |-> ticks]
              /\ node' = [node EXCEPT !.time = t, !.pc = IF Forking THEN "fork" ELSE "produce"]
         \/ /\ config.livo
            /\ \E accepted \in BOOLEAN, seen \in SUBSET ImageVoxels :
                 event' = [kind |-> "image", accepted |-> accepted, seen |-> seen,
                           t |-> t, ticks |-> ticks]
            /\ node' = [node EXCEPT !.time = t, !.pc = "produce"]
  /\ UNCHANGED <<config, main, counter, branches, harness, pause, verdicts>>

\* beginForkFrame and beginCapture; a scan that cannot be paused for its
\* branches ends run, one that cannot be paused for the capture is let go
Pausing ==
  /\ node.pc \in {"fork", "capture"}
  /\ Construct(config.pauses) \/ Ask \/ Acknowledged \/ GiveUp
  /\ UNCHANGED <<nodeVars, node>>

PauseRefused ==
  /\ node.pc \in {"fork", "capture"} /\ pause.guard = "late"
  /\ IF node.pc = "fork" THEN Return ELSE Goto("release")
  /\ UNCHANGED <<nodeVars, pause>>

\* processImmutableLioPacket: each branch on a copy of the scan, with its own
\* id counter in the place of the estimator's
RunBranches ==
  LET ran == [b \in DOMAIN branches |-> RunBranch(branches[b], event)]
  IN  /\ branches' = [b \in DOMAIN branches |-> ran[b].branch]
      /\ verdicts' = verdicts \cup
           IF config.all /\ harness.first THEN Verdict("disk", ran.b0.result, ran.b1.result)
           ELSE {}
      /\ harness' = [harness EXCEPT !.pending = ran.b0.result, !.first = FALSE,
                                    !.finished = event.t >= EndAt]

Fork ==
  /\ node.pc = "fork" /\ Held
  /\ RunBranches
  /\ Goto("produce")
  /\ UNCHANGED <<config, event, main, counter, pause>>

\* A branch never saw the images: if one was accepted, the samples up to it
\* are missing, and the coverage test of the propagation may throw; nobody
\* puts the estimator's id counter back then.
ForkThrows ==
  /\ node.pc = "fork" /\ Held /\ branches.b0.upto < main.upto
  /\ Return
  /\ counter' = branches.b0.next
  /\ UNCHANGED <<config, event, main, branches, harness, pause, verdicts>>

\* a rejected image is rolled back, an accepted one is a commit
ProduceImage ==
  /\ node.pc = "produce" /\ event.kind = "image"
  /\ LET seen == [main EXCEPT !.map = Observe(@, event.seen)]
     IN  main' = IF event.accepted
                 THEN [seen EXCEPT !.upto = event.t, !.state.ticks = @ + event.ticks,
                                   !.state.vio = @ + 1]
                 ELSE seen
  /\ Goto("release")
  /\ UNCHANGED <<config, event, counter, branches, harness, pause, verdicts>>

\* processImu and the map part of handleLIO
Mapped(world, est, next, due) ==
  IF est.commit /\ due THEN Insert(est.map, world, next)
  ELSE [map |-> est.map, next |-> next]
Settled(est, due, into) ==
  [est |-> [state |-> est.state, upto |-> event.t, built |-> TRUE, due |-> main.due + 1,
            map |-> IF due THEN Slide(into.map) ELSE into.map],
   next |-> into.next, matches |-> est.matches]
Updating(world, est, next, due) == Settled(est, due, Mapped(world, est, next, due))
OnMap(state, world, base) ==
  Updating(world, Estimate(base.map, state, world, 0), base.next,
           (main.due + 1) % config.stride = 0)
Produced(state, world) ==
  OnMap(state, world, IF main.built THEN [map |-> main.map, next |-> counter]
                      ELSE Build(main.map, world, counter))

ProduceScan ==
  /\ node.pc = "produce" /\ event.kind = "scan" /\ event.points # <<>>
  /\ LET at     == Predicted(main.state, event)
         now    == Produced(at, World(event.points, at.place))
         result == [valid |-> TRUE, t |-> event.t, state |-> now.est.state,
                    matches |-> now.matches,
                    origin |-> IF config.livo THEN "scan" ELSE "propagation"]
         judged == harness.pending.valid /\ harness.pending.t = event.t
     IN  /\ main' = now.est /\ counter' = now.next
         /\ verdicts' = verdicts \cup
              IF judged THEN Verdict("memory", result, harness.pending) ELSE {}
         /\ harness' = IF judged THEN [harness EXCEPT !.pending = NoResult] ELSE harness
  /\ Goto(IF ~harness.captured /\ event.t >= CaptureAt THEN "capture" ELSE "release")
  /\ UNCHANGED <<config, event, branches, pause>>

\* nothing is left of the scan: the prediction stays, the map is not reached
ProduceNothing ==
  /\ node.pc = "produce" /\ event.kind = "scan" /\ event.points = <<>>
  /\ main' = [main EXCEPT !.upto = event.t, !.state = Predicted(@, event)]
  /\ Goto("release")
  /\ UNCHANGED <<config, event, counter, branches, harness, pause, verdicts>>

-----------------------------------------------------------------------------
(* capture *)

\* Mutant: the map update stride is not asked for.
CapturableAny == TRUE

\* a branch inserts every scan it commits, so the estimator must as well
Capturable == config.stride = 1

Forked(s, disk) ==
  IF config.all
  THEN [b0 |-> Branch("evolving", s), b1 |-> Branch("frozen", disk), b2 |-> Branch("recent", s)]
  ELSE [b0 |-> Branch("evolving", s)]

Reread(b) == [t |-> node.time, state |-> b.state, upto |-> CaptureImu(b),
              map |-> CaptureMap(b.map, b.next), life |-> b.life]

CaptureFrom(bytes) ==
  LET s      == Snapshot(main, counter)
      forks  == Forked(s, Decoded(bytes))
      parity == \A b \in DOMAIN forks : Hashes(Reread(forks[b])) = Hashes(s)
  IN  /\ verdicts' = verdicts \cup {[kind |-> "capture", pass |-> parity]}
      /\ counter' = s.map.next
      /\ IF parity THEN branches' = forks /\ harness' = [harness EXCEPT !.captured = TRUE]
                   ELSE UNCHANGED <<branches, harness>>

\* a capture refused, not saved or not loaded is tried again at the next scan
Capture ==
  /\ node.pc = "capture" /\ Held
  /\ \E bytes \in Saved(Snapshot(main, counter)) :
       IF Capturable /\ Decodes(bytes) THEN CaptureFrom(bytes)
       ELSE UNCHANGED <<verdicts, counter, branches, harness>>
  /\ Goto("release")
  /\ UNCHANGED <<config, event, main, pause>>

-----------------------------------------------------------------------------
(* The pause ends with the capture or the event. *)

Releasing ==
  /\ node.pc = "release"
  /\ ReportDone(config.pauses) \/ Withdraw \/ Leave
  /\ UNCHANGED <<nodeVars, node>>

Released ==
  /\ node.pc = "release" /\ pause.guard = "none"
  /\ Goto(IF node.returning THEN "ended" ELSE "spin")
  /\ UNCHANGED <<nodeVars, pause>>

NodeStep ==
  \/ Pausing \/ PauseRefused \/ Fork \/ ForkThrows
  \/ ProduceImage \/ ProduceScan \/ ProduceNothing
  \/ Capture \/ Releasing \/ Released

ScriptSeesRequest == SeeRequest /\ UNCHANGED <<nodeVars, node>>

ScriptGoesOn ==
  /\ ScriptStep \/ (node.pc = "ended" /\ CleanUp)
  /\ UNCHANGED <<nodeVars, node>>

ForkNext == Sync \/ NodeStep \/ ScriptSeesRequest \/ ScriptGoesOn

\* what a step of the node is to the handshake, whatever it does to the maps
NodeGoesOn ==
  \/ /\ node.pc \in {"fork", "capture"} /\ UNCHANGED node
     /\ Construct(config.pauses) \/ Ask \/ Acknowledged \/ GiveUp
  \/ /\ node.pc = "release" /\ UNCHANGED node
     /\ ReportDone(config.pauses) \/ Withdraw \/ Leave
  \/ /\ \/ node.pc \in {"fork", "capture"} /\ pause.guard \in {"ready", "late"}
        \/ node.pc = "produce"
        \/ node.pc = "release" /\ pause.guard = "none"
     /\ node' \in {[node EXCEPT !.pc = pc, !.returning = r] :
                     pc \in {"spin", "produce", "capture", "release", "ended"}, r \in BOOLEAN}
     /\ UNCHANGED pause

\* The node goes on with the event it has, the script with what it has begun
\* and with an input it has stopped; that it finds the input is not assumed.
ForkFairness ==
  /\ WF_<<node, pause>>(NodeGoesOn)
  /\ WF_forkVars(ScriptGoesOn)

ForkSpec == ForkInit /\ [][ForkNext]_forkVars /\ ForkFairness

-----------------------------------------------------------------------------
(* Properties *)

\* What is restored from memory and from the file is what was captured, the
\* two copies agree on the first scan, and without images the copy goes on
\* exactly as the estimator does, with the same matches and plane ids.
BranchesExact ==
  \A v \in verdicts : v.pass \/ (v.kind = "memory" /\ config.livo)

\* As long as run goes on, every map stays coherent while up to four of them
\* draw their plane ids from one counter.
MapsCoherent ==
  /\ node.returning \/ MapCoherent(main.map, counter)
  /\ \A b \in DOMAIN branches : MapCoherent(branches[b].map, branches[b].next)

\* Branches run and captures are taken on a stopped input only, and a stopped
\* input is let go again, even if the node gives up or ends in between.
PauseHandshake ==
  /\ [](Held /\ config.pauses => pause.stopped)
  /\ pause.stopped ~> ~pause.stopped
=============================================================================
