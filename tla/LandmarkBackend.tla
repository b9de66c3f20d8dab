--------------------------- MODULE LandmarkBackend ---------------------------
(* landmark_persistent_backend.cpp and landmark_shadow_graph.cpp: landmark  *)
(* observations are queued by the image thread and turned by a worker into  *)
(* landmarks, sparse keyposes and a graph that only grows.  Time is counted *)
(* in images; poses by how far they are from the last keypose.              *)
EXTENDS Integers, Sequences, FiniteSets

CONSTANTS
  QueueCapacity,  \* queue_capacity
  EpisodeGap,     \* episode_gap_s
  CoalesceTime,   \* coalesce_time_s
  MaxInterval     \* maximum_interval_s

ASSUME LandmarkPolicyAssumption ==
  /\ {QueueCapacity, EpisodeGap, MaxInterval} \subseteq Nat \ {0}
  /\ CoalesceTime \in Nat

VARIABLES
  inbox,   \* queue, ids accepted in order, last time, counters, worker, shutdown
  chart,   \* landmarks_, keyposes_, number of episodes
  graph    \* SparseLandmarkShadowGraph

landmarkVars == <<inbox, chart, graph>>

Counters == {"submitted", "processed", "duplicate", "overflow", "late", "invalid"}

NoInbox == [queue |-> <<>>, hand |-> <<>>, accepted |-> <<>>, last |-> 0,
            count |-> [c \in Counters |-> 0], stopping |-> FALSE,
            worker |-> "waiting", joined |-> FALSE]
NoChart == [marks |-> <<>>, poses |-> <<>>, episodes |-> 0]
NoGraph == [failed |-> FALSE, degraded |-> FALSE, keys |-> {}, edges |-> {},
            marks |-> {}, visual |-> {}, at |-> <<>>, again |-> {}]

LandmarkInit == inbox = NoInbox /\ chart = NoChart /\ graph = NoGraph

-----------------------------------------------------------------------------
(* submit: the image thread, under the lock *)

InSeq(x, s) == \E i \in DOMAIN s : s[i] = x

\* why an input is refused, tested in this order
Refusal(in) ==
  IF inbox.stopping THEN "shutdown"
  ELSE IF in.id = 0 \/ ~in.finite THEN "invalid"
  ELSE IF InSeq(in.id, inbox.accepted) THEN "duplicate"
  ELSE IF in.t < inbox.last THEN "late"
  ELSE IF Len(inbox.queue) >= QueueCapacity THEN "overflow"
  ELSE "none"

Submit(in) ==
  LET counted(b, c) == IF c \in Counters THEN [b EXCEPT !.count[c] = @ + 1] ELSE b
      box == counted(counted(inbox, "submitted"), Refusal(in))
  IN  inbox' = IF Refusal(in) # "none" THEN box
               ELSE [box EXCEPT !.queue = Append(@, in), !.last = in.t,
                                !.accepted = Append(@, in.id)]

-----------------------------------------------------------------------------
(* The graph: SparseLandmarkShadowGraph::update for keypose k, which the    *)
(* motion from the keypose before it reaches when it was just created.      *)

Visual(k, in, e) == <<k, in.board, e>>

\* Mutant: a keypose goes in whether or not the one before it did.
UnanchoredLoose(k, moved) ==
  k \notin graph.keys /\ graph.keys # {} /\ ~moved

\* a keypose that no motion ties to the graph is not inserted
Unanchored(k, moved) ==
  /\ k \notin graph.keys /\ graph.keys # {}
  /\ ~(moved /\ k - 1 \in graph.keys /\ <<k - 1, k>> \notin graph.edges)

\* later sightings of the same episode move its time, not its factor
Noted(g, in, e) ==
  IF in.board \in DOMAIN g.at /\ g.at[in.board].episode = e
  THEN [g EXCEPT !.at[in.board].t = in.t] ELSE g

Placed(at, l, r) == [x \in DOMAIN at \cup {l} |-> IF x = l THEN r ELSE at[x]]

\* reobservation_diagnostics_: a factor for a landmark of an earlier episode
Reobserved(in, e) ==
  IF in.board \in DOMAIN graph.at /\ graph.at[in.board].episode # e
  THEN {[board |-> in.board, id |-> in.id, before |-> graph.at[in.board].episode,
         episode |-> e, gap |-> in.t - graph.at[in.board].t]}
  ELSE {}

\* The first keypose carries the gauge prior.  If it is not the first of all,
\* its motion is written down although no factor stands for it.
Grown(k, moved, in, e, add) ==
  LET g == [graph EXCEPT
              !.keys = @ \cup {k},
              !.edges = @ \cup (IF k \notin graph.keys /\ moved THEN {<<k - 1, k>>} ELSE {})]
  IN  IF add
      THEN [g EXCEPT !.marks = @ \cup {in.board}, !.visual = @ \cup {Visual(k, in, e)},
                     !.again = @ \cup Reobserved(in, e),
                     !.at = Placed(@, in.board, [episode |-> e, t |-> in.t])]
      ELSE Noted(g, in, e)

\* the graph afterwards, and whether the update took place; definite: the
\* visual covariance is positive; throws: the solver gives up, for good
Updated(k, moved, in, e, eligible, definite, throws) ==
  LET add    == eligible /\ Visual(k, in, e) \notin graph.visual
      Not(g) == [graph |-> g, ok |-> FALSE]
      Bad    == [graph EXCEPT !.degraded = TRUE]
  IN  IF graph.failed THEN Not(graph)
      ELSE IF Unanchored(k, moved) \/ (add /\ ~definite) THEN Not(Bad)
      ELSE IF k \in graph.keys /\ ~add THEN [graph |-> Noted(graph, in, e), ok |-> TRUE]
      ELSE IF throws THEN Not([Bad EXCEPT !.failed = TRUE])
      ELSE [graph |-> Grown(k, moved, in, e, add), ok |-> TRUE]

-----------------------------------------------------------------------------
(* workerLoop, processOne, processAccepted *)

Pop ==
  /\ inbox.worker = "waiting" /\ inbox.queue # <<>>
  /\ inbox' = [inbox EXCEPT !.hand = <<Head(inbox.queue)>>, !.queue = Tail(@), !.worker = "busy"]
  /\ UNCHANGED <<chart, graph>>

Keys == Len(chart.poses)
LastPose == chart.poses[Keys]

\* a landmark not seen for longer than the gap begins another episode
NewEpisode(in) ==
  in.board \notin DOMAIN chart.marks \/ in.t - chart.marks[in.board].last > EpisodeGap

Landmark(in) ==
  IF in.board \in DOMAIN chart.marks THEN chart.marks[in.board]
  ELSE [episode |-> 0, last |-> 0, seen |-> <<>>, keyed |-> FALSE]

Sighted(in) ==
  [Landmark(in) EXCEPT
     !.episode = IF NewEpisode(in) THEN chart.episodes + 1 ELSE @,
     !.last = in.t, !.seen = Append(@, in.id)]

Coalesces(in, far) ==
  Keys > 0 /\ ~NewEpisode(in) /\ in.t - LastPose.t <= CoalesceTime /\ far = "near"

\* shouldCreateSparseKeyPose: a new episode asks for a keypose even at the
\* time of the last one
Creates(in, far) ==
  \/ Keys = 0 \/ NewEpisode(in)
  \/ in.t > LastPose.t /\ (far = "far" \/ in.t - LastPose.t >= MaxInterval)

JoinedBy(pose, in) ==
  [pose EXCEPT !.obs = Append(@, in.id), !.marks = @ \cup {in.board}]

\* an input joins the last keypose or founds the next one
PosesWith(in, created) ==
  IF created
  THEN Append(chart.poses, [t |-> in.t, obs |-> <<in.id>>, marks |-> {in.board}, keyed |-> FALSE])
  ELSE [chart.poses EXCEPT ![Keys] = JoinedBy(@, in)]

\* Two inputs of one image have the same pose.
Distances(in) ==
  IF Keys > 0 /\ LastPose.t = in.t THEN {"near"} ELSE {"near", "between", "far"}

Process ==
  /\ inbox.worker = "busy"
  /\ LET in == inbox.hand[1]
     IN  \E far \in Distances(in), definite, throws \in BOOLEAN :
         LET created == ~Coalesces(in, far) /\ Creates(in, far)
             poses   == PosesWith(in, created)
             mark    == Sighted(in)
             k       == Len(poses)
             up      == Updated(k, created /\ k > 1, in, mark.episode,
                                created \/ Coalesces(in, far), definite, throws)
         IN  /\ graph' = up.graph
             /\ chart' = [marks |-> Placed(chart.marks, in.board,
                                      [mark EXCEPT !.keyed =
                                         @ \/ (up.ok /\ in.board \in up.graph.marks)]),
                          poses |-> [poses EXCEPT ![k].keyed =
                                       @ \/ (up.ok /\ k \in up.graph.keys)],
                          episodes |-> chart.episodes + (IF NewEpisode(in) THEN 1 ELSE 0)]
  /\ inbox' = [inbox EXCEPT !.hand = <<>>, !.worker = "waiting", !.count["processed"] = @ + 1]

\* Mutant: the worker leaves as soon as it is asked to.
LeaveAtOnce ==
  /\ inbox.stopping /\ inbox.worker = "waiting"
  /\ inbox' = [inbox EXCEPT !.worker = "stopped"]
  /\ UNCHANGED <<chart, graph>>

\* the worker drains the queue before it leaves
Leave ==
  /\ inbox.stopping /\ inbox.worker = "waiting" /\ inbox.queue = <<>>
  /\ inbox' = [inbox EXCEPT !.worker = "stopped"]
  /\ UNCHANGED <<chart, graph>>

-----------------------------------------------------------------------------
(* shutdown: asks, then joins, then reports *)

AskToStop ==
  /\ ~inbox.stopping
  /\ inbox' = [inbox EXCEPT !.stopping = TRUE]
  /\ UNCHANGED <<chart, graph>>

Join ==
  /\ inbox.stopping /\ inbox.worker = "stopped" /\ ~inbox.joined
  /\ inbox' = [inbox EXCEPT !.joined = TRUE]
  /\ UNCHANGED <<chart, graph>>

Work == Pop \/ Process \/ Leave \/ Join

-----------------------------------------------------------------------------
\* The graph only grows along the trajectory: its keyposes follow one another
\* without a gap, each tied to the one before it; every landmark in it hangs on
\* one of these keyposes, and an episode belongs to one landmark.  A keypose or
\* landmark that carries a graph key is in the graph.  What is reported as a
\* reobservation lies more than the episode gap after the landmark's last factor.
GraphAnchored ==
  /\ graph.keys \subseteq 1..Keys
  /\ \A k, j \in graph.keys : j < k => {<<i - 1, i>> : i \in (j + 1)..k} \subseteq graph.edges
  /\ \A k, j \in graph.keys : j..k \subseteq graph.keys
  /\ \A v \in graph.visual : v[1] \in graph.keys /\ v[2] \in chart.poses[v[1]].marks
  /\ graph.marks = {v[2] : v \in graph.visual}
  /\ \A v, w \in graph.visual : v[3] = w[3] => v[2] = w[2]
  /\ \A r \in graph.again : r.gap > EpisodeGap /\ r.before < r.episode
  /\ \A k \in 1..Keys : chart.poses[k].keyed => k \in graph.keys
  /\ \A l \in DOMAIN chart.marks : chart.marks[l].keyed => l \in graph.marks

\* Every input is counted once, and what was accepted is waiting, in the hands
\* of the worker or recorded by exactly one keypose, in the order accepted;
\* a backend that was joined has nothing left.
LandmarkLedger ==
  LET count == inbox.count
      done  == {inbox.accepted[i] : i \in 1..count["processed"]}
  IN  /\ count["submitted"] = Len(inbox.accepted) + count["duplicate"] + count["overflow"]
                              + count["late"] + count["invalid"]
      /\ Len(inbox.accepted) = count["processed"] + Len(inbox.hand) + Len(inbox.queue)
      /\ \A i \in 1..(Len(inbox.accepted) - 1) : inbox.accepted[i] < inbox.accepted[i + 1]
      /\ done = UNION {{chart.poses[k].obs[i] : i \in DOMAIN chart.poses[k].obs} : k \in 1..Keys}
      /\ \A k, j \in 1..Keys : \A i \in DOMAIN chart.poses[k].obs, l \in DOMAIN chart.poses[j].obs :
           (k < j \/ (k = j /\ i < l)) => chart.poses[k].obs[i] < chart.poses[j].obs[l]
      /\ inbox.joined => count["processed"] = Len(inbox.accepted)
=============================================================================
