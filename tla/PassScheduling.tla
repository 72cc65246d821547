--------------------------- MODULE PassScheduling ---------------------------
(***************************************************************************)
(* The first half of the frame graph's compiler: what a frame declares     *)
(* (src/rendering/frame_graph/frame_graph.cxx), which of its passes are    *)
(* live and on which queue they go (cull() and resolve_queues() of         *)
(* src/rendering/frame_graph/compiler.cxx), and in which order they run    *)
(* (src/rendering/frame_graph/scheduler.cxx).                              *)
(*                                                                         *)
(* A graph is a sequence of passes.  A pass is a record: its affinity, is  *)
(* it a root on its own account (side_effect() or an access of the         *)
(* swapchain), is it a fence (pinned() or legacy()), and its accesses, a   *)
(* function from the resources it uses; of an access, this module only     *)
(* asks whether it writes and whether it discards what was there.  The     *)
(* graph is chosen at first, and nothing here changes it: the compiler is  *)
(* a pure function, and a behaviour is one call of it.                     *)
(***************************************************************************)
EXTENDS Integers, FiniteSets, Sequences

CONSTANTS
  Resources,     \* the slots of GraphDesc::resources
  Imported,      \* those that are imported; the others are transients
  Graphs,        \* what a frame may declare
  OverlapWindow  \* overlap_window

Affinities == {"graphics", "compute_preferred", "compute_required"}
Queues == {"graphics", "compute"}
OtherQueue(q) == IF q = "graphics" THEN "compute" ELSE "graphics"

Passes(g) == DOMAIN g
Uses(g, p) == DOMAIN g[p].accesses
Writes(g, p, r) == r \in Uses(g, p) /\ g[p].accesses[r].writes

\* PassBuilder::access(): a transient is written before it is read, and its
\* first write has no earlier contents to keep.
WrittenBefore(g, p, r) == r \in Imported \/ \E q \in 1 .. p - 1 : Writes(g, q, r)

Declared(g) ==
  \A p \in Passes(g) : \A r \in Uses(g, p) :
    ~ WrittenBefore(g, p, r) => g[p].accesses[r].writes /\ g[p].accesses[r].discard

IsGraph(g) ==
  /\ Len(g) \in Nat /\ DOMAIN g = 1 .. Len(g)
  /\ \A p \in Passes(g) :
       /\ g[p].affinity \in Affinities /\ g[p].root \in BOOLEAN /\ g[p].fence \in BOOLEAN
       /\ Uses(g, p) \subseteq Resources
       /\ \A r \in Uses(g, p) : /\ g[p].accesses[r].writes \in BOOLEAN
                                /\ g[p].accesses[r].discard \in BOOLEAN

ASSUME GraphsAssumption ==
  /\ Imported \subseteq Resources
  /\ OverlapWindow \in Nat
  /\ \A g \in Graphs : IsGraph(g) /\ Declared(g)

VARIABLES
  graph,    \* GraphDesc::passes
  async,    \* more than one queue, and async_compute is on
  overlap,  \* is the mode SchedulerMode::overlap?
  step,     \* how far the call of compile() has come
  live,     \* the passes cull() keeps
  queue,    \* the queue of every pass
  successors,  \* of every live pass, those that depend on it
  order     \* the schedule: the live passes, as far as it has come

scheduleVars == << graph, async, overlap, step, live, queue, successors, order >>

Scheduled == { order[i] : i \in DOMAIN order }

----------------------------------------------------------------------------
\* cull() and resolve_queues().

\* The pass that wrote what p finds in r, if one did: GraphDesc::producers.
Produces(g, q, p, r) ==
  /\ q < p /\ Writes(g, q, r)
  /\ \A x \in q + 1 .. p - 1 : ~ Writes(g, x, r)

\* Mutant: only a pass that reads needs what was there, not one that writes
\* over a part of it.
ReadersNeed(g, p) == { q \in Passes(g) : \E r \in Uses(g, p) :
                         ~ g[p].accesses[r].writes /\ Produces(g, q, p, r) }

\* Whose results p needs.
Needs(g, p) == { q \in Passes(g) : \E r \in Uses(g, p) :
                   ~ g[p].accesses[r].discard /\ Produces(g, q, p, r) }

\* Somebody outside the graph sees what these do.
Roots(g) == { p \in Passes(g) :
                g[p].root \/ g[p].fence \/ \E r \in Imported : Writes(g, p, r) }

\* One round of marking: the roots, and what is needed by those kept so far.
Marked == live \cup Roots(graph) \cup UNION { Needs(graph, p) : p \in live }

Cull ==
  /\ step = "declared" /\ Marked # live
  /\ live' = Marked
  /\ UNCHANGED << graph, async, overlap, step, queue, successors, order >>

\* dependency_successors(): b waits for the last pass that wrote r before it,
\* and, if it writes r, for those that read r since.
DependsOn(g, alive, a, b) ==
  \E r \in Uses(g, a) \cap Uses(g, b) :
    /\ a < b /\ (Writes(g, a, r) \/ Writes(g, b, r))
    /\ \A x \in a + 1 .. b - 1 : x \in alive => ~ Writes(g, x, r)

Successors(g, alive) == [a \in alive |-> { b \in alive : DependsOn(g, alive, a, b) }]

\* reachability(): the descendants of a.  Successors have higher indices.
Descendants(following, a) ==
  LET upTo[i \in Passes(graph) \cup {0}] ==
        IF i <= a THEN {}
        ELSE LET S == upTo[i - 1]
             IN  IF \E x \in S \cup {a} : x \in live /\ i \in following[x] THEN S \cup {i} ELSE S
  IN  upTo[Len(graph)]

\* There is a graphics pass that may run beside p.
Overlappable(following, p) ==
  LET after == Descendants(following, p)
  IN  \E x \in live \ {p} : /\ graph[x].affinity = "graphics" /\ x \notin after
                            /\ p \notin Descendants(following, x)

QueueOf(following, p) ==
  IF async /\ p \in live
       /\ \/ graph[p].affinity = "compute_required"
          \/ graph[p].affinity = "compute_preferred" /\ Overlappable(following, p)
  THEN "compute" ELSE "graphics"

Resolve ==
  /\ step = "declared" /\ Marked = live
  /\ step' = "resolved"
  /\ successors' = Successors(graph, live)
  /\ queue' = [p \in Passes(graph) |-> QueueOf(successors', p)]
  /\ UNCHANGED << graph, async, overlap, live, order >>

----------------------------------------------------------------------------
\* schedule().

\* Mutant: a fence only holds back those that come after it.
FencedBehind(a, b) == a < b /\ graph[a].fence

\* A fence keeps its place relative to every other live pass.
FencedFrom(a, b) == a < b /\ (graph[a].fence \/ graph[b].fence)

\* Mutant: the readers since the last write are forgotten.
WaitsForWriters(p) ==
  { a \in live : \/ p \in successors[a] /\ \E r \in Uses(graph, p) : Writes(graph, a, r)
                 \/ FencedFrom(a, p) }

\* The passes that indegree counts for p.
WaitsFor(p) == { a \in live : p \in successors[a] \/ FencedFrom(a, p) }

\* Those whose predecessors are all scheduled.
Candidates == { p \in live \ Scheduled : WaitsFor(p) \subseteq Scheduled }

\* A producer on the other queue was scheduled only just now.
Delayed(p) ==
  \E i \in DOMAIN order : /\ p \in successors[order[i]]
                          /\ queue[order[i]] # queue[p]
                          /\ Len(order) - (i - 1) < OverlapWindow

Earliest(S) == { p \in S : \A x \in S : p <= x }

\* The earliest candidate that is not delayed, or else the earliest.
Best ==
  IF ~ overlap THEN Earliest(live \ Scheduled)
  ELSE LET prompt == { p \in Candidates : ~ Delayed(p) }
       IN  Earliest(IF prompt # {} THEN prompt ELSE Candidates)

Pick ==
  /\ step = "resolved"
  /\ \E p \in Best : order' = Append(order, p)
  /\ UNCHANGED << graph, async, overlap, step, live, queue, successors >>

ScheduleInit ==
  /\ graph \in Graphs
  /\ async \in BOOLEAN /\ overlap \in BOOLEAN
  /\ step = "declared"
  /\ live = {} /\ queue = << >> /\ successors = << >> /\ order = << >>

ScheduleNext == Cull \/ Resolve \/ Pick

ScheduleSpec == ScheduleInit /\ [][ScheduleNext]_scheduleVars

----------------------------------------------------------------------------

ScheduleTypeOK ==
  /\ graph \in Graphs
  /\ async \in BOOLEAN /\ overlap \in BOOLEAN
  /\ step \in {"declared", "resolved"}
  /\ live \subseteq Passes(graph)
  /\ step = "resolved" => /\ queue \in [Passes(graph) -> Queues]
                          /\ successors \in [live -> SUBSET live]
  /\ order \in Seq(live)
  /\ \A i, j \in DOMAIN order : order[i] = order[j] => i = j

\* Two passes of which one writes what the other uses run in the order they
\* were declared in.  The scheduler follows edges from the last write and from
\* the reads since only: everything else must follow from those.
ConflictsKept ==
  \A j \in DOMAIN order : \A p \in live :
    (/\ p < order[j]
     /\ \E r \in Uses(graph, p) \cap Uses(graph, order[j]) :
          Writes(graph, p, r) \/ Writes(graph, order[j], r))
    => \E i \in 1 .. j - 1 : order[i] = p

\* pinned() and legacy() passes never move and are never crossed: what is
\* scheduled before one was declared before it, and all of that is.
FencesKeepTheirPlace ==
  \A i \in DOMAIN order :
    graph[order[i]].fence =>
      { order[x] : x \in 1 .. i - 1 } = { p \in live : p < order[i] }

\* A live pass finds what it was declared to find: unless it discards the
\* contents, the pass that left them is not culled.
ContentsAreLive ==
  step = "resolved" =>
    \A p \in live, r \in Resources, q \in Passes(graph) :
      (r \in Uses(graph, p) /\ Produces(graph, q, p, r) /\ q \notin live)
      => graph[p].accesses[r].discard

\* The frame's passes are kept and ordered so that each finds what it was
\* declared after.
ScheduleSound == ConflictsKept /\ FencesKeepTheirPlace /\ ContentsAreLive

\* schedule() never looks for a candidate where there is none.
NeverStuck == (step = "resolved" /\ Scheduled # live) => Best # {}

=============================================================================
