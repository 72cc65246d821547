------------------------- MODULE FrameGraphCompiler -------------------------
(***************************************************************************)
(* The second half of the frame graph's compiler: build_plan() and its     *)
(* Tracker (src/rendering/frame_graph/compiler.cxx), which walk the        *)
(* schedule and derive the barriers, the ownership transfers and the       *)
(* batches that the queues get.                                            *)
(*                                                                         *)
(* A node is a position in the schedule; the prologue, which records what  *)
(* comes before the graph, is node 0, and the epilogue, which leaves every *)
(* import in its exit state, comes after the last pass.  (In the code they *)
(* are -1 to n.)  A batch is known by its first node.  To what             *)
(* PassScheduling knows of an access are added the stages it runs in, the  *)
(* layout it wants an image in, and, in a set of at most one, the state a  *)
(* pass that manages the image itself leaves it in.  Access masks are      *)
(* reduced to whether they write: in one layout, the stages fix the rest   *)
(* (use_info()).  The barriers of legacy() passes and the serialize option *)
(* are left out.                                                           *)
(***************************************************************************)
EXTENDS PassScheduling, SequencesExt

CONSTANTS
  Images,       \* the resources that are images; the others are buffers
  Concurrent,   \* those with Sharing::concurrent
  Tokens,       \* those that only stand for an order
  Entry, Exit   \* the state an import arrives in and has to be left in

\* Of every pass, once use_info() is asked.  Only write() and write_discard()
\* discard or leave an exit state, and they are called with uses that write.
IsSpec(spec) ==
  /\ spec.writes \in BOOLEAN /\ spec.discard \in BOOLEAN
  /\ spec.discard \/ spec.exit # {} => spec.writes
  /\ IsFiniteSet(spec.stages) /\ IsFiniteSet(spec.exit) /\ Cardinality(spec.exit) <= 1
  /\ \A e \in spec.exit : e.writes \in BOOLEAN

ASSUME CompilerAssumption ==
  /\ Images \cup Concurrent \subseteq Resources
  /\ Tokens \subseteq Imported \ Images
  /\ DOMAIN Entry = Imported /\ DOMAIN Exit = Imported
  /\ \A r \in Imported : Entry[r].writes \in BOOLEAN
  /\ \A g \in Graphs : \A p \in Passes(g) : \A r \in Uses(g, p) : IsSpec(g[p].accesses[r])

VARIABLES
  dedicated,  \* the compute queue has a family of its own
  at,         \* the node to be tracked next
  tracked,    \* Tracker::tracked_
  edges,      \* Tracker::edges_: << node, node >>
  barriers,   \* every CompiledPass::before, and the epilogue's
  transfers,  \* Tracker::transfers_
  batchOf,    \* node_batch: the batch of every node
  waits       \* for every batch, the batch it waits for, in a set of at most one

trackVars == << dedicated, at, tracked, edges, barriers, transfers, batchOf, waits >>
compilerVars == << scheduleVars, trackVars >>

Prologue == 0
Epilogue == Len(order) + 1
Nodes == Prologue .. Epilogue
Nowhere == -1
Nothing == [q \in Queues |-> {}]

QueueAt(n) == IF n \in DOMAIN order THEN queue[order[n]] ELSE "graphics"

\* An UNDEFINED exit layout means "leave it as it is".
ExitSpec(r) ==
  [writes |-> FALSE, discard |-> FALSE, stages |-> Exit[r].stages, exit |-> {},
   layout |-> IF Exit[r].layout = "undefined" THEN tracked[r].layout ELSE Exit[r].layout]

\* A frame declares what its passes use.
Slots(g) == UNION { Uses(g, p) : p \in Passes(g) }
Imports == Slots(graph) \cap Imported

UsedAt(n) == IF n \in DOMAIN order THEN Uses(graph, order[n]) ELSE Imports \ Tokens
SpecAt(n, r) == IF n \in DOMAIN order THEN graph[order[n]].accesses[r] ELSE ExitSpec(r)

----------------------------------------------------------------------------
\* Tracker.

\* A transient that no pass has used, and an import as the prologue leaves it.
\* A read-only state was made visible by the barrier that led to it.
Untouched ==
  [layout |-> "undefined", owner |-> "none", writer |-> "none", stages |-> {}, real |-> FALSE,
   read |-> Nothing, visible |-> Nothing, last |-> [q \in Queues |-> Nowhere],
   lastWrite |-> Nowhere, chainFrom |-> Nothing, chained |-> Nothing, entryHasWork |-> FALSE]

Arrived(r) ==
  [Untouched EXCEPT
     !.layout = Entry[r].layout, !.owner = "graphics", !.writer = "graphics",
     !.stages = Entry[r].stages, !.real = Entry[r].writes, !.lastWrite = Prologue,
     !.last["graphics"] = Prologue, !.entryHasWork = Entry[r].stages # {},
     !.visible["graphics"] = IF Entry[r].writes THEN {} ELSE Entry[r].stages]

\* Mutant: only a write asks for a layout.
ChangesIfWritten(s, r, spec) == r \in Images /\ s.layout # spec.layout /\ spec.writes

ChangesLayout(s, r, spec) == r \in Images /\ s.layout # spec.layout

\* A layout transition is a write.
Modifies(s, r, spec) == spec.writes \/ ChangesLayout(s, r, spec)

\* A transient is written first: what was accessed has a writer.
NeedsTransfer(s, r, q, spec) ==
  /\ async /\ dedicated /\ r \notin Concurrent \cup Tokens /\ ~ spec.discard
  /\ s.writer # "none" /\ s.owner # q

\* Mutant: a transfer waits for what a reader waits for, not for the last access.
WaitsAsReader(s, r, q, n, spec) ==
  LET o == OtherQueue(q)
      from == IF Modifies(s, r, spec) THEN s.last[o]
              ELSE IF s.writer = o THEN s.lastWrite ELSE Nowhere
  IN  { x \in {from} : async /\ x \notin {Nowhere, n} /\ (x = Prologue => s.entryHasWork) }

\* add_edges(): the node on the other queue that node n must wait for, if any.
WaitsOn(s, r, q, n, spec) ==
  LET o == OtherQueue(q)
      moves == NeedsTransfer(s, r, q, spec)
      from == IF Modifies(s, r, spec) \/ moves THEN s.last[o]
              ELSE IF s.writer = o THEN s.lastWrite ELSE Nowhere
  IN  { x \in {from} : /\ async /\ x \notin {Nowhere, n}
                       /\ x = Prologue => moves \/ s.entryHasWork }

\* Mutant: the wait of an earlier reader is enough for the later ones.
NoChain(s, r, q, n, spec) == {}

\* A reader that does not wait itself comes after the one that did.
ChainFrom(s, r, q, n, spec) ==
  IF \/ NeedsTransfer(s, r, q, spec) \/ Modifies(s, r, spec)
     \/ WaitsOn(s, r, q, n, spec) # {} \/ spec.stages \subseteq s.chained[q]
  THEN {} ELSE s.chainFrom[q]

\* emit_barrier(): the barrier in front of node n, if it needs one.  It makes
\* the last write available if that was on this queue.
BarrierBefore(s, r, q, n, spec) ==
  LET own == s.writer = q
      written == IF own THEN s.stages ELSE {}
      changes == ChangesLayout(s, r, spec)
      chain == ChainFrom(s, r, q, n, spec)
      src == written \cup chain \cup (IF spec.writes \/ changes THEN s.read[q] ELSE {})
      needed == IF spec.writes THEN src # {} \/ changes
                ELSE changes \/ chain # {} \/ (own /\ ~ (spec.stages \subseteq s.visible[q]))
  IN  IF NeedsTransfer(s, r, q, spec) \/ ~ needed THEN {}
      ELSE { [resource |-> r, node |-> n, src |-> src, dst |-> spec.stages,
              available |-> own /\ s.real,
              old |-> IF spec.discard THEN "undefined" ELSE s.layout] }

\* emit_transfer(): a release after the owner's last access and an acquire at n.
Transfer(s, r, q, n, spec) ==
  IF NeedsTransfer(s, r, q, spec)
  THEN { [resource |-> r, from |-> s.owner, to |-> q, release |-> s.last[s.owner], acquire |-> n] }
  ELSE {}

\* What the tracker knows after node n.
After(s, r, q, n, spec) ==
  LET o == OtherQueue(q)
      waited == WaitsOn(s, r, q, n, spec) # {}
      anew == Modifies(s, r, spec) \/ NeedsTransfer(s, r, q, spec)
      base == IF anew
              THEN [s EXCEPT !.writer = q, !.stages = spec.stages, !.real = spec.writes,
                             !.read = Nothing, !.visible = Nothing,
                             !.lastWrite = n, !.last[o] = Nowhere]
              ELSE s
      reader == IF spec.writes THEN {} ELSE spec.stages
      chaining == ChainFrom(s, r, q, n, spec) # {}
      used == [base EXCEPT
                 !.read[q] = @ \cup reader, !.visible[q] = @ \cup reader,
                 !.last[q] = n, !.owner = q, !.layout = spec.layout,
                 !.chainFrom[q] = IF waited THEN reader
                                  ELSE IF Modifies(s, r, spec) THEN {} ELSE @,
                 !.chained[q] = IF waited THEN {}
                                ELSE IF chaining THEN @ \cup spec.stages ELSE @]
  IN  IF spec.exit = {} THEN used
      ELSE LET e == CHOOSE x \in spec.exit : TRUE
           IN  [used EXCEPT !.writer = q, !.stages = e.stages, !.real = e.writes,
                            !.read = Nothing,
                            !.visible = [Nothing EXCEPT ![q] = IF e.writes THEN {} ELSE e.stages],
                            !.layout = e.layout]

\* Tracker::apply() for everything that node n uses.
Apply(n) ==
  LET q == QueueAt(n)
  IN  /\ tracked' = [r \in DOMAIN tracked |->
                       IF r \in UsedAt(n) THEN After(tracked[r], r, q, n, SpecAt(n, r))
                       ELSE tracked[r]]
      /\ edges' = edges \cup UNION { { << x, n >> : x \in WaitsOn(tracked[r], r, q, n, SpecAt(n, r)) } :
                                       r \in UsedAt(n) }
      /\ barriers' = barriers \cup UNION { BarrierBefore(tracked[r], r, q, n, SpecAt(n, r)) :
                                             r \in UsedAt(n) }
      /\ transfers' = transfers \cup UNION { Transfer(tracked[r], r, q, n, SpecAt(n, r)) :
                                               r \in UsedAt(n) }

Track ==
  /\ step = "resolved" /\ Scheduled = live
  /\ at \in DOMAIN order
  /\ Apply(at)
  /\ at' = at + 1
  /\ UNCHANGED << scheduleVars, dedicated, batchOf, waits >>

\* The epilogue leaves every import in its exit state, on the graphics queue.
LeaveImports ==
  /\ step = "resolved" /\ Scheduled = live
  /\ at = Epilogue
  /\ Apply(at)
  /\ at' = at + 1
  /\ step' = "tracked"
  /\ UNCHANGED << graph, async, overlap, live, queue, successors, order, dedicated, batchOf, waits >>

----------------------------------------------------------------------------
\* The batches.

\* A node with an incoming edge starts a batch, one with an outgoing edge ends
\* it: the next on that queue starts another.
Begins(n) ==
  \/ \E e \in edges : e[2] = n
  \/ \E x \in Nodes : /\ x < n /\ QueueAt(x) = QueueAt(n) /\ \E e \in edges : e[1] = x
                      /\ \A y \in x + 1 .. n - 1 : QueueAt(y) # QueueAt(n)
  \/ \A x \in Nodes : QueueAt(x) = QueueAt(n) => n <= x

BatchOf(n) == Max({ b \in 0 .. n : Begins(b) /\ QueueAt(b) = QueueAt(n) })

\* One wait for the other queue, at the last of the signals it needs.
WaitOf(b) ==
  LET sources == { BatchOf(e[1]) : e \in { x \in edges : BatchOf(x[2]) = b } }
  IN  IF sources = {} THEN {} ELSE {Max(sources)}

Split ==
  /\ step = "tracked"
  /\ step' = "planned"
  /\ batchOf' = [n \in Nodes |-> BatchOf(n)]
  /\ waits' = [b \in { BatchOf(n) : n \in Nodes } |-> WaitOf(b)]
  /\ UNCHANGED << graph, async, overlap, live, queue, successors, order, dedicated, at, tracked, edges,
                  barriers, transfers >>

CompilerInit ==
  /\ ScheduleInit
  /\ dedicated \in BOOLEAN /\ (dedicated => async)
  /\ at = 1
  /\ tracked = [r \in Slots(graph) |-> IF r \in Imported THEN Arrived(r) ELSE Untouched]
  /\ edges = {} /\ barriers = {} /\ transfers = {}
  /\ batchOf = << >> /\ waits = << >>

Schedule == ScheduleNext /\ UNCHANGED trackVars

CompilerNext == Schedule \/ Track \/ LeaveImports \/ Split

CompilerSpec == CompilerInit /\ [][CompilerNext]_compilerVars

----------------------------------------------------------------------------
\* What a plan orders.

\* What node n leaves of resource r: an import's entry, the exit state of a pass
\* that has one, or the access itself.  It has to be waited for by what uses r
\* next, unless the barrier that led to it already covers that.
LeftBy(spec) ==
  IF spec.exit = {} THEN [stages |-> spec.stages, writes |-> spec.writes, layout |-> spec.layout]
  ELSE CHOOSE e \in spec.exit : TRUE

Leaves(n, r) == IF n = Prologue THEN Entry[r] ELSE LeftBy(SpecAt(n, r))

Users(r) == { n \in Nodes : IF n = Prologue THEN r \in Imports ELSE r \in UsedAt(n) }

Previous(n, r) == Max({ x \in Users(r) : x < n })

\* Does node n write r, or bring it into another layout?
Alters(n, r) ==
  \/ n # Prologue /\ SpecAt(n, r).writes
  \/ /\ r \in Images /\ \E x \in Users(r) : x < n
     /\ SpecAt(n, r).layout # Leaves(Previous(n, r), r).layout

\* The batches that are complete before batch b starts.  A wait holds back the
\* batch that has it, and not those that follow on its queue.
Complete(b) ==
  LET done[x \in DOMAIN waits] ==
        LET waited == { z \in DOMAIN waits : z < x /\ \E w \in waits[x] :
                          z <= w /\ QueueAt(z) = QueueAt(w) }
        IN  waited \cup UNION { done[z] : z \in waited }
  IN  done[b]

\* Node b comes after what node a did to r: by a barrier, because a left r
\* visible to it, or by a semaphore.
DirectlyBefore(a, b, r) ==
  LET left == Leaves(a, r)  spec == SpecAt(b, r)
  IN  \/ /\ QueueAt(a) = QueueAt(b)
         /\ \/ \E x \in barriers : /\ x.resource = r /\ a < x.node /\ x.node <= b
                                   /\ QueueAt(x.node) = QueueAt(a)
                                   /\ left.stages \subseteq x.src /\ spec.stages \subseteq x.dst
                                   /\ left.writes => x.available
            \/ /\ a = Prologue \/ SpecAt(a, r).exit # {}
               /\ ~ left.writes /\ spec.stages \subseteq left.stages /\ ~ Alters(b, r)
      \/ batchOf[a] \in Complete(batchOf[b])

\* The users of r that come after node a, step by step.
OrderedAfter(a, r) ==
  LET users == Users(r)
      upTo[n \in a .. Epilogue] ==
        IF n = a THEN {a}
        ELSE LET S == upTo[n - 1]
             IN  IF n \in users /\ \E x \in S : DirectlyBefore(x, n, r) THEN S \cup {n} ELSE S
  IN  upTo[Epilogue]

\* Node a only changes the layout of r, and what leads it there leads b there.
LedAlong(a, b, r) ==
  /\ a # Prologue /\ ~ SpecAt(a, r).writes /\ ~ Alters(b, r)
  /\ QueueAt(a) = QueueAt(b) /\ SpecAt(b, r).stages \subseteq SpecAt(a, r).stages

----------------------------------------------------------------------------

NodeRange == -1 .. Len(graph) + 1

TrackedOK(s) ==
  /\ s.writer \in Queues \cup {"none"} /\ s.owner \in Queues \cup {"none"}
  /\ s.writer = "none" <=> s.owner = "none"
  /\ s.real \in BOOLEAN /\ s.entryHasWork \in BOOLEAN
  /\ s.last \in [Queues -> NodeRange] /\ s.lastWrite \in NodeRange

CompilerTypeOK ==
  /\ dedicated \in BOOLEAN /\ at \in 1 .. Len(graph) + 2
  /\ \A r \in DOMAIN tracked : TrackedOK(tracked[r])
  /\ \A e \in edges : e[1] < e[2] /\ QueueAt(e[1]) # QueueAt(e[2])
  /\ \A x \in barriers : x.resource \in Resources /\ x.node \in NodeRange
  /\ \A x \in transfers : x.resource \in Resources /\ x.release \in NodeRange /\ x.acquire \in NodeRange
  /\ step = "planned" => /\ batchOf \in [Nodes -> Nodes]
                         /\ waits \in [{ batchOf[n] : n \in Nodes } -> SUBSET Nodes]

\* Whenever two nodes use one resource and one of them writes it or changes its
\* layout, the plan orders the later one after the earlier: this is what
\* check_happens_before() of the tests asks of a plan, asked of the prologue and
\* the epilogue and of layout transitions too.  An exit state without stages
\* is nobody's yet: the frame's fence comes before the next use.
ConflictsOrdered ==
  step = "planned" =>
    \A r \in Slots(graph) : \A a \in Users(r) : \E after \in {OrderedAfter(a, r)} :
      \A b \in Users(r) :
        (/\ a < b /\ (SpecAt(b, r).stages # {} \/ Alters(b, r))
         /\ IF a = Prologue THEN Entry[r].stages # {} ELSE Alters(a, r) \/ Alters(b, r))
        => b \in after \/ LedAlong(a, b, r)

\* When an exclusive resource goes to the other queue family with its contents,
\* it is released at the end of one batch and acquired at the start of another
\* that waits for that one.
OwnershipMoves ==
  (step = "planned" /\ dedicated) =>
    \A r \in Slots(graph) \ (Concurrent \cup Tokens) : \A b \in Users(r) :
      LET a == Previous(b, r)
      IN  ((\E x \in Users(r) : x < b) /\ QueueAt(a) # QueueAt(b) /\ ~ SpecAt(b, r).discard)
          => /\ [resource |-> r, from |-> QueueAt(a), to |-> QueueAt(b),
                 release |-> a, acquire |-> b] \in transfers
             /\ batchOf[b] = b /\ batchOf[a] \in Complete(b)
             /\ \A n \in Nodes : batchOf[n] = batchOf[a] => n <= a

\* An image is in the layout that an access asks for: it was left in it, or a
\* barrier or a transfer leads to it from the one it was left in.
LayoutsHold ==
  step = "planned" =>
    \A r \in Slots(graph) \cap Images : \A n \in Users(r) \ {Prologue} :
      LET found == IF \E x \in Users(r) : x < n THEN Leaves(Previous(n, r), r).layout
                   ELSE "undefined"
      IN  \/ found = SpecAt(n, r).layout
          \/ \E x \in transfers : x.resource = r /\ x.acquire = n
          \/ \E x \in barriers : /\ x.resource = r /\ x.node = n
                                 /\ x.old \in {found, "undefined"}
                                 /\ x.old # found => SpecAt(n, r).discard

\* A pass finds what the one before it left: owned by its queue's family, and
\* in the layout it asks for.
ContentsArrive == OwnershipMoves /\ LayoutsHold

WaitsAreSubmitted ==
  step = "planned" => \A b \in DOMAIN waits : \A w \in waits[b] :
                        w < b /\ QueueAt(w) # QueueAt(b)

\* The scheduler always finds another pass; submitted in the order of their first
\* nodes, no batch waits for one that is not submitted yet, so plan_submissions()
\* accepts every plan; and under it, each pass finds what the one before left.
PlanSound == CompilerTypeOK /\ NeverStuck /\ WaitsAreSubmitted /\ ContentsArrive

=============================================================================
