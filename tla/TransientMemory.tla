-------------------------- MODULE TransientMemory --------------------------
(***************************************************************************)
(* The memory of the transients (plan_transients() of                      *)
(* src/rendering/frame_graph/aliasing.cxx): once a frame is compiled, the  *)
(* images that live within it are placed, the largest first, in blocks     *)
(* that several may share if the passes of one precede those of the other, *)
(* and barriers hand the memory on to each newcomer.  The executor records *)
(* such a barrier in front of the newcomer's first pass, without the       *)
(* stages a compute-only queue does not have.                              *)
(***************************************************************************)
EXTENDS FrameGraphCompiler

CONSTANT Requirement  \* of every transient: its size, alignment and memory types

Transients == Resources \ Imported

\* VkMemoryRequirements, whose alignments are powers of two; the memory types are
\* the bits of memory_type_bits.
MemoryTypes == 0 .. 31
Requirements == [size: Nat \ {0}, alignment: Nat \ {0}, types: SUBSET MemoryTypes]

ASSUME TransientAssumption ==
  /\ Transients \subseteq Images
  /\ Requirement \in [Transients -> Requirements]
  /\ \A r \in Transients : Requirement[r].types # {}
  /\ \A r, s \in Transients :
       Requirement[r].alignment <= Requirement[s].alignment =>
         Requirement[s].alignment % Requirement[r].alignment = 0

VARIABLES
  precedes,  \* Order::batch_before: pairs of batches
  blocks,    \* TransientPlan::blocks
  placed,    \* TransientPlan::placements
  handoffs   \* TransientPlan::barriers

memoryVars == << precedes, blocks, placed, handoffs >>
transientVars == << compilerVars, memoryVars >>

Batches == DOMAIN waits
NodeOf(p) == CHOOSE n \in DOMAIN order : order[n] = p

\* touching_passes(): by their nodes.
Touches(r) == { n \in DOMAIN order : r \in UsedAt(n) }

\* Those that no culling took the last user of.
Alive == { r \in Transients : Touches(r) # {} }

----------------------------------------------------------------------------
\* build_order().

\* Batches on one queue run in submission order; a wait is for all that was
\* submitted to the other queue up to the batch it names.
SubmittedBefore ==
  { x \in Batches \X Batches :
      /\ x[1] < x[2]
      /\ \/ QueueAt(x[1]) = QueueAt(x[2])
         \/ \E w \in waits[x[2]] : QueueAt(x[1]) = QueueAt(w) /\ x[1] <= w }

\* The transitive closure, batch after batch: every pair points forward.
ClosedUpTo(pairs) ==
  LET before[b \in Nodes] ==
        LET direct == { x[1] : x \in { y \in pairs : y[2] = b } }
        IN  direct \cup UNION { before[a] : a \in direct }
  IN  { x \in Batches \X Batches : x[1] \in before[x[2]] }

BuildOrder ==
  /\ step = "planned"
  /\ step' = "ordered"
  /\ precedes' = ClosedUpTo(SubmittedBefore)
  /\ UNCHANGED << graph, async, overlap, live, queue, successors, order, trackVars,
                  blocks, placed, handoffs >>

----------------------------------------------------------------------------
\* plan_transients().

\* Mutant: the schedule decides, on whatever queue.
ScheduledBefore(a, b) == a < b

\* Order::before(), of two nodes.
ComesBefore(a, b) ==
  IF batchOf[a] = batchOf[b] THEN a < b ELSE << batchOf[a], batchOf[b] >> \in precedes

AllBefore(r, s) == \A a \in Touches(r), b \in Touches(s) : ComesBefore(a, b)
InConflict(r, s) == ~ AllBefore(r, s) /\ ~ AllBefore(s, r)

AlignUp(x, alignment) == ((x + alignment - 1) \div alignment) * alignment

Size(r) == Requirement[r].size
EndOf(p) == p.offset + Size(p.resource)
Meet(p, q) == /\ p.block = q.block
              /\ p.offset < EndOf(q) /\ q.offset < EndOf(p)

\* The first fit among those in the block that r conflicts with, upwards.
OffsetIn(b, r) ==
  LET alignment == Max({Requirement[r].alignment, blocks[b].alignment})
      taken == { p \in placed : p.block = b /\ InConflict(r, p.resource) }
      starts == {0} \cup { AlignUp(EndOf(p), alignment) : p \in taken }
  IN  Min({ x \in starts :
              \A p \in taken : EndOf(p) <= x \/ x + Size(r) <= p.offset })

Fitting(r) ==
  { b \in DOMAIN blocks : blocks[b].types \cap Requirement[r].types # {} }

\* In the first block of its memory types, or in one of its own.
Place ==
  /\ step = "ordered"
  /\ \E left \in { Alive \ { p.resource : p \in placed } } : \E r \in left :
       /\ \A x \in left : Size(x) <= Size(r)
       /\ IF Fitting(r) = {}
          THEN /\ blocks' = Append(blocks, Requirement[r])
               /\ placed' = placed \cup
                    {[resource |-> r, block |-> Len(blocks) + 1, offset |-> 0]}
          ELSE \E b \in { Min(Fitting(r)) } : \E offset \in { OffsetIn(b, r) } :
                 /\ placed' = placed \cup {[resource |-> r, block |-> b, offset |-> offset]}
                 /\ blocks' =
                      [blocks EXCEPT ![b] =
                         [size |-> Max({@.size, offset + Size(r)}),
                          alignment |-> Max({@.alignment, Requirement[r].alignment}),
                          types |-> @.types \cap Requirement[r].types]]
  /\ UNCHANGED << scheduleVars, trackVars, precedes, handoffs >>

\* access_scope(): the stages of an access, or those it leaves the image to.
ScopeAt(n, r) ==
  LET spec == SpecAt(n, r)
  IN  IF spec.exit = {} THEN spec.stages ELSE UNION { e.stages : e \in spec.exit }

\* Who had any of p's memory before it.
Before(p) == { q \in placed : q # p /\ Meet(p, q) /\ AllBefore(q.resource, p.resource) }
Newcomers(n) == { p \in placed : Before(p) # {} /\ n = Min(Touches(p.resource)) }

\* One barrier in front of a pass, for all that start there.
HandOn ==
  /\ step = "ordered" /\ Alive = { p.resource : p \in placed }
  /\ step' = "handed"
  /\ handoffs' =
       { [node |-> n,
          src |-> UNION { UNION { ScopeAt(a, q.resource) : a \in Touches(q.resource) } :
                            q \in UNION { Before(p) : p \in Newcomers(n) } },
          dst |-> UNION { ScopeAt(n, p.resource) : p \in Newcomers(n) }] :
         n \in { m \in DOMAIN order : Newcomers(m) # {} } }
  /\ UNCHANGED << graph, async, overlap, live, queue, successors, order, trackVars,
                  precedes, blocks, placed >>

TransientInit ==
  /\ CompilerInit
  /\ precedes = {} /\ blocks = << >> /\ placed = {} /\ handoffs = {}

Compile == CompilerNext /\ UNCHANGED memoryVars

TransientNext == Compile \/ BuildOrder \/ Place \/ HandOn

TransientSpec == TransientInit /\ [][TransientNext]_transientVars

----------------------------------------------------------------------------

\* record_barriers(): a compute-only queue family has no graphics stages.
ComputeStages == {"compute", "transfer", "host", "indirect", "all_commands"}
Recorded(n, stages) ==
  IF dedicated /\ QueueAt(n) = "compute" THEN stages \cap ComputeStages ELSE stages

\* Node f does not touch the memory before node a is done with r: a's batch is
\* complete, or the barrier in front of f waits for a's stages, or it carries on
\* what an earlier batch of f's queue has waited for.
GivenUp(a, r, f) ==
  \/ batchOf[a] \in Complete(batchOf[f])
  \/ \E h \in handoffs :
       /\ h.node = f
       /\ IF QueueAt(a) = QueueAt(f)
          THEN a < f /\ SpecAt(a, r).stages \subseteq Recorded(f, h.src)
          ELSE /\ Recorded(f, h.src) # {}
               /\ \E z \in Batches : /\ z <= batchOf[f] /\ QueueAt(z) = QueueAt(f)
                                     /\ batchOf[a] \in Complete(z)

\* Of two transients that share memory, one is wholly done with it before the
\* other's first pass starts: the order of batches that plan_transients() goes
\* by says when batches start, and the barriers have to make it hold.
MemoryHandedOn ==
  step = "handed" =>
    \A p, q \in placed :
      (p # q /\ Meet(p, q)) =>
        \E old \in {p, q} : \E new \in {p, q} \ {old} :
          \A a \in Touches(old.resource) :
            GivenUp(a, old.resource, Min(Touches(new.resource)))

\* Every placement is aligned, inside its block, and of a memory type it can use.
PlacementsFit ==
  \A p \in placed :
    /\ p.offset % Requirement[p.resource].alignment = 0
    /\ EndOf(p) <= blocks[p.block].size
    /\ blocks[p.block].types \subseteq Requirement[p.resource].types
    /\ blocks[p.block].types # {}

\* In front of the first pass of a newcomer is a barrier that names every stage in
\* which those who had the memory before it are left.
NewcomersWait ==
  step = "handed" =>
    \A p, q \in placed :
      (p # q /\ Meet(p, q)) =>
        \E old \in {p, q} : \E new \in {p, q} \ {old} :
          /\ AllBefore(old.resource, new.resource)
          /\ \E h \in handoffs :
               /\ h.node = Min(Touches(new.resource))
               /\ \A a \in Touches(old.resource) : ScopeAt(a, old.resource) \subseteq h.src

\* Transients may share memory: they fit in it, and one is done before the next.
MemoryShared == MemoryHandedOn /\ NewcomersWait /\ PlacementsFit

=============================================================================
