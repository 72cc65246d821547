-------------------------- MODULE FrameGraphProofs --------------------------
(***************************************************************************)
(* The frame graph's compiler, for every set of graphs and every overlap   *)
(* window: the schedule of PassScheduling, the plan that                   *)
(* FrameGraphCompiler makes of it, and how transients share memory.        *)
(*                                                                         *)
(* And the shadow atlas is sampled as it was rendered, for every number of *)
(* cascades, every distance between redraws, every width of the counters   *)
(* and any number of changes.                                              *)
(***************************************************************************)
EXTENDS TransientMemory, ShadowCache, FiniteSetTheorems, WellFoundedInduction, TLAPS

(* Passes a and b use a resource that one of them writes. *)
Conflict(a, b) ==
  \E r \in Uses(graph, a) \cap Uses(graph, b) : Writes(graph, a, r) \/ Writes(graph, b, r)

(* What ConflictsKept and the fences have in common: those that must come    *)
(* before a scheduled pass are scheduled before it.                          *)
ConflictsFirst ==
  \A j \in DOMAIN order : \A p \in live :
    p < order[j] /\ Conflict(p, order[j]) => \E i \in 1 .. j - 1 : order[i] = p

FencesFirst ==
  \A j \in DOMAIN order : \A p \in live :
    FencedFrom(p, order[j]) => \E i \in 1 .. j - 1 : order[i] = p

(* No pass is scheduled before the marking has ended; then what is kept is   *)
(* closed, and the edges are those between the passes that are kept.         *)
LiveIsWhole ==
  /\ step = "declared" => order = << >>
  /\ step # "declared" => /\ Marked \subseteq live
                          /\ successors = Successors(graph, live)

(* ScheduleTypeOK, but for how far the call of compile() has come. *)
PassesOK ==
  /\ graph \in Graphs
  /\ async \in BOOLEAN /\ overlap \in BOOLEAN
  /\ live \subseteq Passes(graph)
  /\ step # "declared" => /\ queue \in [Passes(graph) -> Queues]
                          /\ successors \in [live -> SUBSET live]
  /\ order \in Seq(live)
  /\ \A i, j \in DOMAIN order : order[i] = order[j] => i = j

ScheduleInv ==
  /\ PassesOK
  /\ ConflictsFirst
  /\ FencesFirst
  /\ LiveIsWhole

-----------------------------------------------------------------------------
(* Extreme elements of sets of numbers. *)

LEMMA LeastOf ==
  ASSUME NEW S \in SUBSET Nat, S # {}
  PROVE  \E m \in S : \A k \in S : m <= k
<1> DEFINE R == OpToRel(<, Nat)
<1>1. \A a, b \in Nat : << a, b >> \in R <=> a < b
  BY Zenon DEF OpToRel
<1>2. IsWellFoundedOn(R, Nat)
  BY NatLessThanWellFounded
<1> HIDE DEF R
<1>3. PICK m \in S : \A k \in S : ~ (<< k, m >> \in R)
  BY <1>2, WFMin
<1>4. \A k \in S : ~ (k < m)
  BY <1>1, <1>3, Zenon
<1>5. \A k \in S : m <= k
  BY <1>4
<1>. QED
  BY <1>5

LEMMA GreatestOf ==
  ASSUME NEW n \in Nat, NEW S \in SUBSET (0 .. n), S # {}
  PROVE  \E m \in S : \A k \in S : k <= m
<1> DEFINE T == { n - x : x \in S }
<1>1. T \in SUBSET Nat /\ T # {}
  <2>1. \A x \in S : n - x \in Nat
    OBVIOUS
  <2>. QED
    BY <2>1
<1>2. PICK t \in T : \A k \in T : t <= k
  <2> HIDE DEF T
  <2>. QED
    BY <1>1, LeastOf
<1>3. PICK m \in S : t = n - m
  OBVIOUS
<1>4. \A k \in S : n - m <= n - k
  BY <1>2, <1>3
<1>. QED
  BY <1>4

-----------------------------------------------------------------------------
(* What the code's graphs and queues are. *)

LEMMA GraphShape ==
  ASSUME graph \in Graphs
  PROVE  /\ Len(graph) \in Nat /\ Passes(graph) = 1 .. Len(graph)
         /\ \A p \in Passes(graph), r \in Resources : Writes(graph, p, r) => r \in Uses(graph, p)
  BY GraphsAssumption DEF IsGraph, Passes, Writes

(* Marking adds passes only. *)
LEMMA MarkedArePasses ==
  ASSUME live \subseteq Passes(graph)
  PROVE  Marked \subseteq Passes(graph)
  BY DEF Marked, Roots, Needs

(* The edges into b are those of the definition. *)
LEMMA SuccessorsAre ==
  ASSUME LiveIsWhole, step # "declared", NEW a \in live, NEW b \in live
  PROVE  b \in successors[a] <=> DependsOn(graph, live, a, b)
  BY DEF LiveIsWhole, Successors

(* Whatever the mode, the pass that is picked has nothing left to wait for. *)
LEMMA BestIsReady ==
  ASSUME PassesOK, LiveIsWhole, step # "declared", NEW b \in Best
  PROVE  b \in live \ Scheduled /\ WaitsFor(b) \subseteq Scheduled
<1>1. live \subseteq 1 .. Len(graph) /\ Len(graph) \in Nat
  BY GraphShape DEF PassesOK
<1>2. CASE overlap
  BY <1>2 DEF Best, Earliest, Candidates
<1>3. CASE ~ overlap
  <2>1. b \in live \ Scheduled /\ \A x \in live \ Scheduled : b <= x
    BY <1>3 DEF Best, Earliest
  <2>2. \A a \in WaitsFor(b) : a \in live /\ a < b
    BY <2>1, SuccessorsAre DEF WaitsFor, DependsOn, FencedFrom
  <2>3. \A a \in live : a < b => ~ (b <= a)
    BY <1>1, <2>1
  <2>. QED
    BY <2>1, <2>2, <2>3
<1>. QED
  BY <1>2, <1>3

(* The scheduler's edges are those from the last write and from the reads     *)
(* since.  Together they reach every earlier pass in conflict: the last        *)
(* writer in between is scheduled, and the earlier pass before it.             *)
LEMMA ConflictsAreScheduled ==
  ASSUME PassesOK, ConflictsFirst, LiveIsWhole, step # "declared",
         NEW b \in live, WaitsFor(b) \subseteq Scheduled, NEW p \in live, p < b, Conflict(p, b)
  PROVE  p \in Scheduled
<1>1. live \subseteq 1 .. Len(graph) /\ Len(graph) \in Nat
  BY GraphShape DEF PassesOK
<1>2. PICK r \in Uses(graph, p) \cap Uses(graph, b) : Writes(graph, p, r) \/ Writes(graph, b, r)
  BY DEF Conflict
<1> DEFINE Between == { x \in live : p < x /\ x < b /\ Writes(graph, x, r) }
<1>3. CASE Between = {}
  <2>1. \A x \in p + 1 .. b - 1 : x \in live => ~ Writes(graph, x, r)
    BY <1>1, <1>3
  <2>2. DependsOn(graph, live, p, b)
    BY <1>2, <2>1 DEF DependsOn
  <2>. QED
    BY <2>2, SuccessorsAre DEF WaitsFor
<1>4. CASE Between # {}
  <2>1. Between \in SUBSET (0 .. Len(graph))
    <3>1. \A x \in live : x \in 0 .. Len(graph)
      BY <1>1
    <3>2. \A x \in Between : x \in live
      OBVIOUS
    <3> HIDE DEF Between
    <3>. QED
      BY <3>1, <3>2
  <2>2. PICK w \in Between : \A k \in Between : k <= w
    <3> HIDE DEF Between
    <3>. QED
      BY <1>1, <1>4, <2>1, GreatestOf
  <2>3. w \in live /\ p < w /\ w < b /\ Writes(graph, w, r)
    BY <2>2
  <2>4. \A x \in w + 1 .. b - 1 : x \in live => ~ Writes(graph, x, r)
    BY <1>1, <2>2, <2>3
  <2>5. r \in Uses(graph, w)
    BY <2>3 DEF Writes
  <2>6. DependsOn(graph, live, w, b)
    BY <1>2, <2>3, <2>4, <2>5 DEF DependsOn
  <2>7. w \in Scheduled
    BY <2>3, <2>6, SuccessorsAre DEF WaitsFor
  <2>8. PICK j \in DOMAIN order : order[j] = w
    BY <2>7 DEF Scheduled
  <2>9. Conflict(p, order[j])
    BY <1>2, <2>3, <2>5, <2>8 DEF Conflict
  <2>10. PICK i \in 1 .. j - 1 : order[i] = p
    BY <2>3, <2>8, <2>9 DEF ConflictsFirst
  <2>11. order \in Seq(live)
    BY DEF PassesOK
  <2>12. i \in DOMAIN order
    BY <2>8, <2>10, <2>11
  <2>. QED
    BY <2>10, <2>12 DEF Scheduled
<1>. QED
  BY <1>3, <1>4

(* The first live pass that is not scheduled waits for none that is not: the  *)
(* edges go forward.                                                         *)
LEMMA SomePassIsBest ==
  ASSUME PassesOK, LiveIsWhole, step # "declared", Scheduled # live
  PROVE  Best # {}
<1>1. live \subseteq 1 .. Len(graph) /\ Len(graph) \in Nat
  BY GraphShape DEF PassesOK
<1>2. Scheduled \subseteq live
  <2>1. order \in Seq(live)
    BY DEF PassesOK
  <2>2. \A i \in DOMAIN order : order[i] \in live
    BY <2>1
  <2>. QED
    BY <2>2 DEF Scheduled
<1>3. live \ Scheduled \in SUBSET Nat /\ live \ Scheduled # {}
  <2>1. \A x \in live : x \in Nat
    BY <1>1
  <2>2. \E x \in live : x \notin Scheduled
    BY <1>2
  <2>. QED
    BY <2>1, <2>2
<1>4. PICK p \in live \ Scheduled : \A x \in live \ Scheduled : p <= x
  BY <1>3, LeastOf
<1>5. \A a \in live : a < p => a \in Scheduled
  BY <1>1, <1>4
<1>6. \A a \in WaitsFor(p) : a \in live /\ a < p
  BY <1>4, SuccessorsAre DEF WaitsFor, DependsOn, FencedFrom
<1>7. p \in Candidates
  BY <1>4, <1>5, <1>6 DEF Candidates
<1>8. \A S \in SUBSET Candidates : S # {} => Earliest(S) # {}
  <2> SUFFICES ASSUME NEW S \in SUBSET Candidates, S # {} PROVE Earliest(S) # {}
    OBVIOUS
  <2>1. S \in SUBSET Nat
    BY <1>1 DEF Candidates
  <2>2. PICK m \in S : \A k \in S : m <= k
    BY <2>1, LeastOf
  <2>. QED
    BY <2>2 DEF Earliest
<1>9. CASE overlap
  <2> DEFINE prompt == { x \in Candidates : ~ Delayed(x) }
             S == IF prompt # {} THEN prompt ELSE Candidates
  <2>1. S \in SUBSET Candidates /\ S # {}
    BY <1>7
  <2>2. Best = Earliest(S)
    BY <1>9 DEF Best
  <2>. QED
    BY <1>8, <2>1, <2>2
<1>10. CASE ~ overlap
  BY <1>4, <1>10 DEF Best, Earliest
<1>. QED
  BY <1>9, <1>10

-----------------------------------------------------------------------------

LEMMA ScheduleInitInv == ScheduleInit => ScheduleInv
<1> SUFFICES ASSUME ScheduleInit PROVE ScheduleInv
  OBVIOUS
<1>1. order = << >> /\ live = {} /\ step = "declared"
  BY DEF ScheduleInit
<1>2. PassesOK
  BY <1>1 DEF ScheduleInit, PassesOK
<1>3. ConflictsFirst /\ FencesFirst
  BY <1>1 DEF ConflictsFirst, FencesFirst
<1>. QED
  BY <1>1, <1>2, <1>3 DEF ScheduleInv, LiveIsWhole

LEMMA CullInv == ScheduleInv /\ Cull => ScheduleInv'
<1> SUFFICES ASSUME ScheduleInv, Cull PROVE ScheduleInv'
  OBVIOUS
<1>1. /\ order = << >> /\ order' = << >> /\ graph' = graph /\ step = "declared"
      /\ step' = "declared" /\ async' = async /\ overlap' = overlap
  BY DEF Cull, ScheduleInv, LiveIsWhole
<1>2. live' \subseteq Passes(graph)
  BY MarkedArePasses DEF Cull, ScheduleInv, PassesOK
<1>3. PassesOK'
  BY <1>1, <1>2 DEF ScheduleInv, PassesOK
<1>4. ConflictsFirst' /\ FencesFirst'
  BY <1>1 DEF ConflictsFirst, FencesFirst
<1>. QED
  BY <1>1, <1>3, <1>4 DEF ScheduleInv, LiveIsWhole

LEMMA ResolveInv == ScheduleInv /\ Resolve => ScheduleInv'
<1> SUFFICES ASSUME ScheduleInv, Resolve PROVE ScheduleInv'
  OBVIOUS
<1>1. /\ order = << >> /\ order' = << >> /\ graph' = graph /\ live' = live
      /\ step' = "resolved" /\ async' = async /\ overlap' = overlap
  BY DEF Resolve, ScheduleInv, LiveIsWhole
<1>2. successors' = Successors(graph, live) /\ successors' \in [live -> SUBSET live]
  BY DEF Resolve, Successors
<1>3. queue' \in [Passes(graph) -> Queues]
  BY DEF Resolve, QueueOf, Queues
<1>4. PassesOK'
  BY <1>1, <1>2, <1>3 DEF ScheduleInv, PassesOK
<1>5. ConflictsFirst' /\ FencesFirst'
  BY <1>1 DEF ConflictsFirst, FencesFirst
<1>6. Marked' = live'
  BY <1>1 DEF Resolve, Marked
<1>. QED
  BY <1>1, <1>2, <1>4, <1>5, <1>6 DEF ScheduleInv, LiveIsWhole

LEMMA PickInv == ScheduleInv /\ Pick => ScheduleInv'
<1> SUFFICES ASSUME ScheduleInv, Pick PROVE ScheduleInv'
  OBVIOUS
<1> USE DEF ScheduleInv
<1>1. PICK b \in Best : order' = Append(order, b)
  BY DEF Pick
<1>2. /\ graph' = graph /\ live' = live /\ queue' = queue /\ step' = step
      /\ async' = async /\ overlap' = overlap /\ successors' = successors
      /\ step # "declared"
  BY DEF Pick
<1>3. b \in live /\ b \notin Scheduled /\ WaitsFor(b) \subseteq Scheduled
  BY <1>2, BestIsReady
<1>4. order \in Seq(live)
  BY DEF PassesOK
<1>5. /\ order' \in Seq(live) /\ Len(order) \in Nat
      /\ DOMAIN order = 1 .. Len(order) /\ DOMAIN order' = 1 .. Len(order) + 1
      /\ \A i \in DOMAIN order : order'[i] = order[i]
      /\ order'[Len(order) + 1] = b
  BY <1>1, <1>3, <1>4
<1>6. \A p \in Scheduled : \E i \in 1 .. Len(order) : order'[i] = p
  BY <1>5 DEF Scheduled
<1>7. PassesOK'
  <2>1. ASSUME NEW i \in DOMAIN order', NEW j \in DOMAIN order', order'[i] = order'[j]
        PROVE  i = j
    <3>1. \A k \in DOMAIN order : order[k] # b
      BY <1>3 DEF Scheduled
    <3>. QED
      BY <2>1, <3>1, <1>5 DEF PassesOK
  <2>. QED
    BY <1>2, <1>5, <2>1 DEF PassesOK
<1>8. ConflictsFirst'
  <2> SUFFICES ASSUME NEW j \in DOMAIN order', NEW p \in live,
                      p < order'[j], Conflict(p, order'[j])
               PROVE  \E i \in 1 .. j - 1 : order'[i] = p
    BY <1>2 DEF ConflictsFirst, Conflict
  <2>1. Conflict(p, order'[j])
    OBVIOUS
  <2>2. CASE j \in DOMAIN order
    <3>1. PICK i \in 1 .. j - 1 : order[i] = p
      BY <1>5, <2>1, <2>2 DEF ConflictsFirst
    <3>. QED
      BY <1>5, <2>2, <3>1
  <2>3. CASE j = Len(order) + 1
    <3>1. p \in Scheduled
      BY <1>2, <1>3, <1>5, <2>1, <2>3, ConflictsAreScheduled
    <3>. QED
      BY <1>5, <1>6, <2>3, <3>1
  <2>. QED
    BY <1>5, <2>2, <2>3
<1>9. FencesFirst'
  <2> SUFFICES ASSUME NEW j \in DOMAIN order', NEW p \in live, FencedFrom(p, order'[j])
               PROVE  \E i \in 1 .. j - 1 : order'[i] = p
    BY <1>2 DEF FencesFirst, FencedFrom
  <2>1. FencedFrom(p, order'[j])
    OBVIOUS
  <2>2. CASE j \in DOMAIN order
    <3>1. PICK i \in 1 .. j - 1 : order[i] = p
      BY <1>5, <2>1, <2>2 DEF FencesFirst
    <3>. QED
      BY <1>5, <2>2, <3>1
  <2>3. CASE j = Len(order) + 1
    <3>1. p \in Scheduled
      BY <1>3, <1>5, <2>1, <2>3 DEF WaitsFor
    <3>. QED
      BY <1>5, <1>6, <2>3, <3>1
  <2>. QED
    BY <1>5, <2>2, <2>3
<1>10. LiveIsWhole'
  BY <1>2 DEF LiveIsWhole, Marked
<1>. QED
  BY <1>7, <1>8, <1>9, <1>10

LEMMA ScheduleStepInv == ScheduleInv /\ [ScheduleNext]_scheduleVars => ScheduleInv'
<1> SUFFICES ASSUME ScheduleInv, [ScheduleNext]_scheduleVars PROVE ScheduleInv'
  OBVIOUS
<1>1. CASE Resolve
  BY <1>1, ResolveInv
<1>4. CASE Cull
  BY <1>4, CullInv
<1>2. CASE Pick
  BY <1>2, PickInv
<1>3. CASE UNCHANGED scheduleVars
  BY <1>3 DEF scheduleVars, ScheduleInv, PassesOK, ConflictsFirst, FencesFirst, LiveIsWhole,
              Conflict, FencedFrom, Marked
<1>. QED
  BY <1>1, <1>2, <1>3, <1>4 DEF ScheduleNext

LEMMA ScheduleInvariant == ScheduleSpec => []ScheduleInv
<1>. QED
  BY ScheduleInitInv, ScheduleStepInv, PTL DEF ScheduleSpec

-----------------------------------------------------------------------------

(* The schedule is a sequence of live passes without repetition (the vectors *)
(* `order`, `live` and `queues` of compile() and schedule()).                *)
THEOREM ScheduleTypeCorrect == ScheduleSpec => []ScheduleTypeOK
<1> DEFINE Halfway == step \in {"declared", "resolved"}
<1>1. ScheduleInit => Halfway
  BY DEF ScheduleInit
<1>2. Halfway /\ [ScheduleNext]_scheduleVars => Halfway'
  BY DEF ScheduleNext, Cull, Resolve, Pick, scheduleVars
<1>3. ScheduleInv /\ Halfway => ScheduleTypeOK
  BY DEF ScheduleInv, PassesOK, ScheduleTypeOK
<1> HIDE DEF Halfway
<1>. QED
  BY <1>1, <1>2, <1>3, ScheduleInvariant, PTL DEF ScheduleSpec

LEMMA ConflictsAreKept == ScheduleInv => ConflictsKept
BY DEF ScheduleInv, ConflictsFirst, ConflictsKept, Conflict

LEMMA FencesAreKept == ScheduleInv => FencesKeepTheirPlace
<1> SUFFICES ASSUME ScheduleInv, NEW i \in DOMAIN order, graph[order[i]].fence
             PROVE  { order[x] : x \in 1 .. i - 1 } = { p \in live : p < order[i] }
  BY DEF FencesKeepTheirPlace
<1>1. /\ order \in Seq(live) /\ DOMAIN order = 1 .. Len(order) /\ Len(order) \in Nat
      /\ \A x \in DOMAIN order : order[x] \in live
      /\ \A x, y \in DOMAIN order : order[x] = order[y] => x = y
  BY DEF ScheduleInv, PassesOK
<1>2. live \subseteq 1 .. Len(graph) /\ Len(graph) \in Nat
  BY GraphShape DEF ScheduleInv, PassesOK
<1>3. ASSUME NEW x \in 1 .. i - 1 PROVE order[x] \in live /\ order[x] < order[i]
  <2>1. x \in DOMAIN order /\ x # i /\ order[x] \in live /\ order[x] # order[i]
    BY <1>1
  <2>2. ASSUME order[i] < order[x] PROVE FALSE
    <3>1. FencedFrom(order[i], order[x])
      BY <2>2 DEF FencedFrom
    <3>2. PICK y \in 1 .. x - 1 : order[y] = order[i]
      BY <1>1, <2>1, <3>1 DEF ScheduleInv, FencesFirst
    <3>. QED
      BY <1>1, <2>1, <3>2
  <2>3. order[i] \in live
    BY <1>1
  <2>4. \A p \in live : p \in Int
    BY <1>2
  <2>. QED
    BY <2>1, <2>2, <2>3, <2>4
<1>4. ASSUME NEW p \in live, p < order[i] PROVE \E x \in 1 .. i - 1 : order[x] = p
  BY <1>4 DEF ScheduleInv, FencesFirst, FencedFrom
<1>. QED
  BY <1>3, <1>4

LEMMA ContentsAreKept == ScheduleInv => ContentsAreLive
<1> SUFFICES ASSUME ScheduleInv, step # "declared",
                    NEW p \in live, NEW r \in Resources, NEW q \in Passes(graph),
                    r \in Uses(graph, p), Produces(graph, q, p, r), q \notin live
             PROVE  graph[p].accesses[r].discard
  BY DEF ContentsAreLive
<1>1. Needs(graph, p) \subseteq live
  BY DEF ScheduleInv, LiveIsWhole, Marked
<1>2. ASSUME ~ graph[p].accesses[r].discard PROVE q \in live
  BY <1>1, <1>2 DEF Needs
<1>. QED
  BY <1>2

(* schedule() keeps every two conflicting live passes in the order of their  *)
(* declaration, though its edges join neighbouring accesses only.            *)
THEOREM ScheduleKeepsConflicts == ScheduleSpec => []ConflictsKept
  BY ConflictsAreKept, ScheduleInvariant, PTL

(* Nothing crosses a pinned() or legacy() pass in schedule(): what precedes  *)
(* it is what was declared before it.                                        *)
THEOREM ScheduleKeepsFences == ScheduleSpec => []FencesKeepTheirPlace
  BY FencesAreKept, ScheduleInvariant, PTL

(* cull() keeps the producer of everything that a pass it keeps does not     *)
(* discard.                                                                  *)
THEOREM CullKeepsContents == ScheduleSpec => []ContentsAreLive
  BY ContentsAreKept, ScheduleInvariant, PTL

(* compile() as far as the schedule: what a frame's passes rely on, whatever  *)
(* the frame, the queues and the mode.                                       *)
THEOREM ScheduleIsSound == ScheduleSpec => []ScheduleSound
  BY ScheduleKeepsConflicts, ScheduleKeepsFences, CullKeepsContents, PTL DEF ScheduleSound

(* The list scheduler always finds another pass, whatever waits for what and  *)
(* whatever the overlap window puts off: schedule() ends.                    *)
THEOREM ScheduleNeverStuck == ScheduleSpec => []NeverStuck
<1>1. ScheduleInv => NeverStuck
  BY SomePassIsBest DEF ScheduleInv, NeverStuck
<1>. QED
  BY <1>1, ScheduleInvariant, PTL

-----------------------------------------------------------------------------
(* The plan.  What the tracker knows of a resource, and who has used it. *)

Fields == { "layout", "owner", "writer", "stages", "real", "read", "visible", "last",
            "lastWrite", "chainFrom", "chained", "entryHasWork" }

IsTracked(s) == DOMAIN s = Fields /\ s.last = [q \in Queues |-> s.last[q]]

Past(r) == { n \in Users(r) : n < at }

Follows(a, b, r) ==
  /\ a \in Users(r) /\ b \in Users(r) /\ a < b
  /\ \A x \in Users(r) : ~ (a < x /\ x < b)

(* An access moves what the tracker knows on; the lists of stages are left   *)
(* out.                                                                      *)
LEMMA AfterFacts ==
  ASSUME NEW s, IsTracked(s), NEW r, NEW q \in Queues, NEW n, NEW spec
  PROVE  LET t == After(s, r, q, n, spec)
             anew == Modifies(s, r, spec) \/ NeedsTransfer(s, r, q, spec)
         IN  /\ IsTracked(t)
             /\ t.owner = q
             /\ t.last = IF anew THEN [x \in Queues |-> IF x = q THEN n ELSE Nowhere]
                         ELSE [s.last EXCEPT ![q] = n]
             /\ t.lastWrite = IF anew THEN n ELSE s.lastWrite
             /\ t.writer = IF anew \/ spec.exit # {} THEN q ELSE s.writer
             /\ t.layout = LeftBy(spec).layout
             /\ t.real = IF anew \/ spec.exit # {} THEN LeftBy(spec).writes ELSE s.real
             /\ t.entryHasWork = s.entryHasWork
<1> DEFINE o == OtherQueue(q)
           anew == Modifies(s, r, spec) \/ NeedsTransfer(s, r, q, spec)
           waited == WaitsOn(s, r, q, n, spec) # {}
           chaining == ChainFrom(s, r, q, n, spec) # {}
           reader == IF spec.writes THEN {} ELSE spec.stages
           base == IF anew
                   THEN [s EXCEPT !.writer = q, !.stages = spec.stages, !.real = spec.writes,
                                  !.read = Nothing, !.visible = Nothing,
                                  !.lastWrite = n, !.last[o] = Nowhere]
                   ELSE s
           used == [base EXCEPT
                 !.read[q] = @ \cup reader, !.visible[q] = @ \cup reader,
                 !.last[q] = n, !.owner = q, !.layout = spec.layout,
                 !.chainFrom[q] = IF waited THEN reader
                                  ELSE IF Modifies(s, r, spec) THEN {} ELSE @,
                 !.chained[q] = IF waited THEN {}
                                ELSE IF chaining THEN @ \cup spec.stages ELSE @]
           e == CHOOSE x \in spec.exit : TRUE
           left == [used EXCEPT !.writer = q, !.stages = e.stages, !.real = e.writes,
                            !.read = Nothing,
                            !.visible = [Nothing EXCEPT ![q] = IF e.writes THEN {} ELSE e.stages],
                            !.layout = e.layout]
<1>1. After(s, r, q, n, spec) = IF spec.exit = {} THEN used ELSE left
  BY DEF After
<1>2. o \in Queues /\ o # q /\ \A x \in Queues : x = q \/ x = o
  BY DEF Queues, OtherQueue
<1>3. /\ DOMAIN base = Fields /\ DOMAIN base.last = Queues
      /\ base.last[q] = s.last[q] /\ base.last[o] = IF anew THEN Nowhere ELSE s.last[o]
      /\ base.lastWrite = IF anew THEN n ELSE s.lastWrite
      /\ base.writer = IF anew THEN q ELSE s.writer
      /\ base.real = IF anew THEN spec.writes ELSE s.real
      /\ base.entryHasWork = s.entryHasWork
  <2> HIDE DEF anew
  <2>. QED
    BY <1>2 DEF IsTracked, Fields
<1>4. /\ DOMAIN used = Fields /\ DOMAIN used.last = Queues
      /\ used.last = [base.last EXCEPT ![q] = n]
      /\ used.lastWrite = base.lastWrite /\ used.writer = base.writer
      /\ used.real = base.real /\ used.entryHasWork = base.entryHasWork
      /\ used.owner = q /\ used.layout = spec.layout
  <2> HIDE DEF base, reader, waited, chaining
  <2>. QED
    BY <1>3 DEF Fields
<1>5. /\ DOMAIN left = Fields /\ left.last = used.last
      /\ left.lastWrite = base.lastWrite /\ left.writer = q
      /\ left.real = e.writes /\ left.entryHasWork = base.entryHasWork
      /\ left.owner = q /\ left.layout = e.layout
  <2> HIDE DEF used
  <2>. QED
    BY <1>4 DEF Fields
<1>6. used.last = IF anew THEN [x \in Queues |-> IF x = q THEN n ELSE Nowhere]
                  ELSE [s.last EXCEPT ![q] = n]
  <2>1. CASE anew
    <3> HIDE DEF base, used, anew
    <3>1. used.last = [x \in Queues |-> IF x = q THEN n ELSE base.last[x]]
      BY <1>3, <1>4
    <3>2. \A x \in Queues : x # q => base.last[x] = Nowhere
      BY <1>2, <1>3, <2>1
    <3>. QED
      BY <2>1, <3>1, <3>2
  <2>2. CASE ~ anew
    <3>1. base = s
      BY <2>2
    <3>. QED
      BY <1>4, <2>2, <3>1
  <2>. QED
    BY <2>1, <2>2
<1>8. LeftBy(spec) = IF spec.exit = {}
                     THEN [stages |-> spec.stages, writes |-> spec.writes, layout |-> spec.layout]
                     ELSE e
  BY DEF LeftBy
<1> HIDE DEF used, left, base, anew, e
<1>7. LET t == After(s, r, q, n, spec)
      IN  /\ IsTracked(t)
          /\ t.owner = q
          /\ t.last = used.last
          /\ t.lastWrite = IF anew THEN n ELSE s.lastWrite
          /\ t.writer = IF anew \/ spec.exit # {} THEN q ELSE s.writer
          /\ t.layout = LeftBy(spec).layout
          /\ t.real = IF anew \/ spec.exit # {} THEN LeftBy(spec).writes ELSE s.real
          /\ t.entryHasWork = s.entryHasWork
  <2>1. CASE spec.exit = {}
    BY <1>1, <1>3, <1>4, <1>8, <2>1 DEF IsTracked
  <2>2. CASE spec.exit # {}
    BY <1>1, <1>3, <1>4, <1>5, <1>8, <2>2 DEF IsTracked
  <2>. QED
    BY <2>1, <2>2
<1>. QED
  BY <1>6, <1>7 DEF anew

(* What holds while nodes are tracked: how far it has come, what the tracker *)
(* knows of the last use of a resource, and what has been recorded for each  *)
(* node that was tracked.                                                    *)
TrackerShape ==
  /\ DOMAIN tracked = Slots(graph)
  /\ dedicated \in BOOLEAN /\ (dedicated => async)
  /\ step \in {"declared", "resolved", "tracked", "planned"}
  /\ step = "declared" => at = 1
  /\ step = "resolved" => at \in 1 .. Epilogue /\ (at # 1 => Scheduled = live)
  /\ step \in {"tracked", "planned"} => at = Epilogue + 1 /\ Scheduled = live

TrackedNodes(s) ==
  /\ IsTracked(s) /\ s.real \in BOOLEAN /\ s.entryHasWork \in BOOLEAN
  /\ s.writer \in Queues \cup {"none"}
  /\ \A q \in Queues : s.last[q] # Nowhere => s.last[q] \in 0 .. at - 1 /\ QueueAt(s.last[q]) = q
  /\ s.writer # "none" => s.lastWrite \in 0 .. at - 1 /\ QueueAt(s.lastWrite) = s.writer
  /\ s.writer = "none" => s.lastWrite = Nowhere

NodesKnown == \A r \in Slots(graph) : TrackedNodes(tracked[r])

Unused(s) == s.writer = "none" /\ s.owner = "none" /\ s.layout = "undefined"

UsedLast(s, a, r) ==
  /\ s.writer \in Queues
  /\ s.owner = QueueAt(a) /\ s.last[s.owner] = a
  /\ s.layout = Leaves(a, r).layout

TracksUses ==
  \A r \in Slots(graph) :
    /\ Past(r) = {} => Unused(tracked[r])
    /\ \A a \in Past(r) : (\A x \in Past(r) : x <= a) => UsedLast(tracked[r], a, r)

EdgesForward ==
  \A e \in edges : /\ e[1] \in Nat /\ e[2] \in Nat /\ e[1] < e[2] /\ e[2] < at
                   /\ QueueAt(e[1]) # QueueAt(e[2])

RecordsKnown ==
  /\ \A x \in barriers : x.resource \in Resources /\ x.node \in 0 .. at - 1
  /\ \A x \in transfers : /\ x.resource \in Resources
                          /\ x.release \in 0 .. at - 1 /\ x.acquire \in 0 .. at - 1

Moved(a, b, r) ==
  /\ [resource |-> r, from |-> QueueAt(a), to |-> QueueAt(b), release |-> a, acquire |-> b]
       \in transfers
  /\ << a, b >> \in edges

MovesRecorded ==
  dedicated =>
    \A r \in Slots(graph) \ (Concurrent \cup Tokens) : \A a, b \in Past(r) :
      Follows(a, b, r) /\ QueueAt(a) # QueueAt(b) /\ ~ SpecAt(b, r).discard => Moved(a, b, r)

LedFrom(found, n, r) ==
  \/ found = SpecAt(n, r).layout
  \/ \E x \in transfers : x.resource = r /\ x.acquire = n
  \/ \E x \in barriers : /\ x.resource = r /\ x.node = n
                         /\ x.old \in {found, "undefined"}
                         /\ x.old # found => SpecAt(n, r).discard

LayoutsFound ==
  \A r \in Slots(graph) \cap Images : \A n \in Past(r) \ {Prologue} :
    /\ (\A x \in Users(r) : ~ (x < n)) => LedFrom("undefined", n, r)
    /\ \A a \in Past(r) : Follows(a, n, r) => LedFrom(Leaves(a, r).layout, n, r)

Batched ==
  step = "planned" =>
    /\ batchOf = [n \in Nodes |-> BatchOf(n)]
    /\ waits = [b \in { BatchOf(n) : n \in Nodes } |-> WaitOf(b)]

TrackerInv ==
  NodesKnown /\ TracksUses /\ EdgesForward /\ RecordsKnown /\ MovesRecorded /\ LayoutsFound

CompilerInv == ScheduleInv /\ TrackerShape /\ TrackerInv /\ Batched

-----------------------------------------------------------------------------
(* Nodes and their uses. *)

LEMMA NodeShape ==
  ASSUME PassesOK
  PROVE  /\ Len(order) \in Nat /\ DOMAIN order = 1 .. Len(order)
         /\ \A n \in DOMAIN order : order[n] \in live /\ order[n] \in Passes(graph)
         /\ Epilogue \in Nat /\ Epilogue = Len(order) + 1 /\ Nodes = 0 .. Epilogue
         /\ \A n \in Nodes : n = Prologue \/ n \in DOMAIN order \/ n = Epilogue
         /\ Prologue = 0 /\ Epilogue \notin DOMAIN order
<1>1. order \in Seq(live) /\ live \subseteq Passes(graph)
  BY DEF PassesOK
<1>2. /\ Len(order) \in Nat /\ DOMAIN order = 1 .. Len(order)
      /\ \A n \in DOMAIN order : order[n] \in live
  BY <1>1
<1>. QED
  BY <1>1, <1>2 DEF Nodes, Prologue, Epilogue

(* The schedule is no longer than what was declared. *)
LEMMA OrderFits ==
  ASSUME PassesOK
  PROVE  Len(order) <= Len(graph)
<1>1. /\ Len(order) \in Nat /\ DOMAIN order = 1 .. Len(order)
      /\ \A n \in DOMAIN order : order[n] \in 1 .. Len(graph)
      /\ Len(graph) \in Nat
  BY NodeShape, GraphShape DEF PassesOK
<1>2. order \in [1 .. Len(order) -> 1 .. Len(graph)]
  <2>1. order \in Seq(live)
    BY DEF PassesOK
  <2>. QED
    BY <1>1, <2>1
<1>3. order \in Injection(1 .. Len(order), 1 .. Len(graph))
  BY <1>1, <1>2 DEF PassesOK, Injection, IsInjective
<1>4. /\ IsFiniteSet(1 .. Len(graph)) /\ Cardinality(1 .. Len(graph)) = Len(graph)
      /\ Cardinality(1 .. Len(order)) = Len(order)
  <2>1. \A k \in Nat : IsFiniteSet(1 .. k) /\ Cardinality(1 .. k) = k
    <3>1. \A k \in Nat : IsFiniteSet(1 .. k) /\ Cardinality(1 .. k) = IF 1 > k THEN 0 ELSE k - 1 + 1
      BY FS_Interval
    <3>. QED
      BY <3>1
  <2>. QED
    BY <1>1, <2>1
<1>. QED
  BY <1>3, <1>4, FS_Injection

LEMMA UsersAre ==
  ASSUME PassesOK, NEW r, NEW n
  PROVE  n \in Users(r) <=> /\ n \in Nodes
                            /\ IF n = Prologue THEN r \in Imports ELSE r \in UsedAt(n)
  BY DEF Users

LEMMA UsesAreSlots ==
  ASSUME PassesOK, NEW n \in Nodes, n # Prologue
  PROVE  UsedAt(n) \subseteq Slots(graph)
  BY NodeShape DEF UsedAt, Slots, Imports

LEMMA QueuesOfNodes ==
  ASSUME PassesOK, step # "declared", NEW n
  PROVE  QueueAt(n) \in Queues /\ QueueAt(Prologue) = "graphics" /\ QueueAt(Epilogue) = "graphics"
<1>1. queue \in [Passes(graph) -> Queues]
  BY DEF PassesOK
<1>. QED
  BY <1>1, NodeShape DEF QueueAt, Queues

(* The plan's nodes do not change while they are tracked. *)
LEMMA SamePlan ==
  ASSUME UNCHANGED << graph, order, queue >>
  PROVE  /\ Epilogue' = Epilogue /\ Nodes' = Nodes
         /\ \A n : QueueAt(n)' = QueueAt(n) /\ UsedAt(n)' = UsedAt(n)
         /\ \A r : Users(r)' = Users(r)
         /\ \A a, b, r : Follows(a, b, r)' = Follows(a, b, r)
         /\ \A r : \A n \in DOMAIN order : SpecAt(n, r)' = SpecAt(n, r)
         /\ \A r : \A n \in DOMAIN order \cup {Prologue} : Leaves(n, r)' = Leaves(n, r)
<1>1. Epilogue' = Epilogue /\ Nodes' = Nodes /\ Imports' = Imports
  BY DEF Epilogue, Nodes, Imports, Slots, Uses, Passes
<1>2. \A n : QueueAt(n)' = QueueAt(n) /\ UsedAt(n)' = UsedAt(n)
  BY <1>1 DEF QueueAt, UsedAt, Uses
<1>3. \A r : Users(r)' = Users(r)
  BY <1>1, <1>2 DEF Users
<1>4. \A a, b, r : Follows(a, b, r)' = Follows(a, b, r)
  BY <1>3 DEF Follows
<1>5. \A r : \A n \in DOMAIN order : SpecAt(n, r)' = SpecAt(n, r)
  BY DEF SpecAt
<1>6. \A r : \A n \in DOMAIN order \cup {Prologue} : Leaves(n, r)' = Leaves(n, r)
  <2> SUFFICES ASSUME NEW n \in DOMAIN order \cup {Prologue}, NEW r
               PROVE  Leaves(n, r)' = Leaves(n, r)
    OBVIOUS
  <2>. QED
    BY <1>5 DEF Leaves, Prologue
<1>. QED
  BY <1>1, <1>2, <1>3, <1>4, <1>5, <1>6

(* What is known of an access. *)
LEMMA SpecsAre ==
  ASSUME PassesOK, NEW n \in Nodes, n # Prologue, NEW r \in UsedAt(n)
  PROVE  LET spec == SpecAt(n, r)
         IN  /\ spec.writes \in BOOLEAN /\ spec.discard \in BOOLEAN
             /\ spec.discard \/ spec.exit # {} => spec.writes
             /\ LeftBy(spec).writes \in BOOLEAN
<1>1. CASE n \in DOMAIN order
  <2>1. /\ SpecAt(n, r) = graph[order[n]].accesses[r] /\ r \in Uses(graph, order[n])
        /\ order[n] \in Passes(graph) /\ graph \in Graphs
    BY <1>1, NodeShape DEF SpecAt, UsedAt, PassesOK
  <2>2. IsSpec(SpecAt(n, r))
    BY <2>1, CompilerAssumption
  <2>3. PICK spec : spec = SpecAt(n, r)
    OBVIOUS
  <2>4. LeftBy(spec).writes \in BOOLEAN
    <3>1. CASE spec.exit = {}
      BY <2>2, <2>3, <3>1 DEF LeftBy, IsSpec
    <3>2. CASE spec.exit # {}
      <4>1. (CHOOSE e \in spec.exit : TRUE) \in spec.exit
        BY <3>2
      <4>. QED
        BY <2>2, <2>3, <3>2, <4>1 DEF LeftBy, IsSpec
    <3>. QED
      BY <3>1, <3>2
  <2>. QED
    BY <2>2, <2>3, <2>4 DEF IsSpec
<1>2. CASE n = Epilogue
  <2>1. SpecAt(n, r) = ExitSpec(r)
    BY <1>2, NodeShape DEF SpecAt
  <2>2. /\ ExitSpec(r).writes = FALSE /\ ExitSpec(r).discard = FALSE /\ ExitSpec(r).exit = {}
    BY DEF ExitSpec
  <2>. QED
    BY <2>1, <2>2 DEF LeftBy
<1>. QED
  BY <1>1, <1>2, NodeShape

(* The first to use a transient writes it: if what it was declared to find   *)
(* was not culled, it would have run before.                                 *)
LEMMA FirstUseWrites ==
  ASSUME ScheduleInv, step # "declared", at \in Nodes, at # Prologue,
         NEW r \in UsedAt(at), Past(r) = {}
  PROVE  SpecAt(at, r).writes
<1>1. PassesOK
  BY DEF ScheduleInv
<1>2. r \notin Imports
  <2>1. r \in Imports => Prologue \in Users(r)
    BY <1>1, NodeShape, UsersAre
  <2>2. Prologue < at
    BY <1>1, NodeShape
  <2>. QED
    BY <2>1, <2>2 DEF Past
<1>3. at \in DOMAIN order
  BY <1>1, <1>2, NodeShape DEF UsedAt
<1> DEFINE p == order[at]
<1>4. /\ p \in live /\ p \in Passes(graph) /\ r \in Uses(graph, p) /\ graph \in Graphs
      /\ SpecAt(at, r) = graph[p].accesses[r] /\ Passes(graph) = 1 .. Len(graph)
      /\ Len(graph) \in Nat /\ live \subseteq Passes(graph)
  BY <1>1, <1>3, NodeShape, GraphShape DEF UsedAt, SpecAt, PassesOK
<1>5. r \notin Imported
  BY <1>2, <1>4 DEF Imports, Slots
<1> HIDE DEF p
<1>6. SUFFICES ASSUME ~ graph[p].accesses[r].writes PROVE FALSE
  BY <1>4
<1>7. ~ graph[p].accesses[r].discard
  <2>1. IsSpec(graph[p].accesses[r])
    BY <1>4, CompilerAssumption
  <2>. QED
    BY <1>6, <2>1 DEF IsSpec
<1>8. WrittenBefore(graph, p, r)
  <2>1. Declared(graph)
    BY <1>4, GraphsAssumption
  <2>. QED
    BY <1>4, <1>6, <2>1 DEF Declared
<1> DEFINE Writers == { q \in 1 .. p - 1 : Writes(graph, q, r) }
<1>9. Writers \in SUBSET (0 .. Len(graph)) /\ Writers # {}
  <2>1. \A q \in 1 .. p - 1 : q \in 0 .. Len(graph)
    BY <1>4
  <2>. QED
    BY <1>5, <1>8, <2>1 DEF WrittenBefore
<1>10. PICK q \in Writers : \A k \in Writers : k <= q
  <2> HIDE DEF Writers
  <2>. QED
    BY <1>4, <1>9, GreatestOf
<1>11. q \in 1 .. p - 1 /\ Writes(graph, q, r) /\ q \in Passes(graph) /\ q < p
  BY <1>4, <1>10
<1>12. \A x \in q + 1 .. p - 1 : ~ Writes(graph, x, r)
  BY <1>4, <1>10, <1>11
<1>13. Produces(graph, q, p, r)
  BY <1>11, <1>12 DEF Produces
<1>14. q \in live
  <2>1. q \in Needs(graph, p)
    BY <1>4, <1>7, <1>11, <1>13 DEF Needs
  <2>. QED
    BY <1>4, <2>1 DEF ScheduleInv, LiveIsWhole, Marked
<1>15. Conflict(q, p) /\ r \in Uses(graph, q)
  BY <1>4, <1>11 DEF Conflict, Writes
<1>16. PICK i \in 1 .. at - 1 : order[i] = q
  BY <1>3, <1>11, <1>14, <1>15 DEF ScheduleInv, ConflictsFirst, p
<1>17. i \in DOMAIN order /\ i \in Nodes /\ i # Prologue /\ i < at
  BY <1>1, <1>3, <1>16, NodeShape
<1>18. i \in Users(r)
  BY <1>1, <1>15, <1>16, <1>17, UsersAre DEF UsedAt
<1>. QED
  BY <1>17, <1>18 DEF Past

-----------------------------------------------------------------------------
(* Tracker::apply(), for everything that a node uses. *)

Applied ==
  /\ step = "resolved" /\ at \in 1 .. Epilogue
  /\ Apply(at) /\ at' = at + 1
  /\ UNCHANGED << graph, order, queue, live, async, dedicated >>

AppliedFrom == ScheduleInv /\ TrackerShape /\ TrackerInv /\ Applied

LEMMA AppliedNode ==
  ASSUME AppliedFrom
  PROVE  /\ PassesOK /\ at \in Nodes /\ at # Prologue /\ at \in Nat
         /\ UsedAt(at) \subseteq Slots(graph) /\ QueueAt(at) \in Queues
         /\ Slots(graph)' = Slots(graph) /\ Slots(graph) \subseteq Resources
<1>1. PassesOK /\ at \in 1 .. Epilogue /\ step # "declared"
  BY DEF AppliedFrom, ScheduleInv, Applied
<1>2. at \in Nodes /\ at # Prologue /\ at \in Nat
  BY <1>1, NodeShape
<1>3. Slots(graph)' = Slots(graph)
  BY DEF AppliedFrom, Applied
<1>4. Slots(graph) \subseteq Resources
  BY <1>1, GraphsAssumption DEF Slots, PassesOK, IsGraph
<1>. QED
  BY <1>1, <1>2, <1>3, <1>4, UsesAreSlots, QueuesOfNodes

LEMMA AppliedTracked ==
  ASSUME AppliedFrom, NEW r \in Slots(graph)
  PROVE  /\ r \notin UsedAt(at) => tracked'[r] = tracked[r]
         /\ r \in UsedAt(at) =>
              tracked'[r] = After(tracked[r], r, QueueAt(at), at, SpecAt(at, r))
  BY DEF AppliedFrom, Applied, Apply, TrackerShape

LEMMA AppliedPast ==
  ASSUME AppliedFrom, NEW r
  PROVE  /\ Past(r)' = IF r \in UsedAt(at) THEN Past(r) \cup {at} ELSE Past(r)
         /\ \A n \in Past(r) : n \in Nat /\ n < at /\ n \in DOMAIN order \cup {Prologue}
         /\ \A n \in Past(r) : n \in Users(r)
<1>1. PassesOK /\ at \in Nodes /\ at # Prologue /\ at \in Nat
  BY AppliedNode
<1>2. at' = at + 1 /\ Users(r)' = Users(r)
  BY SamePlan DEF AppliedFrom, Applied
<1>3. \A n \in Users(r) : n \in Nodes /\ n \in Nat
  BY <1>1, UsersAre, NodeShape
<1>4. at \in Users(r) <=> r \in UsedAt(at)
  BY <1>1, UsersAre
<1>5. Past(r)' = { n \in Users(r) : n < at + 1 }
  BY <1>2 DEF Past
<1>6. \A n \in Users(r) : n < at + 1 <=> n < at \/ n = at
  BY <1>1, <1>3
<1>7. \A n \in Past(r) : n \in Nat /\ n < at /\ n \in Nodes /\ n \in Users(r)
  BY <1>3 DEF Past
<1>8. \A n \in Past(r) : n \in DOMAIN order \cup {Prologue}
  BY <1>1, <1>7, NodeShape
<1>. QED
  BY <1>4, <1>5, <1>6, <1>7, <1>8 DEF Past

LEMMA AppliedAfter ==
  ASSUME AppliedFrom, NEW r \in UsedAt(at)
  PROVE  LET s == tracked[r]
             t == tracked'[r]
             q == QueueAt(at)
             spec == SpecAt(at, r)
             anew == Modifies(s, r, spec) \/ NeedsTransfer(s, r, q, spec)
         IN  /\ TrackedNodes(s) /\ IsTracked(t)
             /\ t.owner = q
             /\ t.last = IF anew THEN [x \in Queues |-> IF x = q THEN at ELSE Nowhere]
                         ELSE [s.last EXCEPT ![q] = at]
             /\ t.lastWrite = IF anew THEN at ELSE s.lastWrite
             /\ t.writer = IF anew \/ spec.exit # {} THEN q ELSE s.writer
             /\ t.layout = LeftBy(spec).layout
             /\ t.real = IF anew \/ spec.exit # {} THEN LeftBy(spec).writes ELSE s.real
             /\ t.entryHasWork = s.entryHasWork
<1>1. r \in Slots(graph) /\ QueueAt(at) \in Queues
  BY AppliedNode
<1>2. TrackedNodes(tracked[r])
  BY <1>1 DEF AppliedFrom, TrackerInv, NodesKnown
<1>3. PICK s : s = tracked[r]
  OBVIOUS
<1>4. PICK q \in Queues : q = QueueAt(at)
  BY <1>1
<1>5. PICK spec : spec = SpecAt(at, r)
  OBVIOUS
<1>6. PICK n : n = at
  OBVIOUS
<1>7. tracked'[r] = After(s, r, q, n, spec)
  BY <1>1, <1>3, <1>4, <1>5, <1>6, AppliedTracked
<1>8. IsTracked(s)
  BY <1>2, <1>3 DEF TrackedNodes
<1>. QED
  BY <1>2, <1>3, <1>4, <1>5, <1>6, <1>7, <1>8, AfterFacts

(* What was read from an access is still there: that an exit layout is left  *)
(* as it is depends on the tracker, but it has just been set.                *)
LEMMA AppliedSpec ==
  ASSUME AppliedFrom, NEW r \in Slots(graph), NEW n \in Past(r)'
  PROVE  (n # Prologue => SpecAt(n, r)' = SpecAt(n, r)) /\ Leaves(n, r)' = Leaves(n, r)
<1>1. PassesOK /\ at \in Nodes /\ at # Prologue /\ at \in Nat
  BY AppliedNode
<1>2. UNCHANGED << graph, order, queue >>
  BY DEF AppliedFrom, Applied
<1>3. CASE n \in DOMAIN order \cup {Prologue}
  BY <1>2, <1>3, SamePlan
<1>4. CASE n \notin DOMAIN order \cup {Prologue}
  <2>1. n = at /\ r \in UsedAt(at)
    BY <1>4, AppliedPast
  <2>2. n = Epilogue /\ n # Prologue
    BY <1>1, <1>4, <2>1, NodeShape
  <2>3. SpecAt(n, r) = ExitSpec(r) /\ SpecAt(n, r)' = ExitSpec(r)'
    BY <1>2, <1>4, <2>2 DEF SpecAt
  <2>5. tracked'[r].layout = LeftBy(SpecAt(at, r)).layout
    BY <2>1, AppliedAfter
  <2>6. LeftBy(SpecAt(at, r)).layout = ExitSpec(r).layout
    <3>1. ExitSpec(r).exit = {}
      BY DEF ExitSpec
    <3>. QED
      BY <2>1, <2>3, <3>1 DEF LeftBy
  <2>7. ExitSpec(r)' = ExitSpec(r)
    <3>1. ExitSpec(r).layout =
            IF Exit[r].layout = "undefined" THEN tracked[r].layout ELSE Exit[r].layout
      BY DEF ExitSpec
    <3>2. Exit[r].layout = "undefined" => tracked'[r].layout = tracked[r].layout
      BY <2>5, <2>6, <3>1
    <3>. QED
      BY <3>2 DEF ExitSpec
  <2>. QED
    BY <2>2, <2>3, <2>7 DEF Leaves
<1>. QED
  BY <1>3, <1>4

LEMMA AppliedKnown == ASSUME AppliedFrom PROVE NodesKnown'
<1>1. /\ PassesOK /\ at \in Nat /\ at # Prologue /\ QueueAt(at) \in Queues /\ at' = at + 1
      /\ Slots(graph)' = Slots(graph) /\ at \in Nodes
  BY AppliedNode DEF AppliedFrom, Applied
<1>2. \A n : QueueAt(n)' = QueueAt(n)
  BY SamePlan DEF AppliedFrom, Applied
<1> SUFFICES ASSUME NEW r \in Slots(graph) PROVE TrackedNodes(tracked[r])'
  BY <1>1 DEF NodesKnown
<1>3. PICK s : s = tracked[r]
  OBVIOUS
<1>4. PICK t : t = tracked'[r]
  OBVIOUS
<1>5. TrackedNodes(s)
  BY <1>3 DEF AppliedFrom, TrackerInv, NodesKnown
<1>6. /\ IsTracked(s) /\ s.real \in BOOLEAN /\ s.entryHasWork \in BOOLEAN
      /\ s.writer \in Queues \cup {"none"}
      /\ \A x \in Queues : s.last[x] # Nowhere => s.last[x] \in 0 .. at - 1 /\ QueueAt(s.last[x]) = x
      /\ s.writer # "none" => s.lastWrite \in 0 .. at - 1 /\ QueueAt(s.lastWrite) = s.writer
      /\ s.writer = "none" => s.lastWrite = Nowhere
  BY <1>5 DEF TrackedNodes
<1> DEFINE Good == /\ IsTracked(t) /\ t.real \in BOOLEAN /\ t.entryHasWork \in BOOLEAN
                   /\ t.writer \in Queues \cup {"none"}
                   /\ \A x \in Queues : t.last[x] # Nowhere => /\ t.last[x] \in 0 .. at
                                                              /\ QueueAt(t.last[x]) = x
                   /\ t.writer # "none" => t.lastWrite \in 0 .. at /\ QueueAt(t.lastWrite) = t.writer
                   /\ t.writer = "none" => t.lastWrite = Nowhere
<1>7. SUFFICES Good
  BY <1>1, <1>2, <1>4 DEF TrackedNodes
<1>8. CASE r \notin UsedAt(at)
  <2>1. t = s
    BY <1>3, <1>4, <1>8, AppliedTracked
  <2>. QED
    BY <1>1, <1>6, <2>1
<1>9. CASE r \in UsedAt(at)
  <2>1. PICK spec : spec = SpecAt(at, r)
    OBVIOUS
  <2>2. PICK q \in Queues : q = QueueAt(at)
    BY <1>1
  <2>3. PICK anew \in BOOLEAN : anew <=> Modifies(s, r, spec) \/ NeedsTransfer(s, r, q, spec)
    <3>1. (Modifies(s, r, spec) \/ NeedsTransfer(s, r, q, spec)) \in BOOLEAN
      BY DEF Modifies, NeedsTransfer, ChangesLayout
    <3>. QED
      BY <3>1
  <2>4. /\ IsTracked(t)
        /\ t.last = IF anew THEN [x \in Queues |-> IF x = q THEN at ELSE Nowhere]
                    ELSE [s.last EXCEPT ![q] = at]
        /\ t.lastWrite = IF anew THEN at ELSE s.lastWrite
        /\ t.writer = IF anew \/ spec.exit # {} THEN q ELSE s.writer
        /\ t.real = IF anew \/ spec.exit # {} THEN LeftBy(spec).writes ELSE s.real
        /\ t.entryHasWork = s.entryHasWork
    BY <1>3, <1>4, <1>9, <2>1, <2>2, <2>3, AppliedAfter
  <2>5. /\ spec.exit # {} => spec.writes
        /\ LeftBy(spec).writes \in BOOLEAN
    BY <1>1, <1>9, <2>1, SpecsAre
  <2>6. spec.writes => anew
    BY <2>3 DEF Modifies
  <2>7. t.writer = IF anew THEN q ELSE s.writer
    BY <2>4, <2>5, <2>6
  <2>8. \A x \in Queues : t.last[x] = IF x = q THEN at ELSE IF anew THEN Nowhere ELSE s.last[x]
    BY <1>6, <2>4 DEF IsTracked
  <2>9. q # "none"
    BY DEF Queues
  <2>. QED
    BY <1>1, <1>6, <2>2, <2>4, <2>5, <2>7, <2>8, <2>9
<1>. QED
  BY <1>8, <1>9

LEMMA AppliedUses == ASSUME AppliedFrom PROVE TracksUses'
<1>1. /\ PassesOK /\ at \in Nat /\ at # Prologue /\ QueueAt(at) \in Queues /\ at \in Nodes
      /\ Slots(graph)' = Slots(graph)
  BY AppliedNode
<1>2. \A n : QueueAt(n)' = QueueAt(n)
  BY SamePlan DEF AppliedFrom, Applied
<1> SUFFICES ASSUME NEW r \in Slots(graph)
             PROVE  /\ Past(r)' = {} => Unused(tracked'[r])
                    /\ \A a \in Past(r)' : (\A x \in Past(r)' : x <= a) => UsedLast(tracked[r], a, r)'
  BY <1>1 DEF TracksUses, Unused
<1>3. /\ Past(r) = {} => Unused(tracked[r])
      /\ \A a \in Past(r) : (\A x \in Past(r) : x <= a) => UsedLast(tracked[r], a, r)
  BY DEF AppliedFrom, TrackerInv, TracksUses
<1>4. CASE r \notin UsedAt(at)
  <2>1. tracked'[r] = tracked[r] /\ Past(r)' = Past(r)
    BY <1>4, AppliedTracked, AppliedPast
  <2>2. \A a \in Past(r)' : Leaves(a, r)' = Leaves(a, r)
    BY AppliedSpec
  <2>. QED
    BY <1>2, <1>3, <2>1, <2>2 DEF UsedLast
<1>5. CASE r \in UsedAt(at)
  <2>m. PICK m \in Nat : m = at
    BY <1>1
  <2>1. Past(r)' = Past(r) \cup {m} /\ \A n \in Past(r) : n \in Nat /\ n < m
    BY <1>5, <2>m, AppliedPast
  <2> SUFFICES UsedLast(tracked[r], m, r)'
    <3>1. \A a \in Past(r)' : (\A x \in Past(r)' : x <= a) => a = m
      BY <2>1
    <3>. QED
      BY <2>1, <3>1
  <2>2. PICK s : s = tracked[r]
    OBVIOUS
  <2>3. PICK t : t = tracked'[r]
    OBVIOUS
  <2>4. PICK spec : spec = SpecAt(at, r)
    OBVIOUS
  <2>5. PICK q \in Queues : q = QueueAt(at)
    BY <1>1
  <2>6. PICK anew \in BOOLEAN : anew <=> Modifies(s, r, spec) \/ NeedsTransfer(s, r, q, spec)
    <3>1. (Modifies(s, r, spec) \/ NeedsTransfer(s, r, q, spec)) \in BOOLEAN
      BY DEF Modifies, NeedsTransfer, ChangesLayout
    <3>. QED
      BY <3>1
  <2>7. /\ TrackedNodes(s) /\ t.owner = q
        /\ t.last = IF anew THEN [x \in Queues |-> IF x = q THEN at ELSE Nowhere]
                    ELSE [s.last EXCEPT ![q] = at]
        /\ t.writer = IF anew \/ spec.exit # {} THEN q ELSE s.writer
        /\ t.layout = LeftBy(spec).layout
    BY <1>5, <2>2, <2>3, <2>4, <2>5, <2>6, AppliedAfter
  <2>8. t.last[q] = at
    BY <2>7 DEF TrackedNodes, IsTracked
  <2>9. t.writer \in Queues
    <3>1. CASE Past(r) = {}
      <4>1. step # "declared" /\ ScheduleInv
        BY DEF AppliedFrom, Applied
      <4>2. spec.writes
        BY <1>1, <1>5, <2>4, <3>1, <4>1, FirstUseWrites
      <4>. QED
        BY <2>6, <2>7, <4>2 DEF Modifies
    <3>2. CASE Past(r) # {}
      <4>1. m - 1 \in Nat /\ Past(r) \in SUBSET (0 .. m - 1)
        <5>1. m - 1 \in Nat
          BY <1>1, <2>m DEF Prologue
        <5>2. \A n \in Past(r) : n \in 0 .. m - 1
          BY <2>1
        <5>. QED
          BY <5>1, <5>2
      <4>2. PICK a \in Past(r) : \A x \in Past(r) : x <= a
        BY <3>2, <4>1, GreatestOf
      <4>3. s.writer \in Queues
        BY <1>3, <2>2, <4>2 DEF UsedLast
      <4>. QED
        BY <2>7, <4>3
    <3>. QED
      BY <3>1, <3>2
  <2>10. Leaves(m, r)' = LeftBy(spec)
    <3>1. m \in Past(r)'
      BY <2>1
    <3>2. Leaves(m, r)' = Leaves(m, r)
      BY <3>1, AppliedSpec
    <3>. QED
      BY <1>1, <2>m, <2>4, <3>2 DEF Leaves
  <2>. QED
    BY <1>2, <2>m, <2>3, <2>5, <2>7, <2>8, <2>9, <2>10 DEF UsedLast
<1>. QED
  BY <1>4, <1>5

LEMMA AppliedEdges == ASSUME AppliedFrom PROVE EdgesForward' /\ RecordsKnown'
<1>1. /\ PassesOK /\ at \in Nat /\ at # Prologue /\ QueueAt(at) \in Queues /\ at \in Nodes
      /\ at' = at + 1 /\ UsedAt(at) \subseteq Slots(graph) /\ Slots(graph) \subseteq Resources
  BY AppliedNode DEF AppliedFrom, Applied
<1>2. \A n : QueueAt(n)' = QueueAt(n)
  BY SamePlan DEF AppliedFrom, Applied
<1>3. PICK q \in Queues : q = QueueAt(at)
  BY <1>1
<1>4. EdgesForward /\ RecordsKnown
  BY DEF AppliedFrom, TrackerInv
<1>5. ASSUME NEW r \in UsedAt(at), NEW x \in WaitsOn(tracked[r], r, q, at, SpecAt(at, r))
      PROVE  x \in 0 .. at - 1 /\ QueueAt(x) # q
  <2>1. PICK s : s = tracked[r]
    OBVIOUS
  <2>2. /\ \A y \in Queues : s.last[y] # Nowhere => s.last[y] \in 0 .. at - 1 /\ QueueAt(s.last[y]) = y
        /\ s.writer # "none" => s.lastWrite \in 0 .. at - 1 /\ QueueAt(s.lastWrite) = s.writer
    BY <1>1, <1>5, <2>1 DEF AppliedFrom, TrackerInv, NodesKnown, TrackedNodes
  <2>3. /\ OtherQueue(q) \in Queues /\ OtherQueue(q) # q /\ OtherQueue(q) # "none"
    BY DEF OtherQueue, Queues
  <2>4. x # Nowhere /\ \/ x = s.last[OtherQueue(q)]
                       \/ s.writer = OtherQueue(q) /\ x = s.lastWrite
    BY <1>5, <2>1 DEF WaitsOn
  <2>. QED
    BY <2>2, <2>3, <2>4
<1>6. ASSUME NEW e \in edges'
      PROVE  (/\ e[1] \in Nat /\ e[2] \in Nat /\ e[1] < e[2] /\ e[2] < at
              /\ QueueAt(e[1]) # QueueAt(e[2]))
             \/ (e[2] = at /\ e[1] \in 0 .. at - 1 /\ QueueAt(e[1]) # q)
  <2>1. CASE e \in edges
    BY <1>4, <2>1 DEF EdgesForward
  <2>2. CASE e \notin edges
    <3>1. PICK r \in UsedAt(at) : \E x \in WaitsOn(tracked[r], r, q, at, SpecAt(at, r)) : e = << x, at >>
      BY <1>3, <1>6, <2>2 DEF AppliedFrom, Applied, Apply
    <3>. QED
      BY <1>5, <3>1
  <2>. QED
    BY <2>1, <2>2
<1>7. EdgesForward'
  BY <1>1, <1>2, <1>3, <1>6 DEF EdgesForward
<1>8. ASSUME NEW x \in barriers' PROVE x.resource \in Resources /\ x.node \in 0 .. at
  <2>1. CASE x \in barriers
    BY <1>1, <1>4, <2>1 DEF RecordsKnown
  <2>2. CASE x \notin barriers
    <3>1. PICK r \in UsedAt(at) : x \in BarrierBefore(tracked[r], r, q, at, SpecAt(at, r))
      BY <1>3, <1>8, <2>2 DEF AppliedFrom, Applied, Apply
    <3>2. x.resource = r /\ x.node = at
      BY <3>1 DEF BarrierBefore
    <3>. QED
      BY <1>1, <3>2
  <2>. QED
    BY <2>1, <2>2
<1>9. ASSUME NEW x \in transfers'
      PROVE  x.resource \in Resources /\ x.release \in 0 .. at /\ x.acquire \in 0 .. at
  <2>1. CASE x \in transfers
    BY <1>1, <1>4, <2>1 DEF RecordsKnown
  <2>2. CASE x \notin transfers
    <3>1. PICK r \in UsedAt(at) : x \in Transfer(tracked[r], r, q, at, SpecAt(at, r))
      BY <1>3, <1>9, <2>2 DEF AppliedFrom, Applied, Apply
    <3>2. PICK s : s = tracked[r]
      OBVIOUS
    <3>3. /\ x.resource = r /\ x.acquire = at /\ x.release = s.last[s.owner]
          /\ NeedsTransfer(s, r, q, SpecAt(at, r))
      BY <3>1, <3>2 DEF Transfer
    <3>4. s.last[s.owner] \in 0 .. at - 1
      <4>1. \A a \in Past(r) : (\A y \in Past(r) : y <= a) => UsedLast(s, a, r)
        BY <1>1, <3>2 DEF AppliedFrom, TrackerInv, TracksUses
      <4>2. Past(r) = {} => s.writer = "none"
        BY <1>1, <3>2 DEF AppliedFrom, TrackerInv, TracksUses, Unused
      <4>3. Past(r) # {}
        BY <3>3, <4>2 DEF NeedsTransfer
      <4>4. PICK m \in Nat : m = at - 1
        BY <1>1 DEF Prologue
      <4>5. Past(r) \in SUBSET (0 .. m)
        <5>1. \A n \in Past(r) : n \in 0 .. m
          BY <1>1, <4>4, AppliedPast
        <5>. QED
          BY <5>1
      <4>6. PICK a \in Past(r) : \A y \in Past(r) : y <= a
        BY <4>3, <4>5, GreatestOf
      <4>. QED
        BY <4>1, <4>4, <4>5, <4>6 DEF UsedLast
    <3>. QED
      BY <1>1, <3>3, <3>4
  <2>. QED
    BY <2>1, <2>2
<1>10. RecordsKnown'
  BY <1>1, <1>8, <1>9 DEF RecordsKnown
<1>. QED
  BY <1>7, <1>10

(* A predecessor of the node that is tracked is the last that used the       *)
(* resource.                                                                 *)
LEMMA AppliedFollows ==
  ASSUME AppliedFrom, NEW r, NEW a \in Past(r)', NEW b \in Past(r)', Follows(a, b, r)'
  PROVE  /\ Follows(a, b, r) /\ a \in Past(r)
         /\ b \in Past(r) \/ (b = at /\ r \in UsedAt(at) /\ \A x \in Past(r) : x <= a)
<1>1. at \in Nat
  BY AppliedNode
<1>2. Follows(a, b, r)
  BY SamePlan DEF AppliedFrom, Applied
<1>3. \A n \in Past(r) : n \in Nat /\ n < at /\ n \in Users(r)
  BY AppliedPast
<1>4. b \in Past(r) \/ (b = at /\ r \in UsedAt(at))
  BY AppliedPast
<1>5. a \in Past(r) \/ a = at
  BY AppliedPast
<1>6. a < b /\ \A x \in Users(r) : ~ (a < x /\ x < b)
  BY <1>2 DEF Follows
<1>7. a \in Past(r)
  BY <1>1, <1>3, <1>4, <1>5, <1>6
<1>8. b = at => \A x \in Past(r) : x <= a
  BY <1>1, <1>3, <1>6, <1>7
<1>. QED
  BY <1>2, <1>4, <1>7, <1>8

LEMMA AppliedMoves == ASSUME AppliedFrom PROVE MovesRecorded'
<1>1. /\ PassesOK /\ at \in Nat /\ at # Prologue /\ QueueAt(at) \in Queues /\ at \in Nodes
      /\ Slots(graph)' = Slots(graph) /\ step # "declared" /\ dedicated' = dedicated
  BY AppliedNode DEF AppliedFrom, Applied
<1>2. \A n : QueueAt(n)' = QueueAt(n)
  BY SamePlan DEF AppliedFrom, Applied
<1> SUFFICES ASSUME dedicated, NEW r \in Slots(graph) \ (Concurrent \cup Tokens),
                    NEW a \in Past(r)', NEW b \in Past(r)',
                    Follows(a, b, r)', QueueAt(a)' # QueueAt(b)', ~ SpecAt(b, r)'.discard
             PROVE  Moved(a, b, r)'
  BY <1>1 DEF MovesRecorded
<1>3. /\ transfers \subseteq transfers' /\ edges \subseteq edges' /\ async
  BY DEF AppliedFrom, Applied, Apply, TrackerShape
<1>4. /\ Follows(a, b, r) /\ a \in Past(r)
      /\ b \in Past(r) \/ (b = at /\ r \in UsedAt(at) /\ \A x \in Past(r) : x <= a)
  BY AppliedFollows
<1>5. b # Prologue
  BY <1>4, AppliedPast DEF Follows, Prologue
<1>6. SpecAt(b, r)' = SpecAt(b, r)
  BY <1>5, AppliedSpec
<1>7. CASE b \in Past(r)
  <2>1. Moved(a, b, r)
    BY <1>2, <1>4, <1>6, <1>7 DEF AppliedFrom, TrackerInv, MovesRecorded
  <2>. QED
    BY <1>2, <1>3, <2>1 DEF Moved
<1>8. CASE b \notin Past(r)
  <2>1. b = at /\ r \in UsedAt(at) /\ UsedLast(tracked[r], a, r) /\ a \in Nat /\ a < at
    BY <1>4, <1>8, AppliedPast DEF AppliedFrom, TrackerInv, TracksUses
  <2>2. PICK s : s = tracked[r]
    OBVIOUS
  <2>3. PICK spec : spec = SpecAt(at, r)
    OBVIOUS
  <2>4. PICK q \in Queues : q = QueueAt(at)
    BY <1>1
  <2>5. PICK o \in Queues : o = QueueAt(a)
    BY <1>1, QueuesOfNodes
  <2>6. o # q /\ OtherQueue(q) = o
    BY <1>2, <2>1, <2>4, <2>5 DEF OtherQueue, Queues
  <2>7. s.writer \in Queues /\ s.owner = o /\ s.last[o] = a
    BY <2>1, <2>2, <2>5 DEF UsedLast
  <2>8. ~ spec.discard
    BY <1>6, <2>1, <2>3
  <2>9. NeedsTransfer(s, r, q, spec)
    BY <1>3, <2>6, <2>7, <2>8 DEF NeedsTransfer, Queues
  <2>10. [resource |-> r, from |-> o, to |-> q, release |-> a, acquire |-> at]
           \in Transfer(s, r, q, at, spec)
    BY <2>7, <2>9 DEF Transfer
  <2>11. a \in WaitsOn(s, r, q, at, spec)
    <3>1. a # Nowhere /\ a # at
      BY <1>1, <2>1 DEF Nowhere
    <3>. QED
      BY <1>3, <2>6, <2>7, <2>9, <3>1 DEF WaitsOn
  <2>12. Transfer(s, r, q, at, spec) \subseteq transfers'
    BY <2>1, <2>2, <2>3, <2>4 DEF AppliedFrom, Applied, Apply
  <2>13. << a, at >> \in edges'
    BY <2>1, <2>2, <2>3, <2>4, <2>11 DEF AppliedFrom, Applied, Apply
  <2>. QED
    BY <1>2, <2>1, <2>4, <2>5, <2>10, <2>12, <2>13 DEF Moved
<1>. QED
  BY <1>7, <1>8

(* A node's barrier or transfer leads an image from the layout the tracker    *)
(* has it in to the one the node asks for.                                   *)
LEMMA AppliedLeads ==
  ASSUME AppliedFrom, NEW r \in UsedAt(at) \cap Images, NEW m, m = at,
         NEW found, found = tracked[r].layout
  PROVE  LedFrom(found, m, r)'
<1>1. /\ at \in Nat /\ at # Prologue /\ QueueAt(at) \in Queues
  BY AppliedNode
<1>2. PICK s : s = tracked[r]
  OBVIOUS
<1>3. PICK spec : spec = SpecAt(m, r)
  OBVIOUS
<1>4. PICK q \in Queues : q = QueueAt(at)
  BY <1>1
<1>5. SpecAt(m, r)' = spec
  <2>1. r \in Slots(graph) /\ m \in Past(r)'
    BY AppliedNode, AppliedPast
  <2>. QED
    BY <1>1, <1>3, <2>1, AppliedSpec
<1>6. /\ Transfer(s, r, q, m, spec) \subseteq transfers'
      /\ BarrierBefore(s, r, q, m, spec) \subseteq barriers'
  BY <1>2, <1>3, <1>4 DEF AppliedFrom, Applied, Apply
<1>7. CASE s.layout = spec.layout
  BY <1>2, <1>5, <1>7 DEF LedFrom
<1>8. CASE NeedsTransfer(s, r, q, spec)
  <2>1. \E x \in Transfer(s, r, q, m, spec) : x.resource = r /\ x.acquire = m
    BY <1>8 DEF Transfer
  <2>. QED
    BY <1>6, <2>1 DEF LedFrom
<1>9. CASE s.layout # spec.layout /\ ~ NeedsTransfer(s, r, q, spec)
  <2>1. ChangesLayout(s, r, spec)
    BY <1>9 DEF ChangesLayout
  <2>2. \E x \in BarrierBefore(s, r, q, m, spec) :
          /\ x.resource = r /\ x.node = m
          /\ x.old = IF spec.discard THEN "undefined" ELSE s.layout
    BY <1>9, <2>1 DEF BarrierBefore
  <2>3. PICK x \in barriers' : /\ x.resource = r /\ x.node = m
                               /\ x.old = IF spec.discard THEN "undefined" ELSE s.layout
    BY <1>6, <2>2
  <2>4. x.old \in {found, "undefined"} /\ (x.old # found => spec.discard)
    BY <1>2, <2>3
  <2>. QED
    BY <1>5, <2>3, <2>4 DEF LedFrom
<1>. QED
  BY <1>7, <1>8, <1>9

(* What leads to a node that was tracked before is kept. *)
LEMMA AppliedKeepsLeads ==
  ASSUME AppliedFrom, NEW r \in Slots(graph), NEW n \in Past(r)', n # Prologue,
         NEW found, LedFrom(found, n, r)
  PROVE  LedFrom(found, n, r)'
<1>1. SpecAt(n, r)' = SpecAt(n, r)
  BY AppliedSpec
<1>2. transfers \subseteq transfers' /\ barriers \subseteq barriers'
  BY DEF AppliedFrom, Applied, Apply
<1>. QED
  BY <1>1, <1>2 DEF LedFrom

LEMMA AppliedLayouts == ASSUME AppliedFrom PROVE LayoutsFound'
<1>1. /\ PassesOK /\ at \in Nat /\ at # Prologue /\ QueueAt(at) \in Queues /\ at \in Nodes
      /\ Slots(graph)' = Slots(graph)
  BY AppliedNode
<1>2. \A r : Users(r)' = Users(r)
  BY SamePlan DEF AppliedFrom, Applied
<1> SUFFICES ASSUME NEW r \in Slots(graph) \cap Images, NEW n \in Past(r)' \ {Prologue}
             PROVE  /\ (\A x \in Users(r) : ~ (x < n)) => LedFrom("undefined", n, r)'
                    /\ \A a \in Past(r)' : Follows(a, n, r)' => LedFrom(Leaves(a, r).layout, n, r)'
  BY <1>1, <1>2 DEF LayoutsFound, Prologue
<1>3. CASE n \in Past(r)
  <2>1. /\ (\A x \in Users(r) : ~ (x < n)) => LedFrom("undefined", n, r)
        /\ \A a \in Past(r) : Follows(a, n, r) => LedFrom(Leaves(a, r).layout, n, r)
    BY <1>3 DEF AppliedFrom, TrackerInv, LayoutsFound
  <2>2. \A a \in Past(r)' : Follows(a, n, r)' =>
          a \in Past(r) /\ Follows(a, n, r) /\ Leaves(a, r)' = Leaves(a, r)
    BY AppliedFollows, AppliedSpec
  <2>3. (\A x \in Users(r) : ~ (x < n)) => LedFrom("undefined", n, r)'
    BY <2>1, AppliedKeepsLeads
  <2>4. ASSUME NEW a \in Past(r)', Follows(a, n, r)' PROVE LedFrom(Leaves(a, r).layout, n, r)'
    <3>1. PICK found : found = Leaves(a, r).layout
      OBVIOUS
    <3>2. LedFrom(found, n, r) /\ Leaves(a, r)' = Leaves(a, r)
      BY <2>1, <2>2, <2>4, <3>1
    <3>3. LedFrom(found, n, r)'
      BY <3>2, AppliedKeepsLeads
    <3>. QED
      BY <3>1, <3>2, <3>3 DEF LedFrom
  <2>. QED
    BY <2>3, <2>4
<1>4. CASE n \notin Past(r)
  <2>1. n = at /\ r \in UsedAt(at) \cap Images
    BY <1>4, AppliedPast
  <2>2. PICK found : found = tracked[r].layout
    OBVIOUS
  <2>3. LedFrom(found, n, r)'
    BY <2>1, <2>2, AppliedLeads
  <2>4. (\A x \in Users(r) : ~ (x < n)) => found = "undefined"
    <3>1. (\A x \in Users(r) : ~ (x < n)) => Past(r) = {}
      BY <2>1 DEF Past
    <3>. QED
      BY <2>2, <3>1 DEF AppliedFrom, TrackerInv, TracksUses, Unused
  <2>5. ASSUME NEW a \in Past(r)', Follows(a, n, r)' PROVE LedFrom(Leaves(a, r).layout, n, r)'
    <3>1. a \in Past(r) /\ \A x \in Past(r) : x <= a
      BY <1>4, <2>5, AppliedFollows
    <3>2. UsedLast(tracked[r], a, r)
      BY <3>1 DEF AppliedFrom, TrackerInv, TracksUses
    <3>3. Leaves(a, r)'.layout = found
      BY <2>2, <3>2, AppliedSpec DEF UsedLast
    <3>. QED
      BY <2>3, <3>3 DEF LedFrom
  <2>. QED
    BY <2>3, <2>4, <2>5
<1>. QED
  BY <1>3, <1>4

-----------------------------------------------------------------------------
(* Before the first node is tracked, only the prologue has used anything.    *)

EarlyUses ==
  /\ QueueAt(Prologue) = "graphics"
  /\ \A r : Past(r) = IF r \in Imports THEN {Prologue} ELSE {}
  /\ \A r : Leaves(Prologue, r) = Entry[r]

LEMMA EarlyPast == PassesOK /\ at = 1 => EarlyUses
<1> SUFFICES ASSUME PassesOK, at = 1 PROVE EarlyUses
  OBVIOUS
<1>1. QueueAt(Prologue) = "graphics" /\ \A r : Leaves(Prologue, r) = Entry[r]
  BY NodeShape DEF QueueAt, Leaves
<1>2. ASSUME NEW r PROVE Past(r) = IF r \in Imports THEN {Prologue} ELSE {}
  <2>1. \A n : n \in Past(r) <=> n \in Users(r) /\ n < 1
    BY DEF Past
  <2>2. \A n : n \in Users(r) /\ n < 1 => n = Prologue
    BY NodeShape, UsersAre
  <2>3. Prologue \in Users(r) <=> r \in Imports
    BY NodeShape, UsersAre
  <2>4. Prologue < 1
    BY DEF Prologue
  <2>5. \A n : n \in Past(r) <=> n = Prologue /\ r \in Imports
    BY <2>1, <2>2, <2>3, <2>4
  <2> HIDE DEF Prologue
  <2>. QED
    BY <2>5, Zenon
<1>. QED
  BY <1>1, <1>2 DEF EarlyUses

(* What TrackerInv says while at is 1. *)
LEMMA EarlyInv ==
  ASSUME PassesOK, at = 1, edges = {}, barriers = {}, transfers = {},
         DOMAIN tracked = Slots(graph),
         \A r \in Slots(graph) :
           tracked[r] = IF r \in Imported THEN Arrived(r) ELSE Untouched
  PROVE  TrackerInv
<1>1. EarlyUses
  BY EarlyPast
<1>2. ASSUME NEW r \in Slots(graph) \cap Imported
      PROVE  TrackedNodes(tracked[r]) /\ UsedLast(tracked[r], 0, r)
  <2>1. PICK s : s = tracked[r]
    OBVIOUS
  <2>2. s = Arrived(r)
    BY <2>1
  <2>3. Entry[r].writes \in BOOLEAN
    BY CompilerAssumption
  <2>4. /\ DOMAIN s = Fields /\ s.last = [q \in Queues |-> s.last[q]]
        /\ s.real = Entry[r].writes
        /\ s.entryHasWork = (Entry[r].stages # {})
        /\ s.writer = "graphics" /\ s.owner = "graphics" /\ s.lastWrite = 0
        /\ s.layout = Entry[r].layout
        /\ s.last["graphics"] = 0 /\ \A q \in Queues : q # "graphics" => s.last[q] = Nowhere
    BY <2>2 DEF Arrived, Untouched, Fields, Queues, Prologue
  <2>5. s.entryHasWork \in BOOLEAN
    BY <2>4
  <2>6. QueueAt(0) = "graphics" /\ Leaves(0, r).layout = Entry[r].layout
    BY <1>1 DEF EarlyUses, Prologue
  <2>7. TrackedNodes(s)
    BY <2>3, <2>4, <2>5, <2>6 DEF TrackedNodes, IsTracked, Queues
  <2>. QED
    BY <2>1, <2>4, <2>6, <2>7 DEF UsedLast, Queues
<1>3. ASSUME NEW r \in Slots(graph), r \notin Imported
      PROVE  TrackedNodes(tracked[r]) /\ Unused(tracked[r])
  <2>1. PICK s : s = tracked[r]
    OBVIOUS
  <2>2. s = Untouched
    BY <1>3, <2>1
  <2>3. /\ DOMAIN s = Fields /\ s.last = [q \in Queues |-> s.last[q]] /\ s.real = FALSE
        /\ s.entryHasWork = FALSE /\ s.writer = "none" /\ s.owner = "none"
        /\ s.lastWrite = Nowhere /\ s.layout = "undefined"
        /\ \A q \in Queues : s.last[q] = Nowhere
    BY <2>2 DEF Untouched, Fields
  <2>. QED
    BY <2>1, <2>3 DEF TrackedNodes, IsTracked, Unused
<1>4. NodesKnown
  BY <1>2, <1>3 DEF NodesKnown
<1>5. TracksUses
  <2> SUFFICES ASSUME NEW r \in Slots(graph)
               PROVE  /\ Past(r) = {} => Unused(tracked[r])
                      /\ \A a \in Past(r) : UsedLast(tracked[r], a, r)
    BY DEF TracksUses
  <2>. QED
    BY <1>1, <1>2, <1>3 DEF EarlyUses, Prologue, Imports
<1>6. MovesRecorded
  <2>1. \A r : \A a, b \in Past(r) : ~ (a < b)
    BY <1>1 DEF EarlyUses, Prologue
  <2>. QED
    BY <2>1 DEF MovesRecorded, Follows
<1>7. LayoutsFound
  <2>1. \A r : Past(r) \ {Prologue} = {}
    BY <1>1 DEF EarlyUses
  <2>. QED
    BY <2>1 DEF LayoutsFound
<1>8. EdgesForward /\ RecordsKnown
  BY DEF EdgesForward, RecordsKnown
<1>. QED
  BY <1>4, <1>5, <1>6, <1>7, <1>8 DEF TrackerInv

LEMMA CompilerInitInv == CompilerInit => CompilerInv
<1> SUFFICES ASSUME CompilerInit PROVE CompilerInv
  OBVIOUS
<1>1. ScheduleInv
  BY ScheduleInitInv DEF CompilerInit
<1>2. PassesOK
  BY <1>1 DEF ScheduleInv
<1>3. step = "declared" /\ at = 1
  BY DEF CompilerInit, ScheduleInit
<1>4. TrackerShape
  BY <1>3 DEF CompilerInit, TrackerShape
<1>5. TrackerInv
  BY <1>2, EarlyInv DEF CompilerInit
<1>. QED
  BY <1>1, <1>3, <1>4, <1>5 DEF CompilerInv, Batched

LEMMA ScheduleEndsFirst ==
  ASSUME CompilerInv, Schedule PROVE at = 1 /\ step' \in {"declared", "resolved"}
<1>1. CASE Cull
  BY <1>1 DEF CompilerInv, TrackerShape, Cull
<1>2. CASE Resolve
  BY <1>2 DEF CompilerInv, TrackerShape, Resolve
<1>3. CASE Pick
  <2>1. step = "resolved" /\ step' = step /\ Best # {}
    BY <1>3 DEF Pick
  <2>2. Scheduled # live
    <3>1. SUFFICES ASSUME Scheduled = live PROVE Best = {}
      BY <2>1
    <3>2. live \ Scheduled = {} /\ Candidates = {}
      BY <3>1 DEF Candidates
    <3>3. Earliest({}) = {}
      BY DEF Earliest
    <3>4. \A S \in SUBSET Candidates : S = {}
      BY <3>2
    <3>5. { p \in Candidates : ~ Delayed(p) } \in SUBSET Candidates
      OBVIOUS
    <3>. QED
      BY <3>2, <3>3, <3>4, <3>5 DEF Best
  <2>. QED
    BY <2>1, <2>2 DEF CompilerInv, TrackerShape
<1>. QED
  BY <1>1, <1>2, <1>3 DEF Schedule, ScheduleNext

LEMMA ScheduleCompilerInv == CompilerInv /\ Schedule => CompilerInv'
<1>0. PassesOK /\ at = 1 => EarlyUses
  BY EarlyPast
<1>1. (PassesOK /\ at = 1 => EarlyUses)'
  BY EarlyPast, PTL
<1> SUFFICES ASSUME CompilerInv, Schedule PROVE CompilerInv'
  OBVIOUS
<1>2. at = 1 /\ at' = 1 /\ step' \in {"declared", "resolved"} /\ UNCHANGED << graph, async, trackVars >>
  BY ScheduleEndsFirst DEF Schedule, ScheduleNext, Cull, Resolve, Pick, trackVars
<1>3. ScheduleInv /\ ScheduleInv' /\ PassesOK /\ PassesOK'
  <2>1. ScheduleInv'
    BY ScheduleStepInv DEF CompilerInv, Schedule
  <2>. QED
    BY <2>1 DEF CompilerInv, ScheduleInv
<1>4. EarlyUses /\ EarlyUses'
  BY <1>0, <1>1, <1>2, <1>3
<1>5. \A r : Past(r)' = Past(r) /\ Leaves(Prologue, r)' = Leaves(Prologue, r)
  BY <1>2, <1>4 DEF EarlyUses, Imports
<1>6. /\ QueueAt(0)' = QueueAt(0) /\ Slots(graph)' = Slots(graph)
      /\ \A r : \A a \in Past(r) : a = 0
  BY <1>2, <1>4 DEF EarlyUses, Prologue
<1>7. TrackerShape'
  <2>1. Epilogue' \in Nat \ {0}
    <3>1. order' \in Seq(live')
      BY <1>3 DEF PassesOK
    <3>2. Len(order') \in Nat
      BY <3>1
    <3>. QED
      BY <3>2 DEF Epilogue
  <2>2. 1 \in 1 .. Epilogue'
    BY <2>1
  <2>3. DOMAIN tracked = Slots(graph) /\ dedicated \in BOOLEAN /\ (dedicated => async)
    BY DEF CompilerInv, TrackerShape
  <2>. QED
    BY <1>2, <1>6, <2>2, <2>3 DEF TrackerShape, trackVars
<1>8. TrackerInv'
  <2>1. NodesKnown'
    <3> SUFFICES ASSUME NEW r \in Slots(graph) PROVE TrackedNodes(tracked[r])'
      BY <1>6 DEF NodesKnown
    <3>1. TrackedNodes(tracked[r])
      BY DEF CompilerInv, TrackerInv, NodesKnown
    <3>2. PICK s : s = tracked[r]
      OBVIOUS
    <3>3. tracked'[r] = s
      BY <1>2, <3>2 DEF trackVars
    <3>4. 0 .. at - 1 = {0} /\ 0 .. at' - 1 = {0}
      BY <1>2
    <3>. QED
      BY <1>6, <3>1, <3>2, <3>3, <3>4 DEF TrackedNodes
  <2>2. TracksUses'
    <3> SUFFICES ASSUME NEW r \in Slots(graph)
                 PROVE  /\ Past(r)' = {} => Unused(tracked'[r])
                        /\ \A a \in Past(r)' : (\A x \in Past(r)' : x <= a) => UsedLast(tracked[r], a, r)'
      BY <1>6 DEF TracksUses, Unused
    <3>1. /\ Past(r) = {} => Unused(tracked[r])
          /\ \A a \in Past(r) : (\A x \in Past(r) : x <= a) => UsedLast(tracked[r], a, r)
      BY DEF CompilerInv, TrackerInv, TracksUses
    <3>2. tracked'[r] = tracked[r] /\ Past(r)' = Past(r)
      BY <1>2, <1>5 DEF trackVars
    <3>3. Leaves(0, r)' = Leaves(0, r)
      BY <1>5 DEF Prologue
    <3>. QED
      BY <1>6, <3>1, <3>2, <3>3 DEF UsedLast
  <2>3. EdgesForward'
    <3>1. edges = {}
      <4>1. SUFFICES ASSUME NEW e \in edges PROVE FALSE
        OBVIOUS
      <4>. QED
        BY <1>2 DEF CompilerInv, TrackerInv, EdgesForward
    <3>. QED
      BY <1>2, <3>1 DEF EdgesForward, trackVars
  <2>4. RecordsKnown'
    BY <1>2 DEF CompilerInv, TrackerInv, RecordsKnown, trackVars
  <2>5. MovesRecorded'
    BY <1>2, <1>5, <1>6 DEF MovesRecorded, Follows
  <2>6. LayoutsFound'
    <3>1. \A r : Past(r)' \ {Prologue} = {}
      BY <1>4 DEF EarlyUses
    <3>. QED
      BY <3>1 DEF LayoutsFound, Prologue
  <2>. QED
    BY <2>1, <2>2, <2>3, <2>4, <2>5, <2>6 DEF TrackerInv
<1>9. Batched'
  BY <1>2 DEF Batched
<1>. QED
  BY <1>3, <1>7, <1>8, <1>9 DEF CompilerInv

LEMMA TrackCompilerInv == CompilerInv /\ (Track \/ LeaveImports) => CompilerInv'
<1> SUFFICES ASSUME CompilerInv, Track \/ LeaveImports PROVE CompilerInv'
  OBVIOUS
<1>1. /\ step = "resolved" /\ Scheduled = live /\ at \in DOMAIN order \cup {Epilogue}
      /\ Apply(at) /\ at' = at + 1
      /\ UNCHANGED << graph, order, queue, live, successors, async, overlap, dedicated >>
      /\ IF at = Epilogue THEN step' = "tracked" ELSE step' = "resolved"
  <2>1. PassesOK
    BY DEF CompilerInv, ScheduleInv
  <2>2. Epilogue \notin DOMAIN order
    BY <2>1, NodeShape
  <2>. QED
    BY <2>2 DEF Track, LeaveImports, scheduleVars
<1>2. PassesOK
  BY DEF CompilerInv, ScheduleInv
<1>3. at \in 1 .. Epilogue
  BY <1>1, <1>2, NodeShape
<1>4. AppliedFrom
  BY <1>1, <1>3 DEF AppliedFrom, Applied, CompilerInv
<1>5. TrackerInv'
  BY <1>4, AppliedKnown, AppliedUses, AppliedEdges, AppliedMoves, AppliedLayouts DEF TrackerInv
<1>6. Scheduled' = Scheduled /\ Epilogue' = Epilogue /\ Slots(graph)' = Slots(graph)
  BY <1>1 DEF Scheduled, Epilogue
<1>7. TrackerShape'
  <2>1. DOMAIN tracked' = DOMAIN tracked
    BY <1>1 DEF Apply
  <2>2. DOMAIN tracked = Slots(graph) /\ dedicated \in BOOLEAN /\ (dedicated => async)
    BY DEF CompilerInv, TrackerShape
  <2>3. Epilogue \in Nat
    BY <1>2, NodeShape
  <2>4. at # Epilogue => at + 1 \in 1 .. Epilogue
    BY <1>3, <2>3
  <2>. QED
    BY <1>1, <1>6, <2>1, <2>2, <2>4 DEF TrackerShape
<1>8. ScheduleInv'
  <2>1. step # "declared" /\ step' # "declared"
    BY <1>1
  <2>2. PassesOK'
    BY <1>1, <1>2, <2>1 DEF PassesOK
  <2>3. ConflictsFirst'
    BY <1>1 DEF CompilerInv, ScheduleInv, ConflictsFirst, Conflict
  <2>4. FencesFirst'
    BY <1>1 DEF CompilerInv, ScheduleInv, FencesFirst, FencedFrom
  <2>5. LiveIsWhole'
    BY <1>1, <2>1 DEF CompilerInv, ScheduleInv, LiveIsWhole, Marked
  <2>. QED
    BY <2>2, <2>3, <2>4, <2>5 DEF ScheduleInv
<1>9. Batched'
  BY <1>1 DEF Batched
<1>. QED
  BY <1>5, <1>7, <1>8, <1>9 DEF CompilerInv

(* Nothing of this changes once every node is tracked. *)
LEMMA TrackerKept ==
  ASSUME UNCHANGED << graph, order, queue, at, tracked, edges, barriers, transfers, dedicated >>,
         TrackerInv
  PROVE  /\ TrackerInv'
         /\ Nodes' = Nodes
         /\ \A n : BatchOf(n)' = BatchOf(n) /\ WaitOf(n)' = WaitOf(n)
<1>1. /\ Epilogue' = Epilogue /\ Nodes' = Nodes
      /\ \A n : QueueAt(n)' = QueueAt(n) /\ UsedAt(n)' = UsedAt(n)
      /\ \A r : Users(r)' = Users(r)
      /\ \A a, b, r : Follows(a, b, r)' = Follows(a, b, r)
  BY SamePlan
<1>2. \A n, r : SpecAt(n, r)' = SpecAt(n, r)
  BY DEF SpecAt, ExitSpec
<1>3. \A n, r : Leaves(n, r)' = Leaves(n, r)
  BY <1>2 DEF Leaves
<1>4. \A r : Past(r)' = Past(r)
  BY <1>1 DEF Past
<1>5. NodesKnown'
  BY <1>1 DEF TrackerInv, NodesKnown, TrackedNodes
<1>6. TracksUses'
  BY <1>1, <1>3, <1>4 DEF TrackerInv, TracksUses, UsedLast
<1>7. EdgesForward' /\ RecordsKnown'
  BY <1>1 DEF TrackerInv, EdgesForward, RecordsKnown
<1>8. MovesRecorded'
  BY <1>1, <1>2, <1>4 DEF TrackerInv, MovesRecorded, Moved
<1>9. LayoutsFound'
  <2>1. \A found, n, r : LedFrom(found, n, r)' = LedFrom(found, n, r)
    BY <1>2 DEF LedFrom
  <2>. QED
    BY <1>1, <1>3, <1>4, <2>1 DEF TrackerInv, LayoutsFound
<1>10. \A n : Begins(n)' = Begins(n)
  BY <1>1 DEF Begins
<1>11. \A n : BatchOf(n)' = BatchOf(n)
  BY <1>1, <1>10 DEF BatchOf
<1>12. \A n : WaitOf(n)' = WaitOf(n)
  BY <1>11 DEF WaitOf
<1>. QED
  BY <1>1, <1>5, <1>6, <1>7, <1>8, <1>9, <1>11, <1>12 DEF TrackerInv

LEMMA SplitCompilerInv == CompilerInv /\ Split => CompilerInv'
<1> SUFFICES ASSUME CompilerInv, Split PROVE CompilerInv'
  OBVIOUS
<1>1. /\ UNCHANGED << graph, async, overlap, live, queue, successors, order >>
      /\ UNCHANGED << dedicated, at, tracked, edges, barriers, transfers >>
      /\ step = "tracked" /\ step' = "planned"
  BY DEF Split
<1>2. TrackerInv'
  BY <1>1, TrackerKept DEF CompilerInv
<1>3. TrackerShape'
  BY <1>1 DEF CompilerInv, TrackerShape, Epilogue, Scheduled
<1>4. ScheduleInv'
  <2>1. PassesOK'
    BY <1>1 DEF CompilerInv, ScheduleInv, PassesOK
  <2>2. ConflictsFirst'
    BY <1>1 DEF CompilerInv, ScheduleInv, ConflictsFirst, Conflict
  <2>3. FencesFirst'
    BY <1>1 DEF CompilerInv, ScheduleInv, FencesFirst, FencedFrom
  <2>4. LiveIsWhole'
    BY <1>1 DEF CompilerInv, ScheduleInv, LiveIsWhole, Marked
  <2>. QED
    BY <2>1, <2>2, <2>3, <2>4 DEF ScheduleInv
<1>5. Batched'
  <2>1. Nodes' = Nodes /\ \A n : BatchOf(n)' = BatchOf(n) /\ WaitOf(n)' = WaitOf(n)
    BY <1>1, TrackerKept DEF CompilerInv
  <2>. QED
    BY <2>1 DEF Split, Batched
<1>. QED
  BY <1>2, <1>3, <1>4, <1>5 DEF CompilerInv

LEMMA CompilerStepInv == CompilerInv /\ [CompilerNext]_compilerVars => CompilerInv'
<1> SUFFICES ASSUME CompilerInv, UNCHANGED compilerVars PROVE CompilerInv'
  BY ScheduleCompilerInv, TrackCompilerInv, SplitCompilerInv DEF CompilerNext
<1>1. UNCHANGED << scheduleVars, trackVars >>
  BY DEF compilerVars
<1>2. ScheduleInv'
  BY <1>1, ScheduleStepInv DEF CompilerInv
<1>3. /\ UNCHANGED << graph, order, queue, live, async, step >>
      /\ UNCHANGED << at, tracked, edges, barriers, transfers, dedicated, batchOf, waits >>
  BY <1>1 DEF scheduleVars, trackVars
<1>4. TrackerShape'
  BY <1>3 DEF CompilerInv, TrackerShape, Epilogue, Scheduled
<1>5. TrackerInv' /\ Nodes' = Nodes /\ \A n : BatchOf(n)' = BatchOf(n) /\ WaitOf(n)' = WaitOf(n)
  BY <1>3, TrackerKept DEF CompilerInv
<1>6. Batched'
  BY <1>3, <1>5 DEF CompilerInv, Batched
<1>. QED
  BY <1>2, <1>4, <1>5, <1>6 DEF CompilerInv

LEMMA CompilerInvariant == CompilerSpec => []CompilerInv
<1>1. CompilerInit => CompilerInv
  BY CompilerInitInv
<1>2. CompilerInv /\ [CompilerNext]_compilerVars => CompilerInv'
  BY CompilerStepInv
<1>. QED
  BY <1>1, <1>2, PTL DEF CompilerSpec

-----------------------------------------------------------------------------
(* The batches. *)

LEMMA MaxIs ==
  ASSUME NEW n \in Nat, NEW S \in SUBSET (0 .. n), S # {}
  PROVE  Max(S) \in S /\ \A x \in S : x <= Max(S)
<1>1. PICK m \in S : \A x \in S : x <= m
  BY GreatestOf
<1>2. \A y \in S : m >= y
  BY <1>1
<1>3. Max(S) \in S /\ \A y \in S : Max(S) >= y
  BY <1>2, Zenon DEF Max
<1>. QED
  BY <1>3

LEMMA BatchFacts ==
  ASSUME PassesOK, NEW n \in Nodes
  PROVE  /\ BatchOf(n) \in 0 .. n /\ BatchOf(n) \in Nodes
         /\ Begins(BatchOf(n)) /\ QueueAt(BatchOf(n)) = QueueAt(n)
         /\ \A b \in 0 .. n : Begins(b) /\ QueueAt(b) = QueueAt(n) => b <= BatchOf(n)
<1>1. Epilogue \in Nat /\ Nodes = 0 .. Epilogue /\ n \in Nat
  BY NodeShape
<1> DEFINE Same == { x \in Nodes : QueueAt(x) = QueueAt(n) }
           Firsts == { b \in 0 .. n : Begins(b) /\ QueueAt(b) = QueueAt(n) }
<1>2. PICK first \in Same : \A x \in Same : first <= x
  <2>1. Same \in SUBSET Nat /\ Same # {}
    BY <1>1
  <2> HIDE DEF Same
  <2>. QED
    BY <2>1, LeastOf
<1>3. first <= n /\ first \in Nodes /\ QueueAt(first) = QueueAt(n)
  BY <1>2
<1>4. Begins(first)
  BY <1>2, <1>3 DEF Begins
<1>5. first \in Firsts
  BY <1>1, <1>3, <1>4
<1>6. Max(Firsts) \in Firsts /\ \A x \in Firsts : x <= Max(Firsts)
  <2>1. Firsts \in SUBSET (0 .. n) /\ Firsts # {}
    BY <1>5
  <2> HIDE DEF Firsts
  <2>. QED
    BY <1>1, <2>1, MaxIs
<1>7. BatchOf(n) = Max(Firsts)
  BY DEF BatchOf
<1>8. \A b \in 0 .. n : b \in Nodes
  BY <1>1
<1>. QED
  BY <1>6, <1>7, <1>8

LEMMA FirstOfBatch ==
  ASSUME PassesOK, NEW n \in Nodes, Begins(n)
  PROVE  BatchOf(n) = n
<1>1. n \in Nat /\ n \in 0 .. n
  BY NodeShape
<1>. QED
  BY <1>1, BatchFacts

(* A wait is for a batch that another queue was given before. *)
LEMMA WaitFacts ==
  ASSUME CompilerInv, at = Epilogue + 1, NEW b
  PROVE  /\ WaitOf(b) \subseteq Nodes
         /\ \A w \in WaitOf(b) : w < b /\ QueueAt(w) # QueueAt(b)
         /\ \A e \in edges : BatchOf(e[2]) = b =>
              \E w \in WaitOf(b) : BatchOf(e[1]) <= w /\ QueueAt(w) # QueueAt(b)
<1> DEFINE Sources == { BatchOf(e[1]) : e \in { x \in edges : BatchOf(x[2]) = b } }
<1>1. PassesOK /\ Epilogue \in Nat /\ Nodes = 0 .. Epilogue
  BY NodeShape DEF CompilerInv, ScheduleInv
<1>2. ASSUME NEW e \in edges
      PROVE  /\ e[1] \in Nodes /\ e[2] \in Nodes /\ e[1] < e[2] /\ QueueAt(e[1]) # QueueAt(e[2])
             /\ BatchOf(e[2]) = e[2] /\ BatchOf(e[1]) \in 0 .. e[1]
             /\ QueueAt(BatchOf(e[1])) = QueueAt(e[1])
  <2>1. /\ e[1] \in Nat /\ e[2] \in Nat /\ e[1] < e[2] /\ e[2] < at /\ QueueAt(e[1]) # QueueAt(e[2])
    BY DEF CompilerInv, TrackerInv, EdgesForward
  <2>2. e[1] \in Nodes /\ e[2] \in Nodes
    BY <1>1, <2>1
  <2>3. Begins(e[2])
    BY DEF Begins
  <2>. QED
    BY <1>1, <2>1, <2>2, <2>3, BatchFacts, FirstOfBatch
<1>3. \A w \in Sources : w \in 0 .. Epilogue /\ w < b /\ QueueAt(w) # QueueAt(b)
  <2> SUFFICES ASSUME NEW e \in edges, BatchOf(e[2]) = b
               PROVE  LET w == BatchOf(e[1]) IN w \in 0 .. Epilogue /\ w < b /\ QueueAt(w) # QueueAt(b)
    OBVIOUS
  <2>1. b = e[2]
    BY <1>2
  <2>. QED
    BY <1>1, <1>2, <2>1
<1>4. WaitOf(b) = IF Sources = {} THEN {} ELSE {Max(Sources)}
  BY DEF WaitOf
<1>5. Sources # {} => Max(Sources) \in Sources /\ \A x \in Sources : x <= Max(Sources)
  <2>1. Sources \in SUBSET (0 .. Epilogue)
    BY <1>3
  <2> HIDE DEF Sources
  <2>. QED
    BY <1>1, <2>1, MaxIs
<1>6. \A e \in edges : BatchOf(e[2]) = b => BatchOf(e[1]) \in Sources
  OBVIOUS
<1> HIDE DEF Sources
<1>. QED
  BY <1>1, <1>3, <1>4, <1>5, <1>6

(* The recursion of Complete, which follows the waits backwards, ends. *)
Gathered(W, f, x) == W[x] \cup UNION { f[z] : z \in W[x] }

LEMMA WaitsEnd ==
  ASSUME NEW B \in SUBSET Nat, NEW W \in [B -> SUBSET B], \A x \in B : \A z \in W[x] : z < x,
         NEW top \in Nat, \A x \in B : x < top
  PROVE  \E f : f = [x \in B |-> Gathered(W, f, x)]
<1> DEFINE Known(m) == \E f : \A x \in B : x < m => f[x] = Gathered(W, f, x)
           Bad == { m \in Nat : ~ Known(m) }
<1>1. ASSUME NEW f, NEW g, NEW x \in B, \A z \in W[x] : f[z] = g[z]
      PROVE  Gathered(W, f, x) = Gathered(W, g, x)
  <2>1. { f[z] : z \in W[x] } = { g[z] : z \in W[x] }
    BY <1>1
  <2>. QED
    BY <2>1 DEF Gathered
<1>2. Known(0)
  BY SMT
<1>3. ASSUME NEW m \in Nat, Known(m) PROVE Known(m + 1)
  <2>1. PICK f : \A x \in B : x < m => f[x] = Gathered(W, f, x)
    BY <1>3
  <2> DEFINE g == [x \in B |-> IF x = m THEN Gathered(W, f, m) ELSE f[x]]
  <2>2. ASSUME NEW x \in B, x < m + 1 PROVE g[x] = Gathered(W, g, x)
    <3>1. \A z \in W[x] : z \in B /\ z < x /\ z # m
      BY <2>2
    <3>2. \A z \in W[x] : g[z] = f[z]
      BY <3>1
    <3> HIDE DEF g
    <3>3. Gathered(W, g, x) = Gathered(W, f, x)
      BY <1>1, <3>2
    <3>4. g[x] = Gathered(W, f, x)
      <4>1. g[x] = IF x = m THEN Gathered(W, f, m) ELSE f[x]
        BY DEF g
      <4>2. CASE x = m
        BY <4>1, <4>2
      <4>3. CASE x # m
        BY <2>1, <2>2, <4>1, <4>3
      <4>. QED
        BY <4>2, <4>3
    <3>. QED
      BY <3>3, <3>4
  <2> HIDE DEF g
  <2>. QED
    BY <2>2
<1>4. Bad = {}
  <2>1. SUFFICES ASSUME Bad # {} PROVE FALSE
    OBVIOUS
  <2>2. Bad \in SUBSET Nat
    OBVIOUS
  <2>3. PICK m \in Bad : \A k \in Bad : m <= k
    <3> HIDE DEF Bad
    <3>. QED
      BY <2>1, <2>2, LeastOf
  <2>4. m \in Nat /\ ~ Known(m)
    OBVIOUS
  <2>5. m # 0
    BY <1>2, <2>4
  <2>6. PICK k \in Nat : m = k + 1
    BY <2>4, <2>5
  <2>7. Known(k)
    <3>1. k \notin Bad
      BY <2>3, <2>6
    <3> HIDE DEF Known
    <3>. QED
      BY <3>1
  <2> HIDE DEF Known
  <2>. QED
    BY <1>3, <2>4, <2>6, <2>7
<1>5. Known(top)
  <2> HIDE DEF Known
  <2>. QED
    BY <1>4
<1>6. PICK f : \A x \in B : f[x] = Gathered(W, f, x)
  BY <1>5
<1> DEFINE h == [x \in B |-> f[x]]
<1>7. \A x \in B : Gathered(W, h, x) = Gathered(W, f, x)
  <2>1. \A x \in B : \A z \in W[x] : z \in B
    OBVIOUS
  <2>2. \A x \in B : \A z \in W[x] : h[z] = f[z]
    BY <2>1
  <2> HIDE DEF h
  <2>. QED
    BY <1>1, <2>2
<1>8. h = [x \in B |-> Gathered(W, h, x)]
  <2>1. \A x \in B : f[x] = Gathered(W, h, x)
    BY <1>6, <1>7
  <2>. QED
    BY <2>1, Zenon
<1>. QED
  BY <1>8

WaitedFor(x) ==
  { z \in DOMAIN waits : z < x /\ \E w \in waits[x] : z <= w /\ QueueAt(z) = QueueAt(w) }

LEMMA CompleteWaits ==
  ASSUME CompilerInv, step = "planned", NEW b \in DOMAIN waits
  PROVE  WaitedFor(b) \subseteq Complete(b)
<1> DEFINE B == DOMAIN waits
           W == [x \in B |-> WaitedFor(x)]
           Step(f, x) == LET waited == { z \in DOMAIN waits : z < x /\ \E w \in waits[x] :
                                           z <= w /\ QueueAt(z) = QueueAt(w) }
                         IN  waited \cup UNION { f[z] : z \in waited }
           Rec(f) == f = [x \in DOMAIN waits |-> Step(f, x)]
<1>1. PassesOK /\ Epilogue \in Nat /\ Nodes = 0 .. Epilogue
  BY NodeShape DEF CompilerInv, ScheduleInv
<1>2. B = { BatchOf(n) : n \in Nodes }
  BY DEF CompilerInv, Batched
<1>3. B \in SUBSET Nat /\ \A x \in B : x < Epilogue + 1
  <2>1. \A n \in Nodes : BatchOf(n) \in Nodes
    BY <1>1, BatchFacts
  <2>2. \A x \in B : x \in Nodes
    BY <1>2, <2>1
  <2>. QED
    BY <1>1, <2>2
<1>4. W \in [B -> SUBSET B] /\ \A x \in B : \A z \in W[x] : z < x
  BY DEF WaitedFor
<1>5. \E f : f = [x \in B |-> Gathered(W, f, x)]
  <2>1. Epilogue + 1 \in Nat
    BY <1>1
  <2> HIDE DEF B, W
  <2>. QED
    BY <1>3, <1>4, <2>1, WaitsEnd
<1>6. \A f : \A x \in B : Gathered(W, f, x) = Step(f, x)
  <2> SUFFICES ASSUME NEW f, NEW x \in B PROVE Gathered(W, f, x) = Step(f, x)
    OBVIOUS
  <2>1. W[x] = WaitedFor(x)
    OBVIOUS
  <2>. QED
    BY <2>1 DEF Gathered, WaitedFor
<1>7. PICK f : f = [x \in B |-> Gathered(W, f, x)]
  BY <1>5
<1>8. Rec(f)
  <2> DEFINE R == [x \in B |-> Step(f, x)]
  <2>1. [x \in B |-> Gathered(W, f, x)] = R
    <3> HIDE DEF Step, W
    <3>. QED
      BY <1>6, Zenon
  <2> HIDE DEF W, Step
  <2>. QED
    BY <1>7, <2>1, Zenon
<1>9. Rec(CHOOSE g : Rec(g))
  <2> HIDE DEF Rec
  <2>. QED
    BY <1>8, Zenon
<1>10. Complete(b) = (CHOOSE g : Rec(g))[b]
  BY DEF Complete
<1>11. PICK done : done = (CHOOSE g : Rec(g))
  OBVIOUS
<1>12. done[b] = Step(done, b)
  <2> HIDE DEF Step
  <2>1. done = [x \in DOMAIN waits |-> Step(done, x)]
    BY <1>9, <1>11, Zenon
  <2>. QED
    BY <2>1, Zenon
<1>13. WaitedFor(b) \subseteq Step(done, b)
  BY DEF WaitedFor
<1> HIDE DEF Rec, Step
<1>. QED
  BY <1>10, <1>11, <1>12, <1>13, Zenon

(* The node on another queue that an edge leads from ends its batch, and the *)
(* node that it leads to starts one, which waits for the other.              *)
LEMMA EdgeFacts ==
  ASSUME CompilerInv, step = "planned", NEW a, NEW b, << a, b >> \in edges
  PROVE  /\ a \in Nodes /\ b \in Nodes
         /\ batchOf[b] = b /\ batchOf[a] \in Complete(b)
         /\ \A n \in Nodes : batchOf[n] = batchOf[a] => n <= a
<1>1. PassesOK /\ step # "declared" /\ Epilogue \in Nat /\ Nodes = 0 .. Epilogue /\ at = Epilogue + 1
  BY NodeShape DEF CompilerInv, ScheduleInv, TrackerShape
<1>2. PICK e \in edges : e[1] = a /\ e[2] = b
  <2>1. << a, b >>[1] = a /\ << a, b >>[2] = b
    OBVIOUS
  <2>. QED
    BY <2>1
<1>3. a \in Nat /\ b \in Nat /\ a < b /\ b < at /\ QueueAt(a) # QueueAt(b)
  BY <1>2 DEF CompilerInv, TrackerInv, EdgesForward
<1>4. a \in Nodes /\ b \in Nodes
  BY <1>1, <1>3
<1>5. Begins(b) /\ BatchOf(b) = b
  <2>1. Begins(b)
    BY <1>2 DEF Begins
  <2>. QED
    BY <1>1, <1>4, <2>1, FirstOfBatch
<1>6. /\ \A n \in Nodes : batchOf[n] = BatchOf(n)
      /\ DOMAIN waits = { BatchOf(n) : n \in Nodes }
      /\ \A x \in DOMAIN waits : waits[x] = WaitOf(x)
  BY DEF CompilerInv, Batched
<1>7. BatchOf(a) \in 0 .. a /\ QueueAt(BatchOf(a)) = QueueAt(a) /\ BatchOf(a) \in Nodes
  BY <1>1, <1>4, BatchFacts
<1>8. BatchOf(a) \in Complete(b)
  <2>1. b \in DOMAIN waits /\ BatchOf(a) \in DOMAIN waits
    BY <1>4, <1>5, <1>6
  <2>2. PICK w \in waits[b] : BatchOf(a) <= w /\ QueueAt(w) # QueueAt(b)
    BY <1>1, <1>2, <1>5, <1>6, <2>1, WaitFacts
  <2>3. QueueAt(BatchOf(a)) = QueueAt(w)
    <3>1. QueueAt(a) \in Queues /\ QueueAt(b) \in Queues /\ QueueAt(w) \in Queues
      BY <1>1, QueuesOfNodes
    <3>. QED
      BY <1>3, <1>7, <2>2, <3>1 DEF Queues
  <2>4. BatchOf(a) < b
    BY <1>3, <1>7
  <2>5. BatchOf(a) \in WaitedFor(b)
    BY <2>1, <2>2, <2>3, <2>4 DEF WaitedFor
  <2>. QED
    BY <2>1, <2>5, CompleteWaits
<1>9. ASSUME NEW n \in Nodes, BatchOf(n) = BatchOf(a), ~ (n <= a) PROVE FALSE
  <2> DEFINE Later == { x \in Nodes : a < x /\ QueueAt(x) = QueueAt(a) }
  <2>1. QueueAt(n) = QueueAt(a)
    BY <1>1, <1>7, <1>9, BatchFacts
  <2>2. n \in Nat /\ a < n
    BY <1>1, <1>3, <1>9
  <2>3. PICK y \in Later : \A x \in Later : y <= x
    <3>1. Later \in SUBSET Nat /\ Later # {}
      BY <1>1, <2>1, <2>2
    <3> HIDE DEF Later
    <3>. QED
      BY <3>1, LeastOf
  <2>4. y \in Nat /\ y \in Nodes /\ a < y /\ y <= n /\ QueueAt(y) = QueueAt(a)
    BY <1>1, <2>1, <2>2, <2>3
  <2>5. \A x \in a + 1 .. y - 1 : QueueAt(x) # QueueAt(y)
    <3> SUFFICES ASSUME NEW x \in a + 1 .. y - 1, QueueAt(x) = QueueAt(y) PROVE FALSE
      OBVIOUS
    <3>1. x \in Nodes /\ a < x /\ x < y
      BY <1>1, <1>3, <2>4
    <3>. QED
      BY <1>1, <2>3, <2>4, <3>1
  <2>6. Begins(y)
    BY <1>2, <1>4, <2>4, <2>5 DEF Begins
  <2>7. y \in 0 .. n /\ QueueAt(y) = QueueAt(n)
    BY <2>1, <2>2, <2>4
  <2>8. y <= BatchOf(n)
    BY <1>1, <2>6, <2>7, BatchFacts
  <2>. QED
    BY <1>3, <1>7, <1>9, <2>4, <2>8
<1>. QED
  BY <1>4, <1>5, <1>6, <1>8, <1>9

LEMMA PreviousFollows ==
  ASSUME PassesOK, NEW r, NEW n \in Users(r), \E x \in Users(r) : x < n
  PROVE  Previous(n, r) \in Users(r) /\ Follows(Previous(n, r), n, r)
<1> DEFINE Sooner == { x \in Users(r) : x < n }
<1>1. \A x \in Users(r) : x \in Nat
  BY NodeShape, UsersAre
<1>2. Sooner \in SUBSET (0 .. n) /\ Sooner # {} /\ n \in Nat
  BY <1>1
<1>3. Max(Sooner) \in Sooner /\ \A x \in Sooner : x <= Max(Sooner)
  <2> HIDE DEF Sooner
  <2>. QED
    BY <1>2, MaxIs
<1>4. PICK a : a = Previous(n, r)
  OBVIOUS
<1>5. a \in Sooner /\ \A x \in Sooner : x <= a
  BY <1>3, <1>4 DEF Previous
<1>6. a \in Users(r) /\ a < n /\ \A x \in Users(r) : ~ (a < x /\ x < n)
  BY <1>1, <1>5
<1>. QED
  BY <1>4, <1>6 DEF Follows

LEMMA AllIsPast ==
  ASSUME CompilerInv, step = "planned", NEW r PROVE Past(r) = Users(r)
<1>1. PassesOK /\ Epilogue \in Nat /\ Nodes = 0 .. Epilogue /\ at = Epilogue + 1
  BY NodeShape DEF CompilerInv, ScheduleInv, TrackerShape
<1>2. \A n \in Users(r) : n < at
  BY <1>1, UsersAre
<1>. QED
  BY <1>2 DEF Past

LEMMA OwnershipIsMoved == CompilerInv => OwnershipMoves
<1> SUFFICES ASSUME CompilerInv, step = "planned", dedicated,
                    NEW r \in Slots(graph) \ (Concurrent \cup Tokens), NEW b \in Users(r),
                    NEW a, a = Previous(b, r),
                    \E x \in Users(r) : x < b, QueueAt(a) # QueueAt(b), ~ SpecAt(b, r).discard
             PROVE  /\ [resource |-> r, from |-> QueueAt(a), to |-> QueueAt(b),
                        release |-> a, acquire |-> b] \in transfers
                    /\ batchOf[b] = b /\ batchOf[a] \in Complete(b)
                    /\ \A n \in Nodes : batchOf[n] = batchOf[a] => n <= a
  BY Zenon DEF OwnershipMoves
<1>1. a \in Users(r) /\ Follows(a, b, r)
  BY PreviousFollows DEF CompilerInv, ScheduleInv
<1>2. Moved(a, b, r)
  BY <1>1, AllIsPast DEF CompilerInv, TrackerInv, MovesRecorded
<1>. QED
  BY <1>2, EdgeFacts DEF Moved

LEMMA LayoutsAreFound == CompilerInv => LayoutsHold
<1> SUFFICES ASSUME CompilerInv, step = "planned", NEW r \in Slots(graph) \cap Images,
                    NEW n \in Users(r) \ {Prologue}
             PROVE  LedFrom(IF \E x \in Users(r) : x < n THEN Leaves(Previous(n, r), r).layout
                            ELSE "undefined", n, r)
  BY DEF LayoutsHold, LedFrom
<1>0. PICK found : found = IF \E x \in Users(r) : x < n THEN Leaves(Previous(n, r), r).layout
                           ELSE "undefined"
  OBVIOUS
<1> SUFFICES LedFrom(found, n, r)
  BY <1>0
<1>1. n \in Past(r) \ {Prologue}
  BY AllIsPast
<1>2. CASE \E x \in Users(r) : x < n
  <2>1. Previous(n, r) \in Past(r) /\ Follows(Previous(n, r), n, r)
    BY <1>2, PreviousFollows, AllIsPast DEF CompilerInv, ScheduleInv
  <2>2. LedFrom(Leaves(Previous(n, r), r).layout, n, r)
    BY <1>1, <2>1 DEF CompilerInv, TrackerInv, LayoutsFound
  <2>. QED
    BY <1>0, <1>2, <2>2
<1>3. CASE ~ \E x \in Users(r) : x < n
  BY <1>0, <1>1, <1>3 DEF CompilerInv, TrackerInv, LayoutsFound
<1>. QED
  BY <1>2, <1>3

(* ContentsArrive: a resource that the next pass uses on the other queue      *)
(* family is released at the end of the batch that had it and acquired at the *)
(* start of one that waits for that batch, and an image is led from the       *)
(* layout it was left in to the one that is asked for: Tracker::apply() and   *)
(* the splitting of the schedule into batches by build_plan().                *)
THEOREM PassesFindContents == CompilerSpec => []ContentsArrive
<1>1. CompilerInv => ContentsArrive
  BY OwnershipIsMoved, LayoutsAreFound DEF ContentsArrive
<1>. QED
  BY <1>1, CompilerInvariant, PTL

LEMMA TrackedIsTyped ==
  ASSUME CompilerInv, NEW r \in Slots(graph) PROVE TrackedOK(tracked[r])
<1>1. PassesOK /\ Epilogue \in Nat /\ Nodes = 0 .. Epilogue /\ Epilogue = Len(order) + 1
  BY NodeShape DEF CompilerInv, ScheduleInv
<1>2. at \in 1 .. Epilogue + 1
  BY <1>1 DEF CompilerInv, TrackerShape
<1>3. Len(order) \in Nat /\ Len(graph) \in Nat /\ Len(order) <= Len(graph)
  BY <1>1, NodeShape, OrderFits, GraphShape DEF PassesOK
<1>4. Nowhere \in NodeRange /\ \A x \in 0 .. at - 1 : x \in NodeRange
  BY <1>1, <1>2, <1>3 DEF NodeRange, Nowhere
<1>5. PICK s : s = tracked[r]
  OBVIOUS
<1>6. TrackedNodes(s)
  BY <1>5 DEF CompilerInv, TrackerInv, NodesKnown
<1>7. /\ s.last = [q \in Queues |-> s.last[q]] /\ s.real \in BOOLEAN /\ s.entryHasWork \in BOOLEAN
      /\ s.writer \in Queues \cup {"none"}
      /\ \A q \in Queues : s.last[q] \in NodeRange
      /\ s.lastWrite \in NodeRange
  BY <1>4, <1>6 DEF TrackedNodes, IsTracked
<1>8. s.last \in [Queues -> NodeRange]
  BY <1>7
<1>9. \/ s.writer = "none" /\ s.owner = "none"
      \/ s.writer \in Queues /\ s.owner \in Queues
  <2>1. CASE Past(r) = {}
    BY <1>5, <2>1 DEF CompilerInv, TrackerInv, TracksUses, Unused
  <2>2. CASE Past(r) # {}
    <3>1. step # "declared" \/ (at = 1 /\ EarlyUses)
      BY <1>1, EarlyPast DEF CompilerInv, TrackerShape
    <3>2. Past(r) \in SUBSET (0 .. Epilogue)
      BY <1>1, UsersAre DEF Past
    <3>3. PICK a \in Past(r) : \A x \in Past(r) : x <= a
      BY <1>1, <2>2, <3>2, GreatestOf
    <3>4. UsedLast(s, a, r)
      BY <1>5, <3>3 DEF CompilerInv, TrackerInv, TracksUses
    <3>5. QueueAt(a) \in Queues
      <4>1. CASE step # "declared"
        BY <1>1, <4>1, QueuesOfNodes
      <4>2. CASE at = 1 /\ EarlyUses
        <5>1. a = Prologue
          BY <4>2 DEF EarlyUses
        <5>. QED
          BY <4>2, <5>1 DEF EarlyUses, Queues
      <4>. QED
        BY <3>1, <4>1, <4>2
    <3>. QED
      BY <3>4, <3>5 DEF UsedLast
  <2>. QED
    BY <2>1, <2>2
<1>10. "none" \notin Queues
  BY DEF Queues
<1>. QED
  BY <1>5, <1>7, <1>8, <1>9, <1>10 DEF TrackedOK

LEMMA CompilerIsTyped == CompilerInv => CompilerTypeOK
<1> SUFFICES ASSUME CompilerInv PROVE CompilerTypeOK
  OBVIOUS
<1>1. PassesOK /\ Epilogue \in Nat /\ Nodes = 0 .. Epilogue /\ Epilogue = Len(order) + 1
  BY NodeShape DEF CompilerInv, ScheduleInv
<1>2. at \in 1 .. Epilogue + 1 /\ dedicated \in BOOLEAN /\ DOMAIN tracked = Slots(graph)
  BY <1>1 DEF CompilerInv, TrackerShape
<1>3. Len(order) \in Nat /\ Len(graph) \in Nat /\ Len(order) <= Len(graph)
  BY <1>1, NodeShape, OrderFits, GraphShape DEF PassesOK
<1>4. at \in 1 .. Len(graph) + 2 /\ \A x \in 0 .. at - 1 : x \in NodeRange
  BY <1>1, <1>2, <1>3 DEF NodeRange
<1>5. \A r \in DOMAIN tracked : TrackedOK(tracked[r])
  BY <1>2, TrackedIsTyped
<1>6. \A e \in edges : e[1] < e[2] /\ QueueAt(e[1]) # QueueAt(e[2])
  BY DEF CompilerInv, TrackerInv, EdgesForward
<1>7. /\ \A x \in barriers : x.resource \in Resources /\ x.node \in NodeRange
      /\ \A x \in transfers : /\ x.resource \in Resources
                              /\ x.release \in NodeRange /\ x.acquire \in NodeRange
  BY <1>4 DEF CompilerInv, TrackerInv, RecordsKnown
<1>8. step = "planned" => /\ batchOf \in [Nodes -> Nodes]
                          /\ waits \in [{ batchOf[n] : n \in Nodes } -> SUBSET Nodes]
  <2> SUFFICES ASSUME step = "planned"
               PROVE  /\ batchOf \in [Nodes -> Nodes]
                      /\ waits \in [{ batchOf[n] : n \in Nodes } -> SUBSET Nodes]
    OBVIOUS
  <2>1. /\ batchOf = [n \in Nodes |-> BatchOf(n)]
        /\ waits = [b \in { BatchOf(n) : n \in Nodes } |-> WaitOf(b)]
    BY DEF CompilerInv, Batched
  <2>2. \A n \in Nodes : BatchOf(n) \in Nodes
    BY <1>1, BatchFacts
  <2>3. \A b : WaitOf(b) \subseteq Nodes
    <3>1. at = Epilogue + 1
      BY DEF CompilerInv, TrackerShape
    <3>. QED
      BY <3>1, WaitFacts
  <2>4. \A n \in Nodes : batchOf[n] = BatchOf(n)
    BY <2>1
  <2>5. { batchOf[n] : n \in Nodes } = { BatchOf(n) : n \in Nodes }
    BY <2>4
  <2>6. batchOf \in [Nodes -> Nodes]
    BY <2>1, <2>2
  <2>7. waits \in [{ BatchOf(n) : n \in Nodes } -> SUBSET Nodes]
    BY <2>1, <2>3
  <2>. QED
    BY <2>5, <2>6, <2>7
<1>. QED
  BY <1>2, <1>4, <1>5, <1>6, <1>7, <1>8 DEF CompilerTypeOK

LEMMA WaitsGoBack == CompilerInv => WaitsAreSubmitted
<1> SUFFICES ASSUME CompilerInv, step = "planned", NEW b \in DOMAIN waits, NEW w \in waits[b]
             PROVE  w < b /\ QueueAt(w) # QueueAt(b)
  BY DEF WaitsAreSubmitted
<1>1. at = Epilogue + 1 /\ waits[b] = WaitOf(b)
  BY DEF CompilerInv, TrackerShape, Batched
<1>. QED
  BY <1>1, WaitFacts

(* PlanSound: schedule() always has another pass to take, every value that   *)
(* Tracker::apply() keeps is of its type, with a writer just when it has an  *)
(* owner, edges lead from one queue to a later node of the other, and        *)
(* submitted in the order of their first nodes, no batch waits for one that  *)
(* comes later or is on its own queue; and ContentsArrive.                   *)
THEOREM PlanIsSound == CompilerSpec => []PlanSound
<1>1. CompilerInv => NeverStuck
  BY SomePassIsBest DEF NeverStuck, CompilerInv, ScheduleInv
<1>2. CompilerInv => PlanSound
  BY <1>1, CompilerIsTyped, WaitsGoBack, OwnershipIsMoved, LayoutsAreFound
     DEF PlanSound, ContentsArrive
<1>. QED
  BY <1>2, CompilerInvariant, PTL

(* ScheduleSound, for the whole of compile(): what is tracked and split into  *)
(* batches is the schedule of the theorems above.                            *)
THEOREM PlannedScheduleIsSound == CompilerSpec => []ScheduleSound
<1>1. CompilerInv => ScheduleSound
  BY ConflictsAreKept, FencesAreKept, ContentsAreKept DEF ScheduleSound, CompilerInv
<1>. QED
  BY <1>1, CompilerInvariant, PTL

-----------------------------------------------------------------------------
(* The memory of the transients.                                             *)

(* What shares memory is used one after the other, by the order of batches.  *)
SharersTakeTurns ==
  \A p, q \in placed : p # q /\ Meet(p, q) => ~ InConflict(p.resource, q.resource)

MemoryKept ==
  /\ \A p \in placed : p \in [resource: Transients, block: DOMAIN blocks, offset: Nat]
  /\ \A p \in placed : Touches(p.resource) # {}
  /\ \A p, q \in placed : p.resource = q.resource => p = q
  /\ blocks \in Seq(Requirements)
  /\ \A b \in DOMAIN blocks :
       /\ blocks[b].types # {}
       /\ \E r \in Transients : blocks[b].alignment = Requirement[r].alignment
  /\ PlacementsFit
  /\ SharersTakeTurns

(* Until the memory is planned there is none, and the plan stays as it is. *)
PlanningMemory ==
  IF step \in {"ordered", "handed"}
  THEN Len(order) \in Nat /\ DOMAIN order = 1 .. Len(order) /\ PlanSound /\ ScheduleSound
  ELSE CompilerInv /\ placed = {} /\ blocks = << >>

MemoryInv == PlanningMemory /\ MemoryKept /\ NewcomersWait

LEMMA LeastIs ==
  ASSUME NEW S \in SUBSET Nat, S # {}
  PROVE  Min(S) \in S /\ \A y \in S : Min(S) <= y
<1>1. \E x \in S : \A y \in S : x <= y
  BY LeastOf
<1>. QED
  BY <1>1 DEF Min

LEMMA GreaterOfTwo ==
  ASSUME NEW x \in Nat, NEW y \in Nat
  PROVE  Max({x, y}) \in {x, y} /\ x <= Max({x, y}) /\ y <= Max({x, y})
<1>1. \E m \in {x, y} : \A k \in {x, y} : m >= k
  OBVIOUS
<1>2. Max({x, y}) \in {x, y} /\ \A k \in {x, y} : Max({x, y}) >= k
  BY <1>1 DEF Max
<1>. QED
  BY <1>2

LEMMA MultipleDivides ==
  ASSUME NEW k \in Nat, NEW d \in Nat \ {0}
  PROVE  k * d \in Nat /\ (k * d) % d = 0
<1>1. k * d \in Nat /\ k * d >= 0
  OBVIOUS
<1>. QED
  BY <1>1

LEMMA IsMultiple ==
  ASSUME NEW x \in Nat, NEW d \in Nat \ {0}, x % d = 0
  PROVE  \E k \in Nat : x = k * d
<1>1. x = (x \div d) * d + (x % d)
  OBVIOUS
<1>2. x \div d \in Nat
  OBVIOUS
<1>. QED
  BY <1>1, <1>2

(* What is aligned is aligned to every smaller power of two. *)
LEMMA DividesOn ==
  ASSUME NEW x \in Nat, NEW d \in Nat \ {0}, NEW e \in Nat \ {0}, x % d = 0, d % e = 0
  PROVE  x % e = 0
<1>1. PICK k \in Nat : x = k * d
  BY IsMultiple
<1>2. PICK j \in Nat : d = j * e
  BY IsMultiple
<1>3. k * j \in Nat
  OBVIOUS
<1>4. x = (k * j) * e
  BY <1>1, <1>2
<1>. QED
  BY <1>3, <1>4, MultipleDivides

LEMMA AlignedUp ==
  ASSUME NEW x \in Nat, NEW d \in Nat \ {0}
  PROVE  /\ AlignUp(x, d) \in Nat /\ AlignUp(x, d) % d = 0
         /\ x <= AlignUp(x, d) /\ AlignUp(x, d) < x + d
<1>1. PICK n \in Nat : n = x + d - 1
  OBVIOUS
<1>2. PICK q \in Nat : q = n \div d
  OBVIOUS
<1>3. q * d <= n /\ n < q * d + d /\ q * d \in Nat
  BY <1>2
<1>4. AlignUp(x, d) = q * d
  BY <1>1, <1>2 DEF AlignUp
<1>5. (q * d) % d = 0
  BY MultipleDivides
<1>. QED
  BY <1>1, <1>3, <1>4, <1>5

(* The offset of a newcomer: aligned, and clear of all it conflicts with. *)
LEMMA OffsetFits ==
  ASSUME MemoryKept, NEW b \in DOMAIN blocks, NEW r \in Transients
  PROVE  /\ OffsetIn(b, r) \in Nat /\ OffsetIn(b, r) % Requirement[r].alignment = 0
         /\ \A p \in placed : p.block = b /\ InConflict(r, p.resource) =>
              EndOf(p) <= OffsetIn(b, r) \/ OffsetIn(b, r) + Size(r) <= p.offset
<1>1. PICK m \in Nat \ {0} : m = Requirement[r].alignment
  BY TransientAssumption DEF Requirements
<1>2. blocks[b] \in Requirements
  BY DEF MemoryKept
<1>3. PICK n \in Nat \ {0} : n = blocks[b].alignment
  BY <1>2 DEF Requirements
<1>4. PICK z \in Nat : z = blocks[b].size
  BY <1>2 DEF Requirements
<1>5. PICK d \in Nat \ {0} : d = Max({m, n})
  BY GreaterOfTwo
<1>6. d \in {m, n} /\ m <= d
  BY <1>5, GreaterOfTwo
<1>7. d % m = 0
  <2>1. CASE d = m
    <3>1. 1 * m = m /\ 1 \in Nat
      OBVIOUS
    <3>. QED
      BY <2>1, <3>1, MultipleDivides
  <2>2. CASE d = n
    <3>1. PICK s \in Transients : n = Requirement[s].alignment
      BY <1>3 DEF MemoryKept
    <3>. QED
      BY <1>1, <1>6, <2>2, <3>1, TransientAssumption
  <2>. QED
    BY <1>6, <2>1, <2>2
<1> DEFINE taken == { p \in placed : p.block = b /\ InConflict(r, p.resource) }
           starts == {0} \cup { AlignUp(EndOf(p), d) : p \in taken }
           clear == { x \in starts : \A p \in taken : EndOf(p) <= x \/ x + Size(r) <= p.offset }
<1>8. OffsetIn(b, r) = Min(clear)
  BY <1>1, <1>3, <1>5 DEF OffsetIn
<1>9. \A p \in taken : EndOf(p) \in Nat /\ EndOf(p) <= z
  <2> SUFFICES ASSUME NEW p \in taken PROVE EndOf(p) \in Nat /\ EndOf(p) <= z
    OBVIOUS
  <2>1. p \in [resource: Transients, block: DOMAIN blocks, offset: Nat]
    BY DEF MemoryKept
  <2>2. Requirement[p.resource] \in Requirements
    BY <2>1, TransientAssumption
  <2>3. EndOf(p) \in Nat
    BY <2>1, <2>2 DEF EndOf, Size, Requirements
  <2>. QED
    BY <1>4, <2>3 DEF MemoryKept, PlacementsFit
<1>10. \A p \in taken : /\ AlignUp(EndOf(p), d) \in Nat /\ AlignUp(EndOf(p), d) % d = 0
                        /\ EndOf(p) <= AlignUp(EndOf(p), d) /\ AlignUp(EndOf(p), d) <= z + d
  <2> SUFFICES ASSUME NEW p \in taken
               PROVE  /\ AlignUp(EndOf(p), d) \in Nat /\ AlignUp(EndOf(p), d) % d = 0
                      /\ EndOf(p) <= AlignUp(EndOf(p), d) /\ AlignUp(EndOf(p), d) <= z + d
    OBVIOUS
  <2>1. PICK e \in Nat : e = EndOf(p)
    BY <1>9
  <2>2. e <= z
    BY <1>9, <2>1
  <2>3. PICK a \in Nat : a = AlignUp(e, d)
    BY AlignedUp
  <2>4. a % d = 0 /\ e <= a /\ a < e + d
    BY <2>3, AlignedUp
  <2>5. a <= z + d
    BY <2>2, <2>4
  <2>. QED
    BY <2>1, <2>3, <2>4, <2>5
<1>11. z + d \in Nat
  OBVIOUS
<1>12. starts \in SUBSET (0 .. z + d)
  BY <1>10, <1>11
<1>13. \A x \in starts : x \in Nat /\ x % d = 0
  <2>1. 0 % d = 0
    OBVIOUS
  <2>. QED
    BY <1>10, <2>1
<1>14. PICK top \in starts : \A x \in starts : x <= top
  <2> HIDE DEF starts
  <2>1. starts # {}
    BY DEF starts
  <2>. QED
    BY <1>11, <1>12, <2>1, GreatestOf
<1>15. \A p \in taken : EndOf(p) <= top
  <2> SUFFICES ASSUME NEW p \in taken PROVE EndOf(p) <= top
    OBVIOUS
  <2>1. AlignUp(EndOf(p), d) \in starts
    OBVIOUS
  <2>2. AlignUp(EndOf(p), d) <= top
    BY <1>14, <2>1
  <2>. QED
    BY <1>9, <1>10, <1>13, <1>14, <2>2
<1>16. clear \in SUBSET Nat /\ clear # {}
  BY <1>13, <1>15
<1>17. Min(clear) \in clear
  <2> HIDE DEF clear
  <2>. QED
    BY <1>16, LeastIs
<1>18. PICK o \in clear : o = OffsetIn(b, r)
  BY <1>8, <1>17
<1>19. o \in Nat /\ o % d = 0
  BY <1>13, <1>18
<1>20. o % m = 0
  BY <1>7, <1>19, DividesOn
<1>21. \A p \in taken : EndOf(p) <= o \/ o + Size(r) <= p.offset
  BY <1>18
<1>. QED
  BY <1>1, <1>18, <1>19, <1>20, <1>21

LEMMA ConflictsAreMutual ==
  ASSUME NEW r, NEW s, InConflict(r, s) PROVE InConflict(s, r)
BY DEF InConflict

(* Who conflicts with whom is a matter of the plan. *)
LEMMA OrderStays ==
  ASSUME UNCHANGED << scheduleVars, trackVars, precedes >>
  PROVE  /\ Alive' = Alive /\ step' = step /\ order' = order
         /\ \A r : Touches(r)' = Touches(r)
         /\ \A r, s : AllBefore(r, s)' = AllBefore(r, s)
         /\ \A r, s : InConflict(r, s)' = InConflict(r, s)
         /\ \A n, r : ScopeAt(n, r)' = ScopeAt(n, r)
<1>1. order' = order /\ graph' = graph /\ batchOf' = batchOf /\ precedes' = precedes
      /\ step' = step /\ tracked' = tracked
  BY DEF scheduleVars, trackVars
<1>2. \A n : UsedAt(n)' = UsedAt(n)
  BY <1>1 DEF UsedAt, Imports, Slots
<1>3. \A r : Touches(r)' = Touches(r)
  BY <1>1, <1>2 DEF Touches
<1>4. Alive' = Alive
  BY <1>3 DEF Alive
<1>5. \A x, y : ComesBefore(x, y)' = ComesBefore(x, y)
  BY <1>1 DEF ComesBefore
<1>6. \A r, s : AllBefore(r, s)' = AllBefore(r, s)
  BY <1>3, <1>5 DEF AllBefore
<1>7. \A r, s : InConflict(r, s)' = InConflict(r, s)
  BY <1>6 DEF InConflict
<1>8. \A n, r : SpecAt(n, r)' = SpecAt(n, r)
  BY <1>1 DEF SpecAt, ExitSpec
<1>9. \A n, r : ScopeAt(n, r)' = ScopeAt(n, r)
  BY <1>8 DEF ScopeAt
<1>. QED
  BY <1>1, <1>3, <1>4, <1>6, <1>7, <1>9

(* Room for a transient: clear of all it conflicts with, in a block that holds *)
(* it and what the block held before.                                         *)
RoomFor(r, bs, b, o) ==
  /\ r \in Alive /\ \A p \in placed : p.resource # r
  /\ bs \in Seq(Requirements) /\ b \in DOMAIN bs /\ DOMAIN blocks \subseteq DOMAIN bs
  /\ o \in Nat /\ o % Requirement[r].alignment = 0 /\ o + Size(r) <= bs[b].size
  /\ bs[b].types \subseteq Requirement[r].types
  /\ \A x \in DOMAIN blocks : blocks[x].size <= bs[x].size /\ bs[x].types \subseteq blocks[x].types
  /\ \A x \in DOMAIN bs : /\ bs[x].types # {}
                         /\ \E s \in Transients : bs[x].alignment = Requirement[s].alignment
  /\ \A p \in placed : p.block = b /\ InConflict(r, p.resource) =>
       EndOf(p) <= o \/ o + Size(r) <= p.offset

LEMMA PlacementKept ==
  ASSUME MemoryKept, UNCHANGED << scheduleVars, trackVars, precedes >>,
         NEW r, NEW bs, NEW b, NEW o, RoomFor(r, bs, b, o),
         blocks' = bs,
         placed' = placed \cup {[resource |-> r, block |-> b, offset |-> o]}
  PROVE  MemoryKept'
<1>0. /\ r \in Alive /\ \A p \in placed : p.resource # r
      /\ bs \in Seq(Requirements) /\ b \in DOMAIN bs /\ DOMAIN blocks \subseteq DOMAIN bs
      /\ o \in Nat /\ o % Requirement[r].alignment = 0 /\ o + Size(r) <= bs[b].size
      /\ bs[b].types \subseteq Requirement[r].types
      /\ \A x \in DOMAIN blocks :
           blocks[x].size <= bs[x].size /\ bs[x].types \subseteq blocks[x].types
      /\ \A x \in DOMAIN bs : /\ bs[x].types # {}
                             /\ \E s \in Transients : bs[x].alignment = Requirement[s].alignment
      /\ \A p \in placed : p.block = b /\ InConflict(r, p.resource) =>
           EndOf(p) <= o \/ o + Size(r) <= p.offset
  BY DEF RoomFor
<1>1. PICK new : new = [resource |-> r, block |-> b, offset |-> o]
  OBVIOUS
<1>2. new \in [resource: Transients, block: DOMAIN bs, offset: Nat]
  BY <1>0, <1>1 DEF Alive
<1>3. placed' = placed \cup {new} /\ new.resource = r /\ new.block = b /\ new.offset = o
  BY <1>1
<1>4. \A p \in placed : p \in [resource: Transients, block: DOMAIN bs, offset: Nat]
  BY <1>0 DEF MemoryKept
<1>5. \A p \in placed' : p \in [resource: Transients, block: DOMAIN bs, offset: Nat]
  BY <1>2, <1>3, <1>4
<1>6. /\ \A x : Touches(x)' = Touches(x)
      /\ \A x, y : InConflict(x, y)' = InConflict(x, y)
  BY OrderStays
<1>7. \A p \in placed' : Touches(p.resource)' # {}
  BY <1>0, <1>3, <1>6 DEF MemoryKept, Alive
<1>8. \A p, q \in placed' : p.resource = q.resource => p = q
  BY <1>0, <1>3 DEF MemoryKept
<1>9. EndOf(new) = o + Size(r)
  BY <1>3 DEF EndOf
<1>10. \A p \in placed : EndOf(p) \in Nat
  <2> SUFFICES ASSUME NEW p \in placed PROVE EndOf(p) \in Nat
    OBVIOUS
  <2>1. p.resource \in Transients /\ p.offset \in Nat
    BY <1>4
  <2>2. Requirement[p.resource] \in Requirements
    BY <2>1, TransientAssumption
  <2>. QED
    BY <2>1, <2>2 DEF EndOf, Size, Requirements
<1>11. ASSUME NEW p \in placed'
       PROVE  /\ p.offset % Requirement[p.resource].alignment = 0
              /\ EndOf(p) <= bs[p.block].size
              /\ bs[p.block].types \subseteq Requirement[p.resource].types
              /\ bs[p.block].types # {}
  <2>1. CASE p = new
    BY <1>0, <1>3, <1>9, <2>1
  <2>2. CASE p \in placed
    <3>1. /\ p.offset % Requirement[p.resource].alignment = 0
          /\ EndOf(p) <= blocks[p.block].size
          /\ blocks[p.block].types \subseteq Requirement[p.resource].types
      BY <2>2 DEF MemoryKept, PlacementsFit
    <3>2. PICK x \in DOMAIN blocks : x = p.block
      BY <2>2 DEF MemoryKept
    <3>3. blocks[x].size \in Nat /\ bs[x].size \in Nat
      <4>1. blocks[x] \in Requirements /\ bs[x] \in Requirements
        BY <1>0, <3>2 DEF MemoryKept
      <4>. QED
        BY <4>1 DEF Requirements
    <3>4. EndOf(p) <= bs[x].size
      BY <1>0, <1>10, <2>2, <3>1, <3>2, <3>3
    <3>. QED
      BY <1>0, <3>1, <3>2, <3>4
  <2>. QED
    BY <1>3, <2>1, <2>2
<1>12. ASSUME NEW p \in placed, Meet(p, new) \/ Meet(new, p)
       PROVE  ~ InConflict(r, p.resource)
  <2>1. p.block = b /\ p.offset < o + Size(r) /\ o < EndOf(p)
    BY <1>3, <1>9, <1>12 DEF Meet
  <2>2. p.offset \in Nat /\ o + Size(r) \in Nat
    <3>1. Requirement[r] \in Requirements
      BY <1>0, TransientAssumption DEF Alive
    <3>2. Size(r) \in Nat
      BY <3>1 DEF Size, Requirements
    <3>. QED
      BY <1>0, <1>4, <3>2
  <2>. QED
    BY <1>0, <1>10, <2>1, <2>2
<1>13. ASSUME NEW p \in placed', NEW q \in placed', p # q, Meet(p, q)
       PROVE  ~ InConflict(p.resource, q.resource)
  <2>1. CASE p \in placed /\ q \in placed
    BY <1>13, <2>1 DEF MemoryKept, SharersTakeTurns
  <2>2. CASE p = new /\ q \in placed
    BY <1>3, <1>12, <1>13, <2>2
  <2>3. CASE p \in placed /\ q = new
    BY <1>3, <1>12, <1>13, <2>3, ConflictsAreMutual
  <2>. QED
    BY <1>3, <1>13, <2>1, <2>2, <2>3
<1>14. PlacementsFit'
  BY <1>11 DEF PlacementsFit, EndOf, Size
<1>15. SharersTakeTurns'
  BY <1>6, <1>13 DEF SharersTakeTurns, Meet, EndOf, Size
<1>. QED
  BY <1>0, <1>5, <1>7, <1>8, <1>14, <1>15 DEF MemoryKept

(* Planning the memory leaves the plan as it is. *)
LEMMA PlanStays ==
  ASSUME PlanSound, ScheduleSound, step' \in {"ordered", "handed"},
         UNCHANGED << graph, async, overlap, live, queue, successors, order, trackVars >>
  PROVE  PlanSound' /\ ScheduleSound'
<1>1. UNCHANGED << graph, async, overlap, live, queue, successors, order >>
  OBVIOUS
<1>2. UNCHANGED << dedicated, at, tracked, edges, barriers, transfers, batchOf, waits >>
  BY DEF trackVars
<1>3. CompilerTypeOK'
  <2>1. \A n : QueueAt(n)' = QueueAt(n)
    BY <1>1 DEF QueueAt
  <2>2. NodeRange' = NodeRange
    BY <1>1 DEF NodeRange
  <2>3. dedicated' \in BOOLEAN /\ at' \in 1 .. Len(graph') + 2
    BY <1>1, <1>2, Zenon DEF PlanSound, CompilerTypeOK
  <2>4. (\A r \in DOMAIN tracked : TrackedOK(tracked[r]))'
    <3>1. \A r \in DOMAIN tracked : TrackedOK(tracked[r])
      BY DEF PlanSound, CompilerTypeOK
    <3>. QED
      BY <1>2, <2>2, <3>1 DEF TrackedOK
  <2>5. \A e \in edges' : e[1] < e[2] /\ QueueAt(e[1])' # QueueAt(e[2])'
    BY <1>2, <2>1 DEF PlanSound, CompilerTypeOK
  <2>6. /\ \A x \in barriers' : x.resource \in Resources /\ x.node \in NodeRange'
        /\ \A x \in transfers' : /\ x.resource \in Resources
                                /\ x.release \in NodeRange' /\ x.acquire \in NodeRange'
    BY <1>1, <1>2 DEF PlanSound, CompilerTypeOK, NodeRange
  <2>7. step' # "planned"
    OBVIOUS
  <2>. QED
    BY <2>3, <2>4, <2>5, <2>6, <2>7 DEF CompilerTypeOK
<1>4. NeverStuck' /\ WaitsAreSubmitted' /\ ContentsArrive' /\ ContentsAreLive'
  <2>1. step' # "planned" /\ step' # "resolved"
    OBVIOUS
  <2>. QED
    BY <2>1 DEF NeverStuck, WaitsAreSubmitted, ContentsArrive, OwnershipMoves, LayoutsHold,
                ContentsAreLive
<1>5. ConflictsKept' /\ FencesKeepTheirPlace'
  BY <1>1 DEF ScheduleSound, ConflictsKept, FencesKeepTheirPlace, Writes
<1>. QED
  BY <1>3, <1>4, <1>5 DEF PlanSound, ScheduleSound

LEMMA PlanOfCompiler == CompilerInv => PlanSound /\ ScheduleSound
<1> SUFFICES ASSUME CompilerInv PROVE PlanSound /\ ScheduleSound
  OBVIOUS
<1>1. NeverStuck
  BY SomePassIsBest DEF NeverStuck, CompilerInv, ScheduleInv
<1>2. PlanSound
  BY <1>1, CompilerIsTyped, WaitsGoBack, OwnershipIsMoved, LayoutsAreFound
     DEF PlanSound, ContentsArrive
<1>3. ScheduleSound
  BY ConflictsAreKept, FencesAreKept, ContentsAreKept DEF ScheduleSound, CompilerInv
<1>. QED
  BY <1>2, <1>3

LEMMA PlaceKeeps == MemoryInv /\ Place => MemoryInv'
<1> SUFFICES ASSUME MemoryInv, Place PROVE MemoryInv'
  OBVIOUS
<1>1. MemoryKept /\ step = "ordered" /\ UNCHANGED << scheduleVars, trackVars, precedes >>
  BY DEF MemoryInv, Place
<1>2. PICK r \in Alive \ { p.resource : p \in placed } :
        IF Fitting(r) = {}
        THEN /\ blocks' = Append(blocks, Requirement[r])
             /\ placed' = placed \cup
                  {[resource |-> r, block |-> Len(blocks) + 1, offset |-> 0]}
        ELSE \E b \in { Min(Fitting(r)) } : \E offset \in { OffsetIn(b, r) } :
               /\ placed' = placed \cup {[resource |-> r, block |-> b, offset |-> offset]}
               /\ blocks' =
                    [blocks EXCEPT ![b] =
                       [size |-> Max({@.size, offset + Size(r)}),
                        alignment |-> Max({@.alignment, Requirement[r].alignment}),
                        types |-> @.types \cap Requirement[r].types]]
  BY DEF Place
<1>3. r \in Alive /\ r \in Transients /\ \A p \in placed : p.resource # r
  BY DEF Alive
<1>4. Requirement[r] \in Requirements /\ Requirement[r].types # {}
  BY <1>3, TransientAssumption
<1>5. PICK m \in Nat \ {0} : m = Requirement[r].alignment
  BY <1>4 DEF Requirements
<1>6. PICK k \in Nat \ {0} : k = Size(r)
  BY <1>4 DEF Requirements, Size
<1>7. /\ blocks \in Seq(Requirements)
      /\ \A x \in DOMAIN blocks : \E s \in Transients : blocks[x].alignment = Requirement[s].alignment
      /\ \A p \in placed : p.block \in DOMAIN blocks
  BY <1>1 DEF MemoryKept
<1>8. \A x \in DOMAIN blocks : blocks[x].size \in Nat /\ blocks[x].alignment \in Nat
  <2>1. \A x \in DOMAIN blocks : blocks[x] \in Requirements
    BY <1>7
  <2>. QED
    BY <2>1 DEF Requirements
<1>9. MemoryKept'
  <2>1. CASE Fitting(r) = {}
    <3>1. PICK bs : bs = Append(blocks, Requirement[r])
      OBVIOUS
    <3>2. PICK b \in Nat : b = Len(blocks) + 1 /\ DOMAIN blocks = 1 .. b - 1
      BY <1>7
    <3>3. /\ bs \in Seq(Requirements) /\ DOMAIN bs = 1 .. b /\ bs[b] = Requirement[r]
          /\ \A x \in DOMAIN blocks : bs[x] = blocks[x]
      BY <1>4, <1>7, <3>1, <3>2
    <3>4. blocks' = bs /\ placed' = placed \cup {[resource |-> r, block |-> b, offset |-> 0]}
      BY <1>2, <2>1, <3>1, <3>2
    <3>5. b \in DOMAIN bs /\ b \notin DOMAIN blocks /\ DOMAIN blocks \subseteq DOMAIN bs
      BY <3>2, <3>3
    <3>6. \A p \in placed : p.block # b
      BY <1>7, <3>5
    <3>7. 0 % m = 0 /\ 0 + k <= bs[b].size
      <4>1. bs[b].size = k
        BY <1>6, <3>3 DEF Size
      <4>. QED
        BY <4>1
    <3>8. \A x \in DOMAIN blocks : blocks[x].size <= bs[x].size /\ bs[x].types \subseteq blocks[x].types
      BY <1>8, <3>3
    <3>9. \A x \in DOMAIN bs : /\ bs[x].types # {}
                               /\ \E s \in Transients : bs[x].alignment = Requirement[s].alignment
      <4> SUFFICES ASSUME NEW x \in DOMAIN bs
                   PROVE  /\ bs[x].types # {}
                          /\ \E s \in Transients : bs[x].alignment = Requirement[s].alignment
        OBVIOUS
      <4>1. CASE x = b
        BY <1>3, <1>4, <3>3, <4>1
      <4>2. CASE x \in DOMAIN blocks
        BY <1>1, <3>3, <4>2 DEF MemoryKept
      <4>. QED
        BY <3>2, <3>3, <4>1, <4>2
    <3>10. /\ 0 % Requirement[r].alignment = 0 /\ 0 + Size(r) <= bs[b].size
           /\ bs[b].types \subseteq Requirement[r].types
      BY <1>5, <1>6, <3>3, <3>7
    <3>11. \A p \in placed : p.block = b /\ InConflict(r, p.resource) =>
             EndOf(p) <= 0 \/ 0 + Size(r) <= p.offset
      BY <3>6
    <3>12. bs \in Seq(Requirements) /\ b \in DOMAIN bs
      BY <3>3, <3>5
    <3>13. PICK o : o = 0
      OBVIOUS
    <3>14. RoomFor(r, bs, b, o)
      BY <1>3, <3>5, <3>8, <3>9, <3>10, <3>11, <3>12, <3>13 DEF RoomFor
    <3>15. placed' = placed \cup {[resource |-> r, block |-> b, offset |-> o]} /\ blocks' = bs
      BY <3>4, <3>13
    <3>. QED
      BY <1>1, <3>14, <3>15, PlacementKept
  <2>2. CASE Fitting(r) # {}
    <3>1. Fitting(r) \in SUBSET Nat
      BY <1>7 DEF Fitting
    <3>2. PICK b \in DOMAIN blocks : b = Min(Fitting(r)) /\ b \in Fitting(r)
      BY <2>2, <3>1, LeastIs DEF Fitting
    <3>3. PICK o \in Nat : o = OffsetIn(b, r)
      BY <1>1, <1>3, OffsetFits
    <3>4. /\ o % Requirement[r].alignment = 0
          /\ \A p \in placed : p.block = b /\ InConflict(r, p.resource) =>
               EndOf(p) <= o \/ o + Size(r) <= p.offset
      BY <1>1, <1>3, <3>3, OffsetFits
    <3>5. PICK old \in Requirements : old = blocks[b]
      BY <1>7
    <3>6. /\ old.size \in Nat \ {0} /\ old.alignment \in Nat \ {0}
          /\ old.types \in SUBSET MemoryTypes
      BY DEF Requirements
    <3>7. PICK new : new = [size |-> Max({old.size, o + Size(r)}),
                            alignment |-> Max({old.alignment, Requirement[r].alignment}),
                            types |-> old.types \cap Requirement[r].types]
      OBVIOUS
    <3>8. new.size \in Nat \ {0} /\ old.size <= new.size /\ o + Size(r) <= new.size
      <4>1. PICK x \in Nat : x = o + Size(r)
        BY <1>6
      <4>2. Max({old.size, x}) \in {old.size, x} /\ old.size <= Max({old.size, x})
            /\ x <= Max({old.size, x})
        BY <3>6, GreaterOfTwo
      <4>3. new.size = Max({old.size, x})
        BY <3>7, <4>1
      <4>. QED
        BY <3>6, <4>1, <4>2, <4>3
    <3>9. new.alignment \in {old.alignment, m}
      <4>1. Max({old.alignment, m}) \in {old.alignment, m}
        BY <3>6, GreaterOfTwo
      <4>. QED
        BY <1>5, <3>7, <4>1
    <3>10. new.types = old.types \cap Requirement[r].types /\ new.types # {}
      BY <3>2, <3>5, <3>7 DEF Fitting
    <3>11. new \in Requirements
      <4>1. new.types \in SUBSET MemoryTypes
        BY <3>6, <3>10
      <4>2. new.alignment \in Nat \ {0}
        BY <3>6, <3>9
      <4>3. new = [size |-> new.size, alignment |-> new.alignment, types |-> new.types]
        BY <3>7
      <4>. QED
        BY <3>8, <4>1, <4>2, <4>3 DEF Requirements
    <3>12. PICK bs : bs = [blocks EXCEPT ![b] = new]
      OBVIOUS
    <3>13. /\ blocks' = bs
           /\ placed' = placed \cup {[resource |-> r, block |-> b, offset |-> o]}
      <4>1. blocks' = [blocks EXCEPT ![b] =
                         [size |-> Max({blocks[b].size, o + Size(r)}),
                          alignment |-> Max({blocks[b].alignment, Requirement[r].alignment}),
                          types |-> blocks[b].types \cap Requirement[r].types]]
            /\ placed' = placed \cup {[resource |-> r, block |-> b, offset |-> o]}
        BY <1>2, <2>2, <3>2, <3>3
      <4>. QED
        BY <3>5, <3>7, <3>12, <4>1
    <3>14. /\ bs \in Seq(Requirements) /\ DOMAIN bs = DOMAIN blocks /\ bs[b] = new
           /\ \A x \in DOMAIN blocks : x # b => bs[x] = blocks[x]
      BY <1>7, <3>11, <3>12
    <3>15. \A x \in DOMAIN blocks : blocks[x].size <= bs[x].size /\ bs[x].types \subseteq blocks[x].types
      <4> SUFFICES ASSUME NEW x \in DOMAIN blocks
                   PROVE  blocks[x].size <= bs[x].size /\ bs[x].types \subseteq blocks[x].types
        OBVIOUS
      <4>1. CASE x = b
        BY <3>5, <3>8, <3>10, <3>14, <4>1
      <4>2. CASE x # b
        BY <1>8, <3>14, <4>2
      <4>. QED
        BY <4>1, <4>2
    <3>16. \A x \in DOMAIN bs : /\ bs[x].types # {}
                                /\ \E s \in Transients : bs[x].alignment = Requirement[s].alignment
      <4> SUFFICES ASSUME NEW x \in DOMAIN bs
                   PROVE  /\ bs[x].types # {}
                          /\ \E s \in Transients : bs[x].alignment = Requirement[s].alignment
        OBVIOUS
      <4>1. CASE x = b
        BY <1>3, <1>5, <1>7, <3>5, <3>9, <3>10, <3>14, <4>1
      <4>2. CASE x # b
        BY <1>1, <3>14, <4>2 DEF MemoryKept
      <4>. QED
        BY <4>1, <4>2
    <3>17. o + Size(r) <= bs[b].size /\ bs[b].types \subseteq Requirement[r].types
      BY <3>8, <3>10, <3>14
    <3>18. b \in DOMAIN bs /\ DOMAIN blocks \subseteq DOMAIN bs /\ bs \in Seq(Requirements)
      BY <3>14
    <3>19. RoomFor(r, bs, b, o)
      BY <1>3, <3>4, <3>15, <3>16, <3>17, <3>18 DEF RoomFor
    <3>. QED
      BY <1>1, <3>13, <3>19, PlacementKept
  <2>. QED
    BY <2>1, <2>2
<1>10. step' = "ordered" /\ order' = order
  BY <1>1, OrderStays
<1>11. PlanningMemory'
  <2>1. UNCHANGED << graph, async, overlap, live, queue, successors, order, trackVars >>
    BY <1>1 DEF scheduleVars
  <2>2. PlanSound' /\ ScheduleSound'
    BY <1>1, <1>10, <2>1, PlanStays DEF MemoryInv, PlanningMemory
  <2>. QED
    BY <1>1, <1>10, <2>2 DEF MemoryInv, PlanningMemory
<1>12. NewcomersWait'
  BY <1>10 DEF NewcomersWait
<1>. QED
  BY <1>9, <1>11, <1>12 DEF MemoryInv

(* HandOn: of two that meet, one is before the other, so it is among those     *)
(* the other's barrier is for.                                                *)
LEMMA HandOnKeeps == MemoryInv /\ HandOn => MemoryInv'
<1> SUFFICES ASSUME MemoryInv, HandOn PROVE MemoryInv'
  OBVIOUS
<1>1. MemoryKept /\ step = "ordered" /\ step' = "handed"
      /\ UNCHANGED << graph, async, overlap, live, queue, successors, order, trackVars,
                      precedes, blocks, placed >>
  BY DEF MemoryInv, HandOn
<1>2. Len(order) \in Nat /\ DOMAIN order = 1 .. Len(order)
  BY <1>1 DEF MemoryInv, PlanningMemory
<1>3. order' = order /\ graph' = graph /\ batchOf' = batchOf /\ precedes' = precedes
      /\ tracked' = tracked
  BY <1>1 DEF trackVars
<1>4. \A n : UsedAt(n)' = UsedAt(n)
  BY <1>3 DEF UsedAt, Imports, Slots
<1>5. \A r : Touches(r)' = Touches(r)
  BY <1>3, <1>4 DEF Touches
<1>6. \A x, y : ComesBefore(x, y)' = ComesBefore(x, y)
  BY <1>3 DEF ComesBefore
<1>7. \A r, s : AllBefore(r, s)' = AllBefore(r, s)
  BY <1>5, <1>6 DEF AllBefore
<1>8. \A r, s : InConflict(r, s)' = InConflict(r, s)
  BY <1>7 DEF InConflict
<1>9. \A n, r : ScopeAt(n, r)' = ScopeAt(n, r)
  <2>1. \A n, r : SpecAt(n, r)' = SpecAt(n, r)
    BY <1>3 DEF SpecAt, ExitSpec
  <2>. QED
    BY <2>1 DEF ScopeAt
<1>10. placed' = placed /\ blocks' = blocks
  BY <1>1
<1>11. MemoryKept'
  <2>1. PlacementsFit'
    BY <1>10, <1>1 DEF MemoryKept, PlacementsFit, EndOf, Size
  <2>2. SharersTakeTurns'
    BY <1>8, <1>10, <1>1 DEF MemoryKept, SharersTakeTurns, Meet, EndOf, Size
  <2>. QED
    BY <1>1, <1>5, <1>10, <2>1, <2>2 DEF MemoryKept
<1>12. PlanningMemory'
  <2>1. PlanSound' /\ ScheduleSound'
    BY <1>1, PlanStays DEF MemoryInv, PlanningMemory
  <2>. QED
    BY <1>1, <1>2, <1>3, <2>1 DEF PlanningMemory
<1>13. \A p \in placed : Touches(p.resource) \in SUBSET Nat /\ Touches(p.resource) # {}
                         /\ Touches(p.resource) \subseteq DOMAIN order
  BY <1>1, <1>2 DEF MemoryKept, Touches
<1>14. ASSUME NEW old \in placed, NEW new \in placed, old # new, Meet(new, old),
              AllBefore(old.resource, new.resource)
       PROVE  \E h \in handoffs' :
                /\ h.node = Min(Touches(new.resource))
                /\ \A a \in Touches(old.resource) : ScopeAt(a, old.resource) \subseteq h.src
  <2>1. PICK n : n = Min(Touches(new.resource))
    OBVIOUS
  <2>2. n \in DOMAIN order
    BY <1>13, <2>1, LeastIs
  <2>3. old \in Before(new)
    BY <1>14 DEF Before
  <2>4. new \in Newcomers(n)
    BY <2>1, <2>3 DEF Newcomers
  <2>5. PICK h : h = [node |-> n,
          src |-> UNION { UNION { ScopeAt(a, q.resource) : a \in Touches(q.resource) } :
                            q \in UNION { Before(p) : p \in Newcomers(n) } },
          dst |-> UNION { ScopeAt(n, p.resource) : p \in Newcomers(n) }]
    OBVIOUS
  <2>6. h \in handoffs'
    BY <2>2, <2>4, <2>5 DEF HandOn
  <2>7. old \in UNION { Before(p) : p \in Newcomers(n) }
    BY <2>3, <2>4
  <2>8. \A a \in Touches(old.resource) : ScopeAt(a, old.resource) \subseteq h.src
    BY <2>5, <2>7
  <2>9. h.node = n
    BY <2>5
  <2>. QED
    BY <2>1, <2>6, <2>8, <2>9
<1>15. ASSUME NEW p \in placed, NEW q \in placed, p # q, Meet(p, q)
       PROVE  \E old \in {p, q} : \E new \in {p, q} \ {old} :
                /\ AllBefore(old.resource, new.resource)
                /\ \E h \in handoffs' :
                     /\ h.node = Min(Touches(new.resource))
                     /\ \A a \in Touches(old.resource) : ScopeAt(a, old.resource) \subseteq h.src
  <2>1. Meet(q, p)
    BY <1>15 DEF Meet
  <2>2. AllBefore(p.resource, q.resource) \/ AllBefore(q.resource, p.resource)
    BY <1>1, <1>15 DEF MemoryKept, SharersTakeTurns, InConflict
  <2>3. CASE AllBefore(p.resource, q.resource)
    BY <1>14, <1>15, <2>1, <2>3
  <2>4. CASE AllBefore(q.resource, p.resource)
    BY <1>14, <1>15, <2>4
  <2>. QED
    BY <2>2, <2>3, <2>4
<1>16. NewcomersWait'
  <2> SUFFICES ASSUME NEW p \in placed', NEW q \in placed', p # q, Meet(p, q)'
               PROVE  (\E old \in {p, q} : \E new \in {p, q} \ {old} :
                         /\ AllBefore(old.resource, new.resource)
                         /\ \E h \in handoffs :
                              /\ h.node = Min(Touches(new.resource))
                              /\ \A a \in Touches(old.resource) : ScopeAt(a, old.resource) \subseteq h.src)'
    BY DEF NewcomersWait
  <2>1. p \in placed /\ q \in placed /\ Meet(p, q)
    BY <1>10 DEF Meet, EndOf, Size
  <2>2. PICK old \in {p, q}, new \in {p, q} :
          /\ new # old /\ AllBefore(old.resource, new.resource)
          /\ \E h \in handoffs' :
               /\ h.node = Min(Touches(new.resource))
               /\ \A a \in Touches(old.resource) : ScopeAt(a, old.resource) \subseteq h.src
    BY <1>15, <2>1
  <2>3. PICK h \in handoffs' :
          /\ h.node = Min(Touches(new.resource))
          /\ \A a \in Touches(old.resource) : ScopeAt(a, old.resource) \subseteq h.src
    BY <2>2
  <2>4. AllBefore(old.resource, new.resource)'
    BY <1>7, <2>2
  <2>5. Touches(new.resource)' = Touches(new.resource) /\ Touches(old.resource)' = Touches(old.resource)
    BY <1>5
  <2>6. \A a \in Touches(old.resource)' : ScopeAt(a, old.resource)' \subseteq h.src
    BY <1>9, <2>3, <2>5
  <2>7. h.node = Min(Touches(new.resource)')
    BY <2>3, <2>5
  <2>8. \E g \in handoffs' : /\ g.node = Min(Touches(new.resource)')
                            /\ \A a \in Touches(old.resource)' : ScopeAt(a, old.resource)' \subseteq g.src
    BY <2>3, <2>6, <2>7
  <2>9. new \in {p, q} \ {old}
    BY <2>2
  <2>. QED
    BY <2>4, <2>8, <2>9
<1>. QED
  BY <1>11, <1>12, <1>16 DEF MemoryInv

LEMMA NothingPlaced == ASSUME placed' = {}, blocks' = << >> PROVE MemoryKept'
<1>1. << >> \in Seq(Requirements)
  OBVIOUS
<1>2. \A b \in DOMAIN << >> : FALSE
  OBVIOUS
<1>. QED
  BY <1>1, <1>2 DEF MemoryKept, PlacementsFit, SharersTakeTurns

LEMMA BuildOrderKeeps == MemoryInv /\ BuildOrder => MemoryInv'
<1> SUFFICES ASSUME MemoryInv, BuildOrder PROVE MemoryInv'
  OBVIOUS
<1>1. /\ step = "planned" /\ step' = "ordered"
      /\ UNCHANGED << graph, async, overlap, live, queue, successors, order, trackVars >>
      /\ placed' = placed /\ blocks' = blocks
  BY DEF BuildOrder
<1>2. CompilerInv /\ placed = {} /\ blocks = << >>
  BY <1>1 DEF MemoryInv, PlanningMemory
<1>3. Len(order) \in Nat /\ DOMAIN order = 1 .. Len(order)
  BY <1>2, NodeShape DEF CompilerInv, ScheduleInv
<1>4. PlanSound' /\ ScheduleSound'
  BY <1>1, <1>2, PlanOfCompiler, PlanStays
<1>5. PlanningMemory'
  BY <1>1, <1>3, <1>4 DEF PlanningMemory
<1>6. MemoryKept'
  BY <1>1, <1>2, NothingPlaced
<1>7. NewcomersWait'
  BY <1>1 DEF NewcomersWait
<1>. QED
  BY <1>5, <1>6, <1>7 DEF MemoryInv

LEMMA CompileKeeps == MemoryInv /\ Compile => MemoryInv'
<1> SUFFICES ASSUME MemoryInv, Compile PROVE MemoryInv'
  OBVIOUS
<1>1. CompilerNext /\ placed' = placed /\ blocks' = blocks
  BY DEF Compile, memoryVars
<1>2. step \in {"declared", "resolved", "tracked"}
      /\ step' \in {"declared", "resolved", "tracked", "planned"}
  BY <1>1 DEF CompilerNext, Schedule, ScheduleNext, Cull, Resolve, Pick, Track, LeaveImports, Split,
              scheduleVars
<1>3. CompilerInv /\ placed = {} /\ blocks = << >>
  BY <1>2 DEF MemoryInv, PlanningMemory
<1>4. CompilerInv'
  BY <1>1, <1>3, CompilerStepInv
<1>5. PlanningMemory'
  BY <1>1, <1>2, <1>3, <1>4 DEF PlanningMemory
<1>6. MemoryKept'
  BY <1>1, <1>3, NothingPlaced
<1>7. NewcomersWait'
  BY <1>2 DEF NewcomersWait
<1>. QED
  BY <1>5, <1>6, <1>7 DEF MemoryInv

LEMMA MemoryStutters == MemoryInv /\ UNCHANGED transientVars => MemoryInv'
<1> SUFFICES ASSUME MemoryInv, UNCHANGED transientVars PROVE MemoryInv'
  OBVIOUS
<1>1. UNCHANGED compilerVars /\ UNCHANGED memoryVars
  BY DEF transientVars
<1>2. UNCHANGED scheduleVars /\ UNCHANGED trackVars
  BY <1>1 DEF compilerVars
<1>3. /\ UNCHANGED << graph, async, overlap, live, queue, successors, order >> /\ step' = step
      /\ UNCHANGED << dedicated, at, tracked, edges, barriers, transfers, batchOf, waits >>
      /\ UNCHANGED << precedes, blocks, placed, handoffs >>
  BY <1>1, <1>2 DEF scheduleVars, trackVars, memoryVars
<1>4. PlanningMemory'
  <2>1. CASE step \in {"ordered", "handed"}
    <3>1. UNCHANGED << graph, async, overlap, live, queue, successors, order, trackVars >>
      BY <1>2, <1>3
    <3>2. PlanSound' /\ ScheduleSound'
      BY <1>3, <2>1, <3>1, PlanStays DEF MemoryInv, PlanningMemory
    <3>. QED
      BY <1>3, <2>1, <3>2 DEF MemoryInv, PlanningMemory
  <2>2. CASE step \notin {"ordered", "handed"}
    <3>1. CompilerInv'
      BY <1>1, <2>2, CompilerStepInv DEF MemoryInv, PlanningMemory
    <3>. QED
      BY <1>3, <2>2, <3>1 DEF MemoryInv, PlanningMemory
  <2>. QED
    BY <2>1, <2>2
<1>5. /\ \A r : Touches(r)' = Touches(r)
      /\ \A r, s : InConflict(r, s)' = InConflict(r, s)
  BY <1>2, <1>3, OrderStays
<1>6. MemoryKept'
  <2>1. PlacementsFit'
    BY <1>3 DEF MemoryInv, MemoryKept, PlacementsFit, EndOf, Size
  <2>2. SharersTakeTurns'
    BY <1>3, <1>5 DEF MemoryInv, MemoryKept, SharersTakeTurns, Meet, EndOf, Size
  <2>. QED
    BY <1>3, <1>5, <2>1, <2>2 DEF MemoryInv, MemoryKept
<1>7. NewcomersWait'
  <2> SUFFICES ASSUME step' = "handed", NEW p \in placed', NEW q \in placed', p # q, Meet(p, q)'
               PROVE  (\E old \in {p, q} : \E new \in {p, q} \ {old} :
                         /\ AllBefore(old.resource, new.resource)
                         /\ \E h \in handoffs :
                              /\ h.node = Min(Touches(new.resource))
                              /\ \A a \in Touches(old.resource) : ScopeAt(a, old.resource) \subseteq h.src)'
    BY DEF NewcomersWait
  <2>1. p \in placed /\ q \in placed /\ Meet(p, q) /\ step = "handed"
    BY <1>3 DEF Meet, EndOf, Size
  <2>2. PICK old \in {p, q}, new \in {p, q} :
          /\ new # old /\ AllBefore(old.resource, new.resource)
          /\ \E h \in handoffs :
               /\ h.node = Min(Touches(new.resource))
               /\ \A a \in Touches(old.resource) : ScopeAt(a, old.resource) \subseteq h.src
    BY <2>1 DEF MemoryInv, NewcomersWait
  <2>3. PICK h \in handoffs :
          /\ h.node = Min(Touches(new.resource))
          /\ \A a \in Touches(old.resource) : ScopeAt(a, old.resource) \subseteq h.src
    BY <2>2
  <2>4. AllBefore(old.resource, new.resource)'
    BY <1>2, <1>3, <2>2, OrderStays
  <2>5. \A n, r : ScopeAt(n, r)' = ScopeAt(n, r)
    BY <1>2, <1>3, OrderStays
  <2>6. Touches(new.resource)' = Touches(new.resource) /\ Touches(old.resource)' = Touches(old.resource)
    BY <1>5
  <2>7. \A a \in Touches(old.resource)' : ScopeAt(a, old.resource)' \subseteq h.src
    BY <2>3, <2>5, <2>6
  <2>8. h \in handoffs' /\ h.node = Min(Touches(new.resource)')
    BY <1>3, <2>3, <2>6
  <2>9. \E g \in handoffs' : /\ g.node = Min(Touches(new.resource)')
                            /\ \A a \in Touches(old.resource)' : ScopeAt(a, old.resource)' \subseteq g.src
    BY <2>7, <2>8
  <2>10. new \in {p, q} \ {old}
    BY <2>2
  <2>. QED
    BY <2>4, <2>9, <2>10
<1>. QED
  BY <1>4, <1>6, <1>7 DEF MemoryInv

LEMMA MemoryInvariant == TransientSpec => []MemoryInv
<1>1. TransientInit => MemoryInv
  <2> SUFFICES ASSUME TransientInit PROVE MemoryInv
    OBVIOUS
  <2>1. CompilerInv
    BY CompilerInitInv DEF TransientInit
  <2>2. placed = {} /\ blocks = << >> /\ step = "declared"
    BY DEF TransientInit, CompilerInit, ScheduleInit
  <2>3. MemoryKept
    BY <2>2 DEF MemoryKept, PlacementsFit, SharersTakeTurns
  <2>. QED
    BY <2>1, <2>2, <2>3 DEF MemoryInv, PlanningMemory, NewcomersWait
<1>2. MemoryInv /\ [TransientNext]_transientVars => MemoryInv'
  BY CompileKeeps, BuildOrderKeeps, PlaceKeeps, HandOnKeeps, MemoryStutters DEF TransientNext
<1>. QED
  BY <1>1, <1>2, PTL DEF TransientSpec

(* plan_transients(): whatever a frame's passes use and its transients need,  *)
(* every placement is aligned, within its block and of its memory types; and  *)
(* when two overlap, one is wholly before the other in the order of batches,  *)
(* and the barrier in front of the other's first pass names every stage in    *)
(* which the passes before leave that memory.                                *)
THEOREM TransientsTakeTurns == TransientSpec => [](PlacementsFit /\ NewcomersWait)
<1>1. MemoryInv => PlacementsFit /\ NewcomersWait
  BY DEF MemoryInv, MemoryKept
<1>. QED
  BY <1>1, MemoryInvariant, PTL

(* PlanSound and ScheduleSound, while the memory is planned too.              *)
THEOREM PlanStaysSound == TransientSpec => [](PlanSound /\ ScheduleSound)
<1>1. MemoryInv => PlanSound /\ ScheduleSound
  BY PlanOfCompiler DEF MemoryInv, PlanningMemory
<1>. QED
  BY <1>1, MemoryInvariant, PTL

-----------------------------------------------------------------------------
(* What the renderer remembers is what is in the atlas, once it has contents; *)
(* how the casters looked then is known as long as nothing was revised.       *)
Known ==
  shadows.initialized =>
    /\ shadows.globalValid /\ shadows.signatureValid
    /\ \A c \in Cascades :
         /\ shadows.cache[c].valid
         /\ atlas[c].matrix = shadows.cache[c].matrix
         /\ atlas[c].shape = shadows.cache[c].shape
         /\ atlas[c].light = shadows.light
         /\ atlas[c].bias = shadows.bias
         /\ atlas[c].casters.those = shadows.signature
         /\ shadows.cachedRevision = shadows.revision =>
              atlas[c].casters.look = casters.look

RevisionsGrow == shadows.cachedRevision <= shadows.revision

(* A cascade is put off no longer than its tile is old.                       *)
LagIsAge ==
  \A c \in Cascades :
    shadows.cache[c].valid => lag[c] + shadows.cache[c].last <= shadows.frame

(* What prepare_frame() leaves to record_frame().                             *)
Pending(c) ==
  IF c \in shadowFrame.mask
  THEN /\ shadowFrame.cache[c] = [valid |-> TRUE, matrix |-> Fitted(c),
                                  shape |-> settings.shape, last |-> shadows.frame]
       /\ shadowFrame.resolved[c] = Fitted(c)
       /\ lag[c] = 0
  ELSE /\ shadowFrame.cache[c] = shadows.cache[c]
       /\ shadowFrame.resolved[c] = shadows.cache[c].matrix
       /\ c # 0
       /\ ~ForceAllCascades(shadows)

Prepared ==
  moment = "prepared" =>
    \A c \in Cascades : shadowFrame.matrix[c] = Fitted(c) /\ Pending(c)

ShadowInv ==
  /\ ShadowTypeOK
  /\ Known
  /\ RevisionsGrow
  /\ LagIsAge
  /\ LagIsBounded
  /\ Prepared
  /\ TilesMatch
  /\ TilesAreCurrent
  /\ NearIsFresh
-----------------------------------------------------------------------------

(* Cascades are counted from zero.                                            *)
LEMMA CascadesCounted ==
  /\ 0 \in Cascades
  /\ Cascades \subseteq Nat
  /\ \A c \in Cascades : Periods[c] \in Nat \ {0} /\ Periods[c] < MaxCount
<1>1. Cardinality(DOMAIN Periods) \in Nat
  BY FS_CardinalityType, ShadowsAssumption
<1>. QED
  BY <1>1, ShadowsAssumption DEF Cascades

LEMMA FittedType ==
  ASSUME ShadowTypeOK, NEW c \in Cascades
  PROVE  Fitted(c) \in Matrices
<1>1. camera \div (c + 1) \in Int
  BY CascadesCounted, ShadowsAssumption DEF ShadowTypeOK
<1>2. settings.light \in {0, 1} /\ settings.shape \in {0, 1}
  BY DEF ShadowTypeOK, Settings
<1>. QED
  BY <1>1, <1>2 DEF Fitted, Matrices

(* The types of the renderer's members, by themselves.                        *)
Members ==
  [frame: 0 .. MaxCount, revision: 1 .. MaxCount, cachedRevision: 0 .. MaxCount,
   cache: [Cascades -> CachedCascades], light: {0, 1}, bias: {0, 1},
   globalValid: BOOLEAN, signature: Groups, signatureValid: BOOLEAN,
   initialized: BOOLEAN, dynamic: BOOLEAN]

(* A cache that starts over: nothing in it is valid.                          *)
LEMMA StartedOver ==
  ASSUME NEW cache \in [Cascades -> CachedCascades]
  PROVE  LET over == [c \in Cascades |-> [cache[c] EXCEPT !.valid = FALSE]]
         IN  /\ over \in [Cascades -> CachedCascades]
             /\ \A c \in Cascades : ~over[c].valid
  BY DEF CachedCascades

(* mark_shadow_casters_dirty() leaves no cache that is both initialized and   *)
(* of the revision there is now, and changes nothing else in it.              *)
LEMMA RevisedMembers ==
  ASSUME NEW s \in Members, s.cachedRevision <= s.revision
  PROVE  /\ Revised(s) \in Members
         /\ Revised(s).cachedRevision < Revised(s).revision
         /\ Revised(s).frame = s.frame
         /\ Revised(s).light = s.light /\ Revised(s).bias = s.bias
         /\ Revised(s).globalValid = s.globalValid
         /\ Revised(s).signature = s.signature
         /\ Revised(s).signatureValid = s.signatureValid
         /\ Revised(s).initialized => s.initialized /\ Revised(s).cache = s.cache
         /\ \A c \in Cascades :
              Revised(s).cache[c].valid => Revised(s).cache[c] = s.cache[c]
<1>1. CASE s.revision # MaxCount
  <2>1. s.revision + 1 \in 1 .. MaxCount
    BY <1>1, ShadowsAssumption DEF Members
  <2>. QED
    BY <1>1, <2>1 DEF Revised, Members
<1>2. CASE s.revision = MaxCount
  <2>1. s.cache \in [Cascades -> CachedCascades]
    BY DEF Members
  <2>2. 1 \in 1 .. MaxCount /\ 0 \in 0 .. MaxCount
    BY ShadowsAssumption
  <2> DEFINE over == [c \in Cascades |-> [s.cache[c] EXCEPT !.valid = FALSE]]
  <2>3. over \in [Cascades -> CachedCascades] /\ \A c \in Cascades : ~over[c].valid
    BY <2>1, StartedOver
  <2>4. Revised(s) = [s EXCEPT !.revision = 1, !.cachedRevision = 0,
                               !.initialized = FALSE, !.cache = over]
    BY <1>2 DEF Revised
  <2> HIDE DEF over
  <2>5. Revised(s) \in Members
    BY <2>2, <2>3, <2>4 DEF Members
  <2>6. /\ Revised(s).revision = 1 /\ Revised(s).cachedRevision = 0
        /\ ~Revised(s).initialized /\ Revised(s).cache = over
    BY <2>4 DEF Members
  <2>7. /\ Revised(s).frame = s.frame
        /\ Revised(s).light = s.light /\ Revised(s).bias = s.bias
        /\ Revised(s).globalValid = s.globalValid
        /\ Revised(s).signature = s.signature
        /\ Revised(s).signatureValid = s.signatureValid
    BY <2>4 DEF Members
  <2>. QED
    BY <2>3, <2>5, <2>6, <2>7
<1>. QED
  BY <1>1, <1>2

(* So does the next frame's number.                                           *)
LEMMA NextFrameMembers ==
  ASSUME NEW s \in Members
  PROVE  /\ NextFrame(s) \in Members
         /\ NextFrame(s).revision = s.revision
         /\ NextFrame(s).cachedRevision = s.cachedRevision
         /\ NextFrame(s).light = s.light /\ NextFrame(s).bias = s.bias
         /\ NextFrame(s).globalValid = s.globalValid
         /\ NextFrame(s).signature = s.signature
         /\ NextFrame(s).signatureValid = s.signatureValid
         /\ NextFrame(s).initialized => s.initialized /\ NextFrame(s).cache = s.cache
         /\ \A c \in Cascades :
              NextFrame(s).cache[c].valid =>
                /\ NextFrame(s).cache[c] = s.cache[c]
                /\ NextFrame(s).frame = s.frame + 1
<1>1. CASE s.frame # MaxCount
  <2>1. s.frame + 1 \in 0 .. MaxCount
    BY <1>1, ShadowsAssumption DEF Members
  <2>. QED
    BY <1>1, <2>1 DEF NextFrame, Members
<1>2. CASE s.frame = MaxCount
  <2>1. s.cache \in [Cascades -> CachedCascades]
    BY DEF Members
  <2>2. 1 \in 0 .. MaxCount
    BY ShadowsAssumption
  <2> DEFINE over == [c \in Cascades |-> [s.cache[c] EXCEPT !.valid = FALSE]]
  <2>3. over \in [Cascades -> CachedCascades] /\ \A c \in Cascades : ~over[c].valid
    BY <2>1, StartedOver
  <2>4. NextFrame(s) = [s EXCEPT !.frame = 1, !.initialized = FALSE, !.cache = over]
    BY <1>2 DEF NextFrame
  <2> HIDE DEF over
  <2>. QED
    BY <2>2, <2>3, <2>4 DEF Members
<1>. QED
  BY <1>1, <1>2

-----------------------------------------------------------------------------

LEMMA ShadowInitInv == ShadowInit => ShadowInv
<1> SUFFICES ASSUME ShadowInit PROVE ShadowInv
  OBVIOUS
<1>1. NoMatrix \in Matrices /\ NoCasters \in Casters
  BY DEF NoMatrix, Matrices, NoCasters, Casters, Groups
<1>2. NoCache \in CachedCascades /\ ~NoCache.valid /\ NoTile \in Tiles
  BY <1>1 DEF NoCache, CachedCascades, NoTile, Tiles
<1>3. settings \in Settings /\ casters \in Casters /\ submitted \in Casters
      /\ camera \in 0 .. CameraEnd
  BY <1>1, ShadowsAssumption DEF ShadowInit, Settings
<1>4. shadows \in Members
  BY <1>2, ShadowsAssumption DEF ShadowInit, Members, Groups
<1>5. NoFrame \in [mask: SUBSET Cascades, cache: [Cascades -> CachedCascades],
                   resolved: [Cascades -> Matrices],
                   matrix: [Cascades -> Matrices]]
  BY <1>1, <1>2 DEF NoFrame
<1>6. atlas \in [Cascades -> Tiles] /\ lag \in [Cascades -> Nat]
  BY <1>2 DEF ShadowInit
<1>7. ShadowTypeOK
  BY <1>3, <1>4, <1>5, <1>6 DEF ShadowInit, ShadowTypeOK, Members
<1>8. Known /\ RevisionsGrow /\ LagIsAge
  BY <1>2 DEF ShadowInit, Known, RevisionsGrow, LagIsAge
<1>9. LagIsBounded
  BY CascadesCounted DEF ShadowInit, LagIsBounded
<1>. QED
  BY <1>7, <1>8, <1>9
     DEF ShadowInit, ShadowInv, Prepared, TilesMatch, TilesAreCurrent, NearIsFresh

(* What the renderer has is the same, and the casters look the same.          *)
LEMMA WorldInv ==
  ASSUME ShadowInv,
         GameMoves \/ CameraMoves \/ OthersCast \/ CutoutArrives
           \/ EditorMoves \/ SettingsChange
  PROVE  ShadowInv'
<1>1. moment \in {"update", "ui"} /\ moment' = moment
      /\ UNCHANGED << submitted, shadowFrame, atlas, lag >>
  BY DEF GameMoves, CameraMoves, OthersCast, CutoutArrives, EditorMoves,
         SettingsChange, Stir
<1>2. casters' \in Casters /\ casters'.look = casters.look
  <2>1. \/ casters' = casters
        \/ casters' = [casters EXCEPT !.place = 1 - @]
        \/ casters' = [casters EXCEPT !.cut = TRUE]
        \/ \E those \in Groups : casters' = [casters EXCEPT !.those = those]
    BY DEF GameMoves, CameraMoves, OthersCast, CutoutArrives, EditorMoves,
           SettingsChange
  <2>2. casters \in Casters /\ 1 - casters.place \in {0, 1}
    BY DEF ShadowInv, ShadowTypeOK, Casters
  <2>. QED
    BY <2>1, <2>2 DEF Casters
<1>3. camera' \in 0 .. CameraEnd /\ settings' \in Settings
  <2>1. camera \in 0 .. CameraEnd /\ settings \in Settings
    BY DEF ShadowInv, ShadowTypeOK
  <2>2. camera' \in 0 .. CameraEnd
    BY <2>1 DEF GameMoves, CameraMoves, OthersCast, CutoutArrives, EditorMoves,
                SettingsChange
  <2>3. \/ settings' = settings
        \/ settings' = [settings EXCEPT !.light = 1 - @]
        \/ settings' = [settings EXCEPT !.bias = 1 - @]
        \/ settings' = [settings EXCEPT !.shape = 1 - @]
        \/ settings' = [settings EXCEPT !.cached = ~@]
    BY DEF GameMoves, CameraMoves, OthersCast, CutoutArrives, EditorMoves,
           SettingsChange
  <2>4. /\ 1 - settings.light \in {0, 1} /\ 1 - settings.bias \in {0, 1}
        /\ 1 - settings.shape \in {0, 1}
    BY <2>1 DEF Settings
  <2>. QED
    BY <2>1, <2>2, <2>3, <2>4 DEF Settings
<1>4. shadows \in Members
  BY DEF ShadowInv, ShadowTypeOK, Members
<1>5. shadows' = shadows \/ shadows' = [shadows EXCEPT !.dynamic = TRUE]
  BY DEF GameMoves, CameraMoves, OthersCast, CutoutArrives, EditorMoves, SettingsChange
<1>6. /\ shadows' \in Members
      /\ shadows'.frame = shadows.frame
      /\ shadows'.revision = shadows.revision
      /\ shadows'.cachedRevision = shadows.cachedRevision
      /\ shadows'.cache = shadows.cache
      /\ shadows'.light = shadows.light /\ shadows'.bias = shadows.bias
      /\ shadows'.globalValid = shadows.globalValid
      /\ shadows'.signature = shadows.signature
      /\ shadows'.signatureValid = shadows.signatureValid
      /\ shadows'.initialized = shadows.initialized
  BY <1>4, <1>5 DEF Members
<1>7. ShadowTypeOK'
  BY <1>1, <1>2, <1>3, <1>6 DEF ShadowInv, ShadowTypeOK, Members
<1>8. Known'
  BY <1>1, <1>2, <1>6 DEF ShadowInv, Known
<1>9. RevisionsGrow' /\ LagIsAge' /\ LagIsBounded'
  BY <1>1, <1>6 DEF ShadowInv, RevisionsGrow, LagIsAge, LagIsBounded
<1>. QED
  BY <1>1, <1>7, <1>8, <1>9
     DEF ShadowInv, Prepared, TilesMatch, TilesAreCurrent, NearIsFresh

(* What was drawn is not of this revision any more, or there is no atlas.     *)
LEMMA LookInv ==
  ASSUME ShadowInv, CastersLookDifferent
  PROVE  ShadowInv'
<1>1. moment \in {"update", "ui"} /\ moment' = moment
      /\ UNCHANGED << submitted, shadowFrame, atlas, lag, camera, settings >>
  BY DEF CastersLookDifferent, Stir
<1>2. casters' \in Casters
  BY DEF ShadowInv, ShadowTypeOK, CastersLookDifferent, Casters
<1>3. shadows \in Members /\ shadows.cachedRevision <= shadows.revision
  BY DEF ShadowInv, ShadowTypeOK, Members, RevisionsGrow
<1>4. shadows' = Revised(shadows)
  BY DEF CastersLookDifferent
<1>5. /\ shadows' \in Members
      /\ shadows'.cachedRevision < shadows'.revision
      /\ shadows'.frame = shadows.frame
      /\ shadows'.light = shadows.light /\ shadows'.bias = shadows.bias
      /\ shadows'.globalValid = shadows.globalValid
      /\ shadows'.signature = shadows.signature
      /\ shadows'.signatureValid = shadows.signatureValid
      /\ shadows'.initialized => shadows.initialized /\ shadows'.cache = shadows.cache
      /\ \A c \in Cascades :
           shadows'.cache[c].valid => shadows'.cache[c] = shadows.cache[c]
  BY <1>3, <1>4, RevisedMembers
<1>6. shadows'.cachedRevision # shadows'.revision /\ RevisionsGrow'
  BY <1>5 DEF Members, RevisionsGrow
<1>7. ShadowTypeOK'
  BY <1>1, <1>2, <1>5 DEF ShadowInv, ShadowTypeOK, Members
<1>8. Known'
  BY <1>1, <1>5, <1>6 DEF ShadowInv, Known
<1>9. LagIsAge' /\ LagIsBounded'
  BY <1>1, <1>5 DEF ShadowInv, LagIsAge, LagIsBounded
<1>. QED
  BY <1>1, <1>6, <1>7, <1>8, <1>9
     DEF ShadowInv, Prepared, TilesMatch, TilesAreCurrent, NearIsFresh

(* The scene is submitted, a frame that cannot be recorded is the last one,   *)
(* or the next one begins.                                                    *)
LEMMA PassingInv ==
  ASSUME ShadowInv, Submit \/ RecordShadowsFails \/ NextIteration
  PROVE  ShadowInv'
<1>1. moment' \in {"update", "ui", "quit"}
      /\ UNCHANGED << casters, camera, settings, shadows, atlas, lag >>
  BY DEF Submit, RecordShadowsFails, NextIteration
<1>2. NoMatrix \in Matrices /\ NoCache \in CachedCascades
  BY DEF NoMatrix, Matrices, NoCache, CachedCascades
<1>3. NoFrame \in [mask: SUBSET Cascades, cache: [Cascades -> CachedCascades],
                   resolved: [Cascades -> Matrices],
                   matrix: [Cascades -> Matrices]]
  BY <1>2 DEF NoFrame
<1>4. ShadowTypeOK'
  BY <1>1, <1>3 DEF ShadowInv, ShadowTypeOK, Submit, RecordShadowsFails, NextIteration
<1>5. Known' /\ RevisionsGrow' /\ LagIsAge' /\ LagIsBounded'
  BY <1>1 DEF ShadowInv, Known, RevisionsGrow, LagIsAge, LagIsBounded
<1>. QED
  BY <1>1, <1>4, <1>5
     DEF ShadowInv, Prepared, TilesMatch, TilesAreCurrent, NearIsFresh

(* What prepare_frame() decides from the next frame's members: a cascade that *)
(* is left alone is not the near one, nothing forces it, and if it has a      *)
(* reason its period is not over.                                             *)
LEMMA LeftAlone ==
  ASSUME NEW s, NEW c \in Cascades, c \notin UpdateMask(s)
  PROVE  /\ c # 0 /\ ~ForceAllCascades(s)
         /\ HasReason(s, c) => s.cache[c].valid
                               /\ ~(s.frame - s.cache[c].last >= Periods[c])
  BY DEF UpdateMask, PeriodDue

LEMMA PrepareInv ==
  ASSUME ShadowInv, PrepareShadows
  PROVE  ShadowInv'
<1> DEFINE s == NextFrame(shadows)
           mask == UpdateMask(s)
<1>1. moment' = "prepared"
      /\ UNCHANGED << casters, camera, settings, submitted, atlas >>
  BY DEF PrepareShadows
<1>2. /\ shadowFrame' = [mask |-> mask, resolved |-> Resolved(s, mask),
                         cache |-> PendingCache(s, mask),
                         matrix |-> [c \in Cascades |-> Fitted(c)]]
      /\ shadows' = [s EXCEPT !.dynamic = FALSE]
      /\ lag' = [c \in Cascades |->
                   IF c \in mask \/ ~HasReason(s, c) THEN 0 ELSE lag[c] + 1]
  BY DEF PrepareShadows
<1>3. shadows \in Members
  BY DEF ShadowInv, ShadowTypeOK, Members
<1>4. /\ s \in Members
      /\ s.revision = shadows.revision /\ s.cachedRevision = shadows.cachedRevision
      /\ s.light = shadows.light /\ s.bias = shadows.bias
      /\ s.globalValid = shadows.globalValid
      /\ s.signature = shadows.signature
      /\ s.signatureValid = shadows.signatureValid
      /\ s.initialized => shadows.initialized /\ s.cache = shadows.cache
      /\ \A c \in Cascades :
           s.cache[c].valid => s.cache[c] = shadows.cache[c]
                               /\ s.frame = shadows.frame + 1
  BY <1>3, NextFrameMembers
<1>5. \A c \in Cascades : Fitted(c) \in Matrices /\ Fitted(c)' = Fitted(c)
  BY <1>1, FittedType DEF ShadowInv, Fitted
<1>6. mask \subseteq Cascades
  BY DEF UpdateMask
<1> HIDE DEF s, mask
<1>7. /\ shadows' \in Members
      /\ shadows'.frame = s.frame
      /\ shadows'.revision = s.revision
      /\ shadows'.cachedRevision = s.cachedRevision
      /\ shadows'.cache = s.cache
      /\ shadows'.light = s.light /\ shadows'.bias = s.bias
      /\ shadows'.globalValid = s.globalValid
      /\ shadows'.signature = s.signature
      /\ shadows'.signatureValid = s.signatureValid
      /\ shadows'.initialized = s.initialized
  BY <1>2, <1>4 DEF Members
<1>8. /\ shadowFrame'.mask = mask
      /\ shadowFrame'.resolved = Resolved(s, mask)
      /\ shadowFrame'.cache = PendingCache(s, mask)
      /\ shadowFrame'.matrix = [c \in Cascades |-> Fitted(c)]
  BY <1>2
<1>9. \A c \in Cascades : s.cache[c] \in CachedCascades
  BY <1>4 DEF Members
<1>10. ShadowTypeOK'
  <2>1. Resolved(s, mask) \in [Cascades -> Matrices]
    BY <1>5, <1>9 DEF Resolved, CachedCascades
  <2>2. s.frame \in Nat /\ settings.shape \in {0, 1}
    BY <1>4, ShadowsAssumption DEF Members, ShadowInv, ShadowTypeOK, Settings
  <2>3. PendingCache(s, mask) \in [Cascades -> CachedCascades]
    <3>1. \A c \in Cascades :
            [valid |-> TRUE, matrix |-> Fitted(c), shape |-> settings.shape,
             last |-> s.frame] \in CachedCascades
      BY <1>5, <2>2 DEF CachedCascades
    <3>. QED
      BY <1>9, <3>1 DEF PendingCache
  <2>4. shadowFrame' \in [mask: SUBSET Cascades,
                          cache: [Cascades -> CachedCascades],
                          resolved: [Cascades -> Matrices],
                          matrix: [Cascades -> Matrices]]
    BY <1>2, <1>5, <1>6, <2>1, <2>3
  <2>5. lag' \in [Cascades -> Nat]
    BY <1>2 DEF ShadowInv, ShadowTypeOK
  <2>. QED
    BY <1>1, <1>7, <2>4, <2>5 DEF ShadowInv, ShadowTypeOK, Members
<1>11. Known'
  BY <1>1, <1>4, <1>7 DEF ShadowInv, Known
<1>12. RevisionsGrow'
  BY <1>4, <1>7 DEF ShadowInv, RevisionsGrow
<1>13. ASSUME NEW c \in Cascades
       PROVE  /\ lag'[c] < Periods[c]
              /\ shadows'.cache[c].valid =>
                   lag'[c] + shadows'.cache[c].last <= shadows'.frame
  <2>1. /\ lag[c] \in Nat /\ s.cache[c].last \in Nat
        /\ s.frame \in Nat /\ shadows.frame \in Nat
        /\ Periods[c] \in Nat \ {0}
    <3>1. lag[c] \in Nat /\ Periods[c] \in Nat \ {0}
      BY CascadesCounted DEF ShadowInv, ShadowTypeOK
    <3>2. s.cache[c].last \in Nat
      BY <1>9 DEF CachedCascades
    <3>3. s.frame \in Nat /\ shadows.frame \in Nat
      BY <1>3, <1>4, ShadowsAssumption DEF Members
    <3>. QED
      BY <3>1, <3>2, <3>3
  <2>2. s.cache[c].valid => lag[c] + s.cache[c].last <= shadows.frame
                            /\ s.frame = shadows.frame + 1
    BY <1>4 DEF ShadowInv, LagIsAge
  <2>3. CASE c \in mask \/ ~HasReason(s, c)
    BY <1>2, <1>7, <2>1, <2>2, <2>3
  <2>4. CASE c \notin mask /\ HasReason(s, c)
    <3>1. s.cache[c].valid /\ ~(s.frame - s.cache[c].last >= Periods[c])
      BY <2>4, LeftAlone DEF mask
    <3>. QED
      BY <1>2, <1>7, <2>1, <2>2, <2>4, <3>1
  <2>. QED
    BY <2>3, <2>4
<1>14. LagIsBounded' /\ LagIsAge'
  BY <1>13 DEF LagIsBounded, LagIsAge
<1>15. ForceAllCascades(shadows') = ForceAllCascades(s)
  BY <1>7 DEF ForceAllCascades, GlobalStateChanged, SceneChanged,
              ProjectionShapeChanged
<1>16. ForceAllCascades(shadows)' = ForceAllCascades(shadows')
  BY <1>1 DEF ForceAllCascades, GlobalStateChanged, SceneChanged,
              ProjectionShapeChanged
<1>17. ASSUME NEW c \in Cascades
       PROVE  (shadowFrame.matrix[c] = Fitted(c) /\ Pending(c))'
  <2>1. shadowFrame'.matrix[c] = Fitted(c)'
    BY <1>5, <1>8
  <2>2. CASE c \in mask
    BY <1>1, <1>2, <1>5, <1>7, <1>8, <2>1, <2>2
       DEF Pending, PendingCache, Resolved
  <2>3. CASE c \notin mask
    <3>1. c # 0 /\ ~ForceAllCascades(shadows)'
      BY <1>15, <1>16, <2>3, LeftAlone DEF mask
    <3>. QED
      BY <1>7, <1>8, <2>1, <2>3, <3>1 DEF Pending, PendingCache, Resolved
  <2>. QED
    BY <2>2, <2>3
<1>18. Prepared'
  BY <1>17 DEF Prepared
<1>. QED
  BY <1>1, <1>10, <1>11, <1>12, <1>14, <1>18
     DEF ShadowInv, TilesMatch, TilesAreCurrent, NearIsFresh

LEMMA RecordInv ==
  ASSUME ShadowInv, RecordShadows
  PROVE  ShadowInv'
<1>1. moment = "prepared" /\ moment' = "drawn"
      /\ UNCHANGED << casters, camera, settings, submitted, shadowFrame, lag >>
      /\ atlas' = DrawnTiles /\ shadows' = Committed
  BY DEF RecordShadows
<1>2. ASSUME NEW c \in Cascades
      PROVE  shadowFrame.matrix[c] = Fitted(c) /\ Pending(c)
  BY <1>1 DEF ShadowInv, Prepared
<1>3. shadows \in Members /\ settings \in Settings /\ submitted \in Casters
      /\ casters \in Casters
  BY DEF ShadowInv, ShadowTypeOK, Members
<1>4. shadowFrame.cache \in [Cascades -> CachedCascades]
      /\ shadowFrame.resolved \in [Cascades -> Matrices]
  BY DEF ShadowInv, ShadowTypeOK
<1>5. /\ shadows' \in Members
      /\ shadows'.frame = shadows.frame
      /\ shadows'.revision = shadows.revision
      /\ shadows'.cachedRevision = shadows.revision
      /\ shadows'.cache = shadowFrame.cache
      /\ shadows'.light = settings.light /\ shadows'.bias = settings.bias
      /\ shadows'.globalValid /\ shadows'.signatureValid
      /\ shadows'.signature = submitted.those
  <2>1. settings.light \in {0, 1} /\ settings.bias \in {0, 1}
        /\ submitted.those \in Groups
    BY <1>3 DEF Settings, Casters
  <2>2. shadows.revision \in 0 .. MaxCount
    BY <1>3, ShadowsAssumption DEF Members
  <2>3. shadows' = [shadows EXCEPT !.cache = shadowFrame.cache,
                      !.cachedRevision = shadows.revision,
                      !.light = settings.light, !.bias = settings.bias,
                      !.globalValid = TRUE, !.signature = submitted.those,
                      !.signatureValid = TRUE, !.initialized = TRUE]
    BY <1>1 DEF Committed
  <2>4. shadows' \in Members
    BY <1>3, <1>4, <2>1, <2>2, <2>3 DEF Members
  <2>. QED
    BY <1>3, <2>3, <2>4 DEF Members
<1>6. /\ Shown \in Casters
      /\ Shown.those = submitted.those /\ Shown.look = casters.look
      /\ Shown' = Shown
  BY <1>1, <1>3 DEF Shown, Casters
<1>7. \A c \in Cascades : Tile(c) \in Tiles
  BY <1>3, <1>4, <1>6 DEF Tile, Tiles, Settings
<1>8. NoTile \in Tiles
  BY DEF NoTile, Tiles, NoMatrix, Matrices, NoCasters, Casters, Groups
<1>9. atlas' \in [Cascades -> Tiles]
  BY <1>1, <1>7, <1>8 DEF DrawnTiles, ShadowInv, ShadowTypeOK
<1>10. ShadowTypeOK'
  BY <1>1, <1>5, <1>9 DEF ShadowInv, ShadowTypeOK, Members
<1>11. ASSUME NEW c \in Cascades
       PROVE  /\ shadows'.cache[c].valid
              /\ atlas'[c].matrix = shadowFrame.resolved[c]
              /\ shadowFrame.resolved[c] = shadows'.cache[c].matrix
              /\ atlas'[c].shape = shadows'.cache[c].shape
              /\ atlas'[c].shape = settings.shape
              /\ atlas'[c].light = settings.light
              /\ atlas'[c].bias = settings.bias
              /\ atlas'[c].casters.those = submitted.those
              /\ atlas'[c].casters.look = casters.look
              /\ c = 0 \/ ~settings.cached =>
                   atlas'[c].casters = Shown
                   /\ atlas'[c].matrix = shadowFrame.matrix[c]
              /\ shadows'.cache[c].valid =>
                   lag[c] + shadows'.cache[c].last <= shadows.frame
  <2>1. CASE c \in shadowFrame.mask
    <3>1. atlas'[c] = Tile(c)
      BY <1>1, <2>1 DEF DrawnTiles
    <3>2. /\ shadows'.cache[c] = [valid |-> TRUE, matrix |-> Fitted(c),
                                  shape |-> settings.shape,
                                  last |-> shadows.frame]
          /\ shadowFrame.resolved[c] = Fitted(c)
          /\ shadowFrame.matrix[c] = Fitted(c)
          /\ lag[c] = 0
      BY <1>2, <1>5, <2>1 DEF Pending
    <3>3. shadows.frame \in Nat
      BY <1>3, ShadowsAssumption DEF Members
    <3>. QED
      BY <1>6, <3>1, <3>2, <3>3 DEF Tile
  <2>2. CASE c \notin shadowFrame.mask
    <3>1. /\ shadows'.cache[c] = shadows.cache[c]
          /\ shadowFrame.resolved[c] = shadows.cache[c].matrix
          /\ c # 0 /\ ~ForceAllCascades(shadows)
      BY <1>2, <1>5, <2>2 DEF Pending
    <3>2. /\ settings.cached /\ shadows.initialized
          /\ shadows.light = settings.light /\ shadows.bias = settings.bias
          /\ shadows.signature = submitted.those
          /\ shadows.cachedRevision = shadows.revision
          /\ shadows.cache[c].shape = settings.shape
      BY <3>1 DEF ForceAllCascades, GlobalStateChanged, SceneChanged,
                  ProjectionShapeChanged
    <3>3. atlas'[c] = atlas[c]
      BY <1>1, <2>2, <3>2 DEF DrawnTiles
    <3>4. /\ shadows.cache[c].valid
          /\ atlas[c].matrix = shadows.cache[c].matrix
          /\ atlas[c].shape = shadows.cache[c].shape
          /\ atlas[c].light = shadows.light
          /\ atlas[c].bias = shadows.bias
          /\ atlas[c].casters.those = shadows.signature
          /\ atlas[c].casters.look = casters.look
          /\ lag[c] + shadows.cache[c].last <= shadows.frame
      BY <3>2 DEF ShadowInv, Known, LagIsAge
    <3>. QED
      BY <3>1, <3>2, <3>3, <3>4
  <2>. QED
    BY <2>1, <2>2
<1>12. Known'
  BY <1>1, <1>5, <1>11 DEF Known
<1>13. RevisionsGrow'
  BY <1>3, <1>5 DEF RevisionsGrow, Members
<1>14. LagIsAge' /\ LagIsBounded'
  BY <1>1, <1>5, <1>11 DEF ShadowInv, LagIsAge, LagIsBounded
<1>15. TilesMatch'
  BY <1>1, <1>11 DEF TilesMatch
<1>16. TilesAreCurrent'
  BY <1>1, <1>6, <1>11 DEF TilesAreCurrent
<1>17. NearIsFresh'
  BY <1>1, <1>6, <1>11 DEF NearIsFresh
<1>18. Prepared'
  BY <1>1 DEF Prepared
<1>. QED
  BY <1>10, <1>12, <1>13, <1>14, <1>15, <1>16, <1>17, <1>18 DEF ShadowInv

LEMMA ShadowStepInv == ShadowInv /\ [ShadowNext]_shadowVars => ShadowInv'
<1> SUFFICES ASSUME ShadowInv, [ShadowNext]_shadowVars PROVE ShadowInv'
  OBVIOUS
<1>1. CASE GameMoves \/ CameraMoves \/ OthersCast \/ CutoutArrives
             \/ EditorMoves \/ SettingsChange
  BY <1>1, WorldInv
<1>2. CASE CastersLookDifferent
  BY <1>2, LookInv
<1>3. CASE Submit \/ RecordShadowsFails \/ NextIteration
  BY <1>3, PassingInv
<1>4. CASE PrepareShadows
  BY <1>4, PrepareInv
<1>5. CASE RecordShadows
  BY <1>5, RecordInv
<1>6. CASE UNCHANGED shadowVars
  BY <1>6 DEF shadowVars, ShadowInv, ShadowTypeOK, Known, RevisionsGrow, LagIsAge,
              LagIsBounded, Prepared, Pending, Fitted, ForceAllCascades,
              GlobalStateChanged, SceneChanged, ProjectionShapeChanged,
              TilesMatch, TilesAreCurrent, NearIsFresh, Shown
<1>. QED
  BY <1>1, <1>2, <1>3, <1>4, <1>5, <1>6 DEF ShadowNext

-----------------------------------------------------------------------------

(* Whatever moves, appears, is restyled or reconfigured between any two steps *)
(* of a frame, and when a counter wraps, every tile is sampled with the       *)
(* matrix it was drawn with, is of this frame's casters, light and bias but   *)
(* for what the periods allow, and waits no longer than its period.           *)
THEOREM ShadowsSampledAsRendered == ShadowSpec => []SampledAsRendered
<1>1. ShadowInv => SampledAsRendered
  BY DEF ShadowInv, SampledAsRendered
<1>. QED
  BY ShadowInitInv, ShadowStepInv, <1>1, PTL DEF ShadowSpec

=============================================================================
