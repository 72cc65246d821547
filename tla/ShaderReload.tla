---------------------------- MODULE ShaderReload ----------------------------
(***************************************************************************)
(* Shaders that are edited while the program draws with them: the watcher  *)
(* and its queue (src/assets/shader_hot_reload_watcher.cxx,                *)
(* shader_change_queue.hxx) and the graph of files, stages and pipelines   *)
(* that is rebuilt from it (src/rendering/pipeline_graph_repository.cxx).  *)
(*                                                                         *)
(* Someone edits files; the watcher's thread pushes their names; the       *)
(* render thread drains the queue when it prepares a frame, compiles what  *)
(* is dirty - reading the file as it then is - and swaps shader objects    *)
(* under frames that the GPU may still be drawing.                         *)
(***************************************************************************)
EXTENDS Integers, Sequences, FiniteSets, Functions, SequencesExt

CONSTANTS
  Files, Stages,
  FileOf,         \* the entry-point file of each stage; includes are not watched
  StagesOf,       \* a sequence: the stages of each pipeline, a sequence each
  FramesInFlight,
  ObjectCapacity, \* of ShaderObjectStorage
  MaxEdits,       \* bound: edits in a behaviour
  MaxRefusals     \* bound: shader objects the driver refuses to create

Pipelines == DOMAIN StagesOf
UsedBy(p) == ToSet(StagesOf[p])

ASSUME ReloadAssumption ==
  /\ IsFiniteSet(Files) /\ FileOf \in [Stages -> Files]
  /\ StagesOf \in Seq(Seq(Stages))
  /\ FramesInFlight \in Nat \ {0} /\ ObjectCapacity \in Nat
  /\ Len(StagesOf) <= ObjectCapacity
  /\ MaxEdits \in Nat /\ MaxRefusals \in Nat

VARIABLES
  content,  \* what each file holds
  unseen,   \* files whose last change the watcher has not pushed yet
  queue,    \* ShaderChangeQueue::pending_
  gen,      \* change_generation_
  stage,    \* stage_nodes_
  storage,  \* shader_object_storage_: the objects, and its binary cache
  pipe,     \* pipeline_nodes_: the live object, and pending_rebuild
  retiring, \* retiring_
  at,       \* the render thread: where it is in its frame
  used,     \* per frame slot, the objects of the frame the GPU has not finished
  refusals, \* shader objects refused so far
  tries     \* history: compiles of a stage since it was last dirtied

disk == << content, unseen >>
graphVars == << stage, storage, pipe, retiring, refusals, tries >>
reloadVars == << disk, queue, gen, graphVars, at, used >>

Slots == 0 .. FramesInFlight - 1
Objects == 1 .. ObjectCapacity

\* An object is what its stages were compiled from.
Versions == 0 .. MaxEdits
Edits == Max({ content[f].version : f \in Files })

\* Mutant: the moves take the cache along, whose keys say nothing of what a
\* file held when it was compiled.
MovedWhole(s) == s

\* The moves of ShaderObjectStorage, once into the result of create() and once
\* into the repository, do not take the binary cache along.
StorageMoved(s) == [open |-> FALSE, cache |-> << >>, objects |-> s.objects]

Free(s) == Objects \ DOMAIN s.objects
NextFree(s) == Min(Free(s))

\* build_node(): a stage's binary is taken from the cache if there is one under
\* its path, entry point and kind, and is put there if there is not.
Overlaid(f, g) == [x \in DOMAIN f \cup DOMAIN g |-> IF x \in DOMAIN f THEN f[x] ELSE g[x]]
Cached(st, spirv) == IF st.open THEN Overlaid(st.cache, spirv) ELSE st.cache
Linked(st, p, spirv) == Restrict(IF st.open THEN Cached(st, spirv) ELSE spirv, UsedBy(p))
Built(st, p, compiled) ==
  LET spirv == [s \in UsedBy(p) |-> compiled[s].spirv]
  IN [open |-> st.open, cache |-> Cached(st, spirv),
      objects |-> Overlaid([o \in {NextFree(st)} |-> Linked(st, p, spirv)], st.objects)]

\* Into an empty storage, in parallel: which object is whose makes no difference,
\* so they are numbered like the pipelines.
Registered(st, compiled) ==
  LET spirv == [s \in UNION { UsedBy(p) : p \in Pipelines } |-> compiled[s].spirv]
  IN [open |-> st.open, cache |-> Cached(st, spirv),
      objects |-> [p \in Pipelines |-> Linked(st, p, spirv)]]

ReloadInit ==
  /\ content = [f \in Files |-> [version |-> 0, good |-> TRUE]]
  /\ unseen = {} /\ queue = {} /\ gen = 0
  /\ stage = [s \in Stages |-> [spirv |-> 0, dirty |-> TRUE, changed |-> 0, attempted |-> 0]]
  /\ storage = [objects |-> << >>, open |-> TRUE, cache |-> << >>]
  /\ pipe = << >> /\ retiring = {}
  /\ at = [phase |-> "creating"]
  /\ used = [k \in Slots |-> {}]
  /\ refusals = 0 /\ tries = [s \in Stages |-> 0]

----------------------------------------------------------------------------
(* Startup: PipelineGraphRepository::create(), then one batch of pipelines.  *)

Create ==
  /\ at.phase = "creating" /\ at' = [phase |-> "registering"]
  /\ storage' = StorageMoved(StorageMoved(storage))
  /\ UNCHANGED << disk, queue, gen, stage, pipe, retiring, used, refusals, tries >>

\* register_pipelines_parallel(): the files of a program that starts compile.
Register ==
  /\ at.phase = "registering"
  /\ stage' = [s \in Stages |-> [stage[s] EXCEPT !.spirv = content[FileOf[s]].version,
                                                 !.dirty = FALSE]]
  /\ storage' = Registered(storage, stage')
  /\ pipe' = [p \in Pipelines |-> [live |-> p, pending |-> FALSE]]
  /\ at' = [phase |-> "between", slot |-> 0]
  /\ UNCHANGED << disk, queue, gen, retiring, used, refusals, tries >>

Running == at.phase \in {"between", "processing"}

----------------------------------------------------------------------------
(* The outside world and the watcher's thread.                               *)

\* A file is saved: the next version of something that compiles or does not.
Edit(f, good) ==
  /\ Running /\ Edits < MaxEdits
  /\ content' = [content EXCEPT ![f] = [version |-> Edits + 1, good |-> good]]
  /\ unseen' = unseen \cup {f}
  /\ UNCHANGED << queue, gen, graphVars, at, used >>

\* handleFileAction() pushes the path; the queue is a set.
Notify(f) ==
  /\ f \in unseen /\ unseen' = unseen \ {f} /\ queue' = queue \cup {f}
  /\ UNCHANGED << content, gen, graphVars, at, used >>

----------------------------------------------------------------------------
(* The render thread, in Renderer::prepare_frame().                          *)

\* tick_retirement()
Expired == { r.object : r \in { r \in retiring : r.remaining <= 1 } }

Ticked == { [r EXCEPT !.remaining = @ - 1] : r \in { r \in retiring : r.remaining > 1 } }

\* on_files_changed(): dirties the stages of the file, marks their pipelines.
\* Mutant: a stage that is dirty already keeps its old change.
CleanDependents(changed) == { s \in Stages : FileOf[s] \in changed /\ ~stage[s].dirty }
Dependents(changed) == { s \in Stages : FileOf[s] \in changed }
Marks(p, changed) == UsedBy(p) \cap Dependents(changed) # {}

\* The loops of process_dirty(): a pipeline's turn, the stage that is next, and
\* whether all stages before it are clean.
Turn(node, next, clean) ==
  [phase |-> "processing", slot |-> at.slot, node |-> node, next |-> next, clean |-> clean]

\* A frame begins when the GPU has finished the last one in its slot; drain()
\* empties the queue and process_dirty() starts with the first pipeline.
BeginFrame ==
  /\ at.phase = "between" /\ used[at.slot] = {}
  /\ storage' = [storage EXCEPT !.objects = Restrict(@, DOMAIN @ \ Expired)]
  /\ retiring' = Ticked
  /\ queue' = {}
  /\ gen' = IF queue = {} THEN gen ELSE gen + 1
  /\ stage' = [s \in Stages |-> IF s \in Dependents(queue)
                                THEN [stage[s] EXCEPT !.dirty = TRUE, !.changed = gen']
                                ELSE stage[s]]
  /\ tries' = [s \in Stages |-> IF s \in Dependents(queue) THEN 0 ELSE tries[s]]
  /\ pipe' = [p \in Pipelines |-> [pipe[p] EXCEPT !.pending = @ \/ Marks(p, queue)]]
  /\ at' = Turn(1, 1, TRUE)
  /\ UNCHANGED << disk, used, refusals >>

Processing(p) == at.phase = "processing" /\ at.node = p /\ p \in Pipelines
Done(p) == ~pipe[p].pending \/ at.next > Len(StagesOf[p])

\* A stage that did not compile is left alone until its file changes again.
\* Mutant: the attempt at this very change does not count.
OnceHopeless(s) == stage[s].attempted > stage[s].changed
Hopeless(s) == stage[s].attempted >= stage[s].changed

\* Mutant: an attempt cleans the stage, whatever comes of it.
AttemptedOnce(node, file) ==
  [spirv |-> IF file.good THEN file.version ELSE node.spirv, dirty |-> FALSE,
   changed |-> node.changed, attempted |-> gen]

\* compile(): a failure keeps what was compiled before.
Attempted(node, file) ==
  [spirv |-> IF file.good THEN file.version ELSE node.spirv, dirty |-> ~file.good,
   changed |-> node.changed, attempted |-> gen]

\* The loop over a pipeline's stages: one compile() is one step, and the files
\* may change between two.
Compile(p) ==
  /\ Processing(p) /\ ~Done(p)
  /\ LET s == StagesOf[p][at.next]
         file == content[FileOf[s]]
         tried == stage[s].dirty /\ ~Hopeless(s)
     IN /\ stage' = IF ~tried THEN stage
                    ELSE [stage EXCEPT ![s] = Attempted(@, file)]
        /\ tries' = IF tried THEN [tries EXCEPT ![s] = @ + 1] ELSE tries
        /\ at' = Turn(p, at.next + 1, at.clean /\ ~stage'[s].dirty)
  /\ UNCHANGED << disk, queue, gen, storage, pipe, retiring, used, refusals >>

\* Mutant: a replaced object is forgotten.
Forget(o) == UNCHANGED retiring

\* retire(): the object is destroyed frames_in_flight ticks later.
Retire(o) ==
  retiring' = retiring \cup {[object |-> o, remaining |-> FramesInFlight]}

NextNode == at' = Turn(at.node + 1, 1, TRUE)

\* Mutant: the new object takes the old one's place at once.
Replaced(p) ==
  [Built(storage, p, stage) EXCEPT !.objects = Restrict(@, DOMAIN @ \ {pipe[p].live})]

\* The new object joins the old one, which stays until its frames are through.
Swapped(p) == Built(storage, p, stage)

\* All stages are clean: build_node(), then the old object retires.
Rebuild(p) ==
  /\ Processing(p) /\ Done(p) /\ pipe[p].pending /\ at.clean
  /\ Free(storage) # {}
  /\ storage' = Swapped(p)
  /\ Retire(pipe[p].live)
  /\ pipe' = [pipe EXCEPT ![p] = [live |-> NextFree(storage), pending |-> FALSE]]
  /\ NextNode
  /\ UNCHANGED << disk, queue, gen, stage, used, refusals, tries >>

\* Nothing to do, a stage is broken, or build_node() failed: the storage is full
\* or the driver refuses.  The live object stays; the pipeline stays marked.
PassOver(p) ==
  /\ Processing(p) /\ Done(p)
  /\ \/ ~(pipe[p].pending /\ at.clean) /\ UNCHANGED refusals
     \/ pipe[p].pending /\ at.clean /\ Free(storage) = {} /\ UNCHANGED refusals
     \/ /\ pipe[p].pending /\ at.clean /\ Free(storage) # {}
        /\ refusals < MaxRefusals /\ refusals' = refusals + 1
  /\ NextNode
  /\ UNCHANGED << disk, queue, gen, stage, storage, pipe, retiring, used, tries >>

SlotAfter(k) == IF k + 1 < FramesInFlight THEN k + 1 ELSE 0

\* The frame is recorded with every pipeline's live object and submitted.
EndFrame ==
  /\ at.phase = "processing" /\ at.node > Len(StagesOf)
  /\ used' = [used EXCEPT ![at.slot] = { pipe[p].live : p \in Pipelines }]
  /\ at' = [phase |-> "between", slot |-> SlotAfter(at.slot)]
  /\ UNCHANGED << disk, queue, gen, graphVars >>

GpuFinishes(k) ==
  /\ used[k] # {} /\ used' = [used EXCEPT ![k] = {}]
  /\ UNCHANGED << disk, queue, gen, graphVars, at >>

Frame ==
  \/ Create \/ Register \/ BeginFrame \/ EndFrame
  \/ \E p \in Pipelines : Compile(p) \/ Rebuild(p) \/ PassOver(p)

ReloadNext ==
  \/ Frame
  \/ \E f \in Files, good \in BOOLEAN : Edit(f, good)
  \/ \E f \in Files : Notify(f)
  \/ \E k \in Slots : GpuFinishes(k)

\* The program keeps drawing, the GPU keeps up, the file watcher delivers.
ReloadFairness ==
  /\ WF_reloadVars(Frame)
  /\ \A f \in Files : WF_reloadVars(Notify(f))
  /\ \A k \in Slots : WF_reloadVars(GpuFinishes(k))

ReloadSpec == ReloadInit /\ [][ReloadNext]_reloadVars /\ ReloadFairness

----------------------------------------------------------------------------

ReloadTypeOK ==
  /\ content \in [Files -> [version: Versions, good: BOOLEAN]]
  /\ unseen \subseteq Files /\ queue \subseteq Files /\ gen \in 0 .. MaxEdits
  /\ stage \in [Stages -> [spirv: Versions, dirty: BOOLEAN, changed: 0 .. gen, attempted: 0 .. gen]]
  /\ DOMAIN storage.objects \subseteq Objects
  /\ \A o \in DOMAIN storage.objects : storage.objects[o] \in UNION { [UsedBy(p) -> Versions] : p \in Pipelines }
  /\ Running => pipe \in [Pipelines -> [live: Objects, pending: BOOLEAN]]
  /\ \A r \in retiring : r \in [object: Objects, remaining: 1 .. FramesInFlight]
  /\ used \in [Slots -> SUBSET Objects]
  /\ refusals \in 0 .. MaxRefusals

LiveObjects == { pipe[p].live : p \in Pipelines }
Retiring == { r.object : r \in retiring }

(* Every object is some one pipeline's, or on its way out, once: nothing in   *)
(* the storage is leaked by a failed rebuild, and nothing is retired that is  *)
(* bound, or twice.  Replaced objects outlive the frames that were recorded   *)
(* with them: what a frame the GPU has not finished binds is still there,     *)
(* whenever it was replaced (retire(), tick_retirement()).                    *)
ObjectsAreOwned ==
  /\ ReloadTypeOK
  /\ \A k \in Slots : used[k] \subseteq DOMAIN storage.objects
  /\ Running =>
       /\ DOMAIN storage.objects = LiveObjects \cup Retiring
       /\ LiveObjects \cap Retiring = {}
       /\ Cardinality(LiveObjects) = Len(StagesOf)
       /\ Cardinality(Retiring) = Cardinality(retiring)

NoEditIsLost ==
  \A s \in Stages :
    \/ stage[s].dirty
    \/ stage[s].spirv = content[FileOf[s]].version
    \/ FileOf[s] \in unseen \cup queue

SettledIsBuilt ==
  \A p \in Pipelines :
    \/ pipe[p].pending
    \/ \A s \in UsedBy(p) : /\ ~stage[s].dirty
                            /\ storage.objects[pipe[p].live][s] = stage[s].spirv

(* A stage that is not dirty was compiled from what its file holds, or the    *)
(* change is on its way: an edit during the compile, between drain() and the  *)
(* compile, or while another stage of the file compiles is never lost.  And a *)
(* pipeline that is not marked for rebuild is drawn with exactly what its     *)
(* stages were last compiled to, also when another pipeline's turn compiled   *)
(* a stage they share.                                                        *)
CleanIsBuilt == Running => NoEditIsLost /\ SettledIsBuilt

(* "Retry a broken shader only after a newer file change." (struct            *)
(* ShaderStageNode): between two changes a stage is compiled once, though     *)
(* every pipeline that uses it comes to it, frame after frame.                *)
OneTryPerChange == \A s \in Stages : tries[s] <= 1

(* When the editing ends on files that compile, every pipeline ends up built  *)
(* from them, although objects must wait in retirement for room.              *)
Compiles(p) == \A s \in UsedBy(p) : content[FileOf[s]].good
ShowsTheFiles(p) ==
  Running /\ \A s \in UsedBy(p) : storage.objects[pipe[p].live][s] = content[FileOf[s]].version
EditsAreShown ==
  \A p \in Pipelines : <>[](Running => (Compiles(p) => ShowsTheFiles(p)))

(* "Cache every stage that didn't come from the cache." (shader_object.cxx,   *)
(* create_linked()): what a pipeline was built of is in the binary cache.      *)
BuiltStagesAreCached ==
  Running => \A p \in Pipelines : UsedBy(p) \subseteq DOMAIN storage.cache

=============================================================================
