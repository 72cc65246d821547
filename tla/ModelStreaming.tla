--------------------------- MODULE ModelStreaming ---------------------------
(***************************************************************************)
(* Who owns a model while it streams in: the request list of               *)
(* src/assets/model_streamer.cxx, the reference-counted slots of           *)
(* src/assets/model_storage.cxx and the renderer's functions that connect  *)
(* them (src/rendering/renderer.cxx).                                      *)
(*                                                                         *)
(* A requested model is drawn as the fallback until it is installed in     *)
(* place.  Its slot then borrows the fallback's meshes and holds a         *)
(* reference on the fallback; the streamer holds one on the slot; callers  *)
(* hold and drop as many as they like, whenever they like.                 *)
(*                                                                         *)
(* All of this runs on the render thread except the loads themselves.      *)
(* process_ready() visits every pending request; requests do not touch     *)
(* each other, so a visit is an action of its own.                         *)
(***************************************************************************)
EXTENDS Integers, FiniteSets

CONSTANTS
  Paths,     \* files models come from
  ModelCapacity,  \* slots of the model storage, without the reserved slot 0
  MaxWork,   \* bound: visits a loaded model needs before it can be installed
  MaxIssued, \* bound: models created in a behaviour
  MaxHeld    \* bound: references callers hold on one model

ASSUME StreamingAssumption ==
  /\ ModelCapacity \in Nat \ {0}
  /\ MaxWork \in Nat /\ MaxIssued \in Nat
  /\ MaxHeld \in Nat \ {0}  \* the application holds the cube

VARIABLES
  initialized, \* Renderer::initialized_
  issued,      \* how many handles were created: they are never reused
  modelStore,       \* what destroy_model() changes: slots, meshes and caches
  pendingLoads,     \* ModelStreamer::pending_
  held         \* references callers hold, per model

streamerVars == << initialized, issued, modelStore, pendingLoads, held >>

Models == 0 .. MaxIssued
Cube == 0              \* engine_models.cube, every request's fallback
NoModel == MaxIssued + 1

\* The meshes of a model: those some node draws and those no node draws.
MeshesOf(h) == {h} \X {"drawn", "undrawn"}
Meshes == Models \X {"drawn", "undrawn"}

\* A slot's borrowed_from and draws; source is the file it stands for.
SlotData == [refs: Nat, draws: SUBSET Meshes, borrowedFrom: Models \cup {NoModel},
             source: Paths \cup {"engine"}]

\* The fields of modelStore:
\*   slots:      the live slots of model_storage_
\*   meshes:     the live meshes of mesh_storage_
\*   pathCache:  ModelStreamer::path_cache_
\*   modelCache: Renderer::model_cache_
\*   failed:     ModelStreamer::failed_
Caches == [Paths -> Models \cup {NoModel}]

\* The load runs, has ended either way, or the model is installed and only
\* its textures are still on the way.
LoadStages == {"loading", "loaded", "broken", "installed"}
LoadRequests == [handle: Models, path: Paths, stage: LoadStages, work: 0 .. MaxWork]

StreamerTypeOK ==
  /\ initialized \in BOOLEAN
  /\ issued \in Models
  /\ modelStore.meshes \in SUBSET Meshes
  /\ \A h \in DOMAIN modelStore.slots : h \in Models /\ modelStore.slots[h] \in SlotData
  /\ modelStore.pathCache \in Caches /\ modelStore.modelCache \in Caches
  /\ modelStore.failed \in SUBSET Models
  /\ pendingLoads \in SUBSET LoadRequests
  /\ held \in [Models -> 0 .. MaxHeld]

NoFiles == [p \in Paths |-> NoModel]

StreamerInit ==
  /\ initialized = TRUE
  /\ issued = 0
  /\ modelStore = [slots |-> [h \in {Cube} |->
                           [refs |-> 1, draws |-> {<<Cube, "drawn">>},
                            borrowedFrom |-> NoModel, source |-> "engine"]],
              meshes |-> {<<Cube, "drawn">>},
              pathCache |-> NoFiles, modelCache |-> NoFiles, failed |-> {}]
  /\ pendingLoads = {}
  /\ held = [h \in Models |-> IF h = Cube THEN 1 ELSE 0]

----------------------------------------------------------------------------

Live(s) == DOMAIN s.slots
WithoutKey(f, x) == [y \in DOMAIN f \ {x} |-> f[y]]
WithSlot(s, h, slot) ==
  [s EXCEPT !.slots = [x \in DOMAIN @ \cup {h} |-> IF x = h THEN slot ELSE @[x]]]

\* retain_model(): a handle that is not live is left alone.
Retained(s, h) == IF h \in Live(s) THEN [s EXCEPT !.slots[h].refs = @ + 1] ELSE s

\* Mutant: a cache is not told that the model is gone.
CacheKept(cache, h) == cache

\* What ModelStreamer::forget() and destroy_model() leave of a cache.
CacheWithout(cache, h) == [p \in Paths |-> IF cache[p] = h THEN NoModel ELSE cache[p]]

\* Mutant: a model leaves its meshes behind.
LeftBehind(s, h) == {}

\* The meshes destroy_model() destroys: a pending model's are its fallback's.
OwnDraws(s, h) == IF s.slots[h].borrowedFrom = NoModel THEN s.slots[h].draws ELSE {}

\* destroy_model() past the last reference, up to the borrowed model.
Freed(s, h) ==
  [slots |-> WithoutKey(s.slots, h), meshes |-> s.meshes \ OwnDraws(s, h),
   pathCache |-> CacheWithout(s.pathCache, h),
   modelCache |-> CacheWithout(s.modelCache, h),
   failed |-> s.failed \ {h}]

\* destroy_model() of a model that borrows nothing.
DroppedOwner(s, h) ==
  CASE h \notin Live(s) -> s
    [] h \in Live(s) /\ s.slots[h].refs > 1 -> [s EXCEPT !.slots[h].refs = @ - 1]
    [] OTHER -> Freed(s, h)

\* destroy_model(): the last reference gone, a pending model gives the one it
\* has on its fallback back.  A fallback is never pending itself.
Dropped(s, h) ==
  IF h \in Live(s) /\ s.slots[h].refs = 1 /\ s.slots[h].borrowedFrom # NoModel
  THEN DroppedOwner(Freed(s, h), s.slots[h].borrowedFrom)
  ELSE DroppedOwner(s, h)

\* create_pending_model(): a copy of the fallback that borrows its meshes.
PendingSlot(s, h, p) ==
  Retained(WithSlot(s, h, [refs |-> 1, draws |-> s.slots[Cube].draws,
                           borrowedFrom |-> Cube, source |-> p]), Cube)

\* create_model(): a new model of the file p with meshes of its own.
NewModel(s, h, p) ==
  [WithSlot(s, h, [refs |-> 1, draws |-> {<<h, "drawn">>},
                   borrowedFrom |-> NoModel, source |-> p])
   EXCEPT !.meshes = @ \cup MeshesOf(h)]

\* Mutant: the upgraded slot starts over with one owner.
UpgradedAfresh(s, h) ==
  [s EXCEPT !.slots[h].refs = 1, !.slots[h].draws = {<<h, "drawn">>},
            !.slots[h].borrowedFrom = NoModel, !.meshes = @ \cup MeshesOf(h)]

\* upgrade_pending_model(): new data under the old handle and its references.
Upgraded(s, h) ==
  [WithSlot(s, h, [refs |-> s.slots[h].refs, draws |-> {<<h, "drawn">>},
                   borrowedFrom |-> NoModel, source |-> s.slots[h].source])
   EXCEPT !.meshes = @ \cup MeshesOf(h)]

\* install_model(): the fallback is not borrowed any more.
Installed(s, h) ==
  IF s.slots[h].borrowedFrom = NoModel THEN Upgraded(s, h)
  ELSE Dropped(Upgraded(s, h), s.slots[h].borrowedFrom)

\* register_model_source(): the first model of a file stays the cached one.
SourceRegistered(s, h) ==
  LET p == s.slots[h].source IN
    IF s.modelCache[p] = NoModel THEN [s EXCEPT !.modelCache[p] = h] ELSE s

\* process_ready() after an install, up to releasing the streamer's reference.
Cached(s, h) == SourceRegistered([s EXCEPT !.pathCache[s.slots[h].source] = h], h)

----------------------------------------------------------------------------

HasSlot == Cardinality(Live(modelStore)) < ModelCapacity
NewHandle == issued + 1

\* A caller has one more reference on h.
Hold(h) == held[h] < MaxHeld /\ held' = [held EXCEPT ![h] = @ + 1]

\* request() of a file that is installed.
RequestCached(p) ==
  /\ initialized
  /\ modelStore.pathCache[p] # NoModel
  /\ modelStore' = Retained(modelStore, modelStore.pathCache[p])
  /\ Hold(modelStore.pathCache[p])
  /\ UNCHANGED << initialized, issued, pendingLoads >>

\* request() when no slot can be reserved: the fallback itself is returned.
RequestFull(p) ==
  /\ initialized
  /\ modelStore.pathCache[p] = NoModel
  /\ ~HasSlot
  /\ modelStore' = Retained(modelStore, Cube)
  /\ Hold(Cube)
  /\ UNCHANGED << initialized, issued, pendingLoads >>

\* request() and request_prepared(): a pending slot with two references, the
\* caller's and the streamer's own.
Request(p) ==
  /\ initialized
  /\ modelStore.pathCache[p] = NoModel
  /\ HasSlot /\ issued < MaxIssued
  /\ issued' = NewHandle
  /\ modelStore' = Retained(PendingSlot(modelStore, NewHandle, p), NewHandle)
  /\ pendingLoads' = pendingLoads \cup
       {[handle |-> NewHandle, path |-> p, stage |-> "loading", work |-> 0]}
  /\ Hold(NewHandle)
  /\ UNCHANGED initialized

\* The background load ends: the model needs some visits more, or is broken.
LoadEnds(r) ==
  /\ r.stage = "loading"
  /\ \/ pendingLoads' = (pendingLoads \ {r}) \cup {[r EXCEPT !.stage = "broken"]}
     \/ \E work \in 0 .. MaxWork :
          pendingLoads' = (pendingLoads \ {r}) \cup {[r EXCEPT !.stage = "loaded", !.work = work]}
  /\ UNCHANGED << initialized, issued, modelStore, held >>

\* Mutant: a visit gets nothing done.
WorkedInVain(r) == r

\* A visit's share of finalization and GPU upload.
Worked(r) == [r EXCEPT !.work = @ - 1]

\* process_ready() runs out of its budget for this request.
Visit(r) ==
  /\ initialized
  /\ r.stage = "loaded" /\ r.work > 0
  /\ pendingLoads' = (pendingLoads \ {r}) \cup {Worked(r)}
  /\ UNCHANGED << initialized, issued, modelStore, held >>

\* Mutant: a failed request keeps the streamer's reference.
SettledKeepingReference(s, h) == [s EXCEPT !.failed = @ \cup {h}]

\* ModelStreamer::fail(): noted before the last reference may go.
SettledFailed(s, h) == Dropped([s EXCEPT !.failed = @ \cup {h}], h)

\* The load was broken, or finalization, upload or install_model() fails.
Fail(r) ==
  /\ initialized
  /\ r.stage \in {"broken", "loaded"}
  /\ modelStore' = SettledFailed(modelStore, r.handle)
  /\ pendingLoads' = pendingLoads \ {r}
  /\ UNCHANGED << initialized, issued, held >>

\* install_model(), the caches, then the streamer's reference.
Install(r) ==
  /\ initialized
  /\ r.stage = "loaded" /\ r.work = 0
  /\ \E installed \in {Installed(modelStore, r.handle)} :
       modelStore' = Dropped(Cached(installed, r.handle), r.handle)
  /\ pendingLoads' = (pendingLoads \ {r}) \cup {[r EXCEPT !.stage = "installed"]}
  /\ UNCHANGED << initialized, issued, held >>

\* The textures are in too and the request is erased.
TexturesThere(r) ==
  /\ initialized
  /\ r.stage = "installed"
  /\ pendingLoads' = pendingLoads \ {r}
  /\ UNCHANGED << initialized, issued, modelStore, held >>

\* Renderer::load_model() of a file it has, or a scene reusing cached_model().
LoadCached(p) ==
  /\ initialized
  /\ modelStore.modelCache[p] # NoModel
  /\ modelStore' = Retained(modelStore, modelStore.modelCache[p])
  /\ Hold(modelStore.modelCache[p])
  /\ UNCHANGED << initialized, issued, pendingLoads >>

\* Renderer::load_model() that waits for a file, or a scene's cooked model
\* after decoding: the latter may find the file cached by now.
LoadNow(p) ==
  /\ initialized
  /\ HasSlot /\ issued < MaxIssued
  /\ issued' = NewHandle
  /\ modelStore' = SourceRegistered(NewModel(modelStore, NewHandle, p), NewHandle)
  /\ Hold(NewHandle)
  /\ UNCHANGED << initialized, pendingLoads >>

\* An entity is duplicated, or given a model by its asset name.
Retain(h) ==
  /\ h \in Live(modelStore)
  /\ held[h] > 0 \/ modelStore.slots[h].borrowedFrom = NoModel
  /\ modelStore' = Retained(modelStore, h)
  /\ Hold(h)
  /\ UNCHANGED << initialized, issued, pendingLoads >>

\* release_model() by a caller; the application keeps the cube.  After
\* Renderer::destroy() a scene that is still around releases nothing.
Release(h) ==
  /\ held[h] > (IF h = Cube THEN 1 ELSE 0)
  /\ modelStore' = IF initialized THEN Dropped(modelStore, h) ELSE modelStore
  /\ held' = [held EXCEPT ![h] = @ - 1]
  /\ UNCHANGED << initialized, issued, pendingLoads >>

\* Renderer::destroy(): wait_all() drops the requests, the storages go.
Destroy ==
  /\ initialized
  /\ initialized' = FALSE
  /\ pendingLoads' = {}
  /\ modelStore' = [modelStore EXCEPT !.slots = << >>, !.meshes = {}]
  /\ UNCHANGED << issued, held >>

StreamerNext ==
  \/ \E p \in Paths : RequestCached(p) \/ RequestFull(p) \/ Request(p)
                      \/ LoadCached(p) \/ LoadNow(p)
  \/ \E r \in pendingLoads : LoadEnds(r) \/ Visit(r) \/ Fail(r) \/ Install(r) \/ TexturesThere(r)
  \/ \E h \in Models : Retain(h) \/ Release(h)
  \/ Destroy

RequestsOf(h) == { r \in pendingLoads : r.handle = h }

\* Jobs of the thread pool end, and process_ready() is called every frame.
StreamerFairness ==
  \A h \in Models \ {Cube} :
    /\ WF_streamerVars(\E r \in RequestsOf(h) : LoadEnds(r))
    /\ WF_streamerVars(\E r \in RequestsOf(h) : Visit(r) \/ Install(r) \/ TexturesThere(r)
                                        \/ (r.stage = "broken" /\ Fail(r)))

StreamerSpec == StreamerInit /\ [][StreamerNext]_streamerVars /\ StreamerFairness

----------------------------------------------------------------------------

Unsettled(h) == { r \in RequestsOf(h) : r.stage # "installed" }
Borrowers(h) == { b \in Live(modelStore) : modelStore.slots[b].borrowedFrom = h }

\* Both caches only give out models of that file that are live and installed,
\* although they are filled at different times and by different code; a
\* failure is only remembered of a model that is still there.
CachesAreInstalled ==
  /\ modelStore.failed \subseteq Live(modelStore)
  /\ \A p \in Paths : \A h \in {modelStore.pathCache[p], modelStore.modelCache[p]} \ {NoModel} :
       /\ h \in Live(modelStore)
       /\ modelStore.slots[h].source = p
       /\ modelStore.slots[h].borrowedFrom = NoModel

(* A reference count is exactly the references there are: the callers', the   *)
(* streamer's on a request that has not settled, and one per pending model    *)
(* that borrows this one; a model that was destroyed has none of them, and is *)
(* not found in a cache.                                                      *)
RefsAreOwners ==
  /\ StreamerTypeOK
  /\ initialized =>
       /\ CachesAreInstalled
       /\ \A h \in Models :
            (IF h \in Live(modelStore) THEN modelStore.slots[h].refs ELSE 0)
              = held[h] + Cardinality(Unsettled(h)) + Cardinality(Borrowers(h))

Drawn == UNION { modelStore.slots[h].draws : h \in Live(modelStore) }

(* Every mesh a live model draws, its own or the fallback's, is live, and no  *)
(* mesh that was drawn outlives the last model that draws it.                 *)
DrawnMeshesGoWithModels ==
  /\ Drawn \subseteq modelStore.meshes
  /\ modelStore.meshes \cap (Models \X {"drawn"}) \subseteq Drawn

(* A model every caller has dropped goes away, whatever its load was doing at *)
(* the time, unless somebody asks for it again.                               *)
DroppedModelsGo ==
  \A h \in Models \ {Cube} :
    (h \in Live(modelStore) /\ held[h] = 0) ~> (h \notin Live(modelStore) \/ held[h] > 0)

(* A request settles: what waits for a streamed model before it goes on, such *)
(* as a scene's deferred overrides, is not kept waiting for ever; and what    *)
(* nobody waits for any more goes.                                            *)
RequestsSettle ==
  /\ \A h \in Models \ {Cube} : (Unsettled(h) # {}) ~> (Unsettled(h) = {})
  /\ DroppedModelsGo

=============================================================================
