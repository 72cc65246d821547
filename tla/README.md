# Formal models of lathe

lathe is a C++/Vulkan game engine with an editor (`src/`, `include/`, `game/`).
This directory holds TLA+ models of the parts of it that decide *when* something
may happen: when memory the GPU reads is given away, when a slot, a reference or
a promise is released, in which order passes run and what each waits for, what a
save or a measurement is really of. TLC checks the models on small instances;
TLAPS proves the central safety properties for every value of the constants.
Paths below are relative to the repository root.

`PROJECT.json` lists the components, every run with the properties it checks,
for every property a mutation of the model that breaks it, the source lines
behind every definition, the findings, the hazards and the theorems.

1. [The system](#1-the-system)
2. [Modules and how they correspond to the code](#2-modules-and-how-they-correspond-to-the-code)
3. [Runs, bounds and what they show](#3-runs-bounds-and-what-they-show)
4. [Fairness](#4-fairness)
5. [Proofs](#5-proofs)
6. [Findings](#6-findings)
7. [What is not modelled](#7-what-is-not-modelled)
8. [Plan](#8-plan)

## 1. The system

One process, one window. The **main thread** updates and draws frame after frame
(`src/main.cxx` 315-455 and 1007-1150); a **thread pool** runs loads, saves,
texture decoding and terrain generation; the **HTTP client** owns worker threads;
a **file watcher** has its own thread; and the **GPU** trails the CPU by up to
`frames_in_flight = 2` frames (`include/core/config.hxx:5`) on one or two
physical queues.

An iteration of the main loop polls events, drains the event queue, updates the
application (a minimised window goes no further), draws, and lets the benchmark
and the renderer's resize follow. Drawing a frame is, in this order:

1. `begin_gpu_frame()`: `QueueSet::begin_slot()` waits for what the frame slot
   last submitted, on every timeline; the swapchain gives an image, or is
   recreated and the frame is skipped;
2. terrain `process_ready()`, submission of the scene, user interface;
3. `Renderer::prepare_frame()` (`src/rendering/renderer.cxx` 2552-2604): ticks of
   the pipelines' and the arena's retirement, shader changes, images, textures,
   models, environment, bindless table, materials, shadow cache;
4. `record_frame()`: the frame graph is declared, compiled and recorded;
5. `end_gpu_frame()`: submission to the queues, presentation, next slot.

### Components

| component | state it keeps | operations | hard because | correct if |
|---|---|---|---|---|
| **frame loop** (`gpu/queue_set`, `gpu/swapchain`, `main`) | slots with the values they wait for, timelines, current slot | begin_slot, acquire, submit, present, recreate | the GPU is asynchronous; a queue may sit a frame out; a frame may be skipped | a slot is not reused under the GPU; the CPU's lead is bounded; no wait for a value nobody signals |
| **geometry arena** (`assets/geometry_arena`) | live slices, `retiring_`, the buffer pair, `retired_buffers_` | allocate, grow, write, roll back, retire, tick | countdowns of frames stand in for fences; growth in the middle of a frame | nothing is reclaimed while a submission draws from it |
| **geometry allocator** (`assets/geometry_allocator`) | free ranges, capacity, used | allocate, deallocate, grow, checkpoint, rollback | alignment padding, coalescing, rollback over a growth | free ranges and slices partition the address space |
| **object pool, Holder** (`core/object_pool`, `core/holder`) | generations, free list, occupancy | allocate, acquire, get, release; move, reset, detach | stale handles, moved-from owners | a handle names one allocation for ever |
| **model streaming** (`assets/model_streamer`, `model_storage`, renderer) | pending requests, reference counts, borrowed meshes, two caches | request, process_ready, install, fail, retain, release, destroy | callers drop references while loads run; a pending model borrows another's meshes | counts are owners; caches are never stale; drops and requests end |
| **HTTP client** (`net/http_client`) | queue, workers, stop tokens, promises, files | *_async, stop, destruction, file download | condition variable, two kinds of cancellation, crash while writing | every future is answered once; files are whole |
| **terrain streaming** (`terrain/terrain_world`, `terrain_streamer`, `terrain_slot_pool`) | desired, in flight, pending, resident, slot pool, colliders | update, process_ready, physics world changes | caps on everything, dropped results, deferred reuse | slots and colliders are accounted for; residency settles |
| **frame graph** (`rendering/frame_graph`) | a plan per frame (pure function) | declare, cull, resolve queues, schedule, track, batch, place transients | two queues, ownership transfers, layouts, reordering, shared memory | every conflict is ordered, nothing needed is culled, memory is handed on |
| **renderer passes** (`rendering/renderer_frame_graph`) | settings, what an earlier pass hands a later one | declare each pass, record it | shaders reach buffers by address, which nothing can check | what is reached is declared; what is sampled was drawn |
| **shadow cache** (`rendering/renderer`) | a tile per cascade with the matrix it was drawn with, revisions, counters | submit, mark dirty, prepare, record | changes at any point of a frame; tiles kept for frames | a kept tile shows what a redraw would |
| **shader hot reload** (`assets/shader_*`, `rendering/pipeline_graph_repository`, `gpu/shader_object*`) | change queue, dirty stages, generations, live and retiring objects, binary cache | push, drain, compile, rebuild, retire | edits at any moment, shared stages, full storage | no edit is lost, no object is destroyed under a frame |
| **images, textures, bindless table** (`gpu/image_storage`, `gpu/gpu_resource_table`, `assets/texture_*`) | slots with revisions, descriptor sets per frame slot, staging per slot, a cache on disk | request, decode, upgrade, destroy, refresh, flush | descriptors of frames in flight; sources edited while they load | sets in flight describe live images; pixels are what was asked for |
| **materials, meshes** (`assets/material_storage`) | pools, dirty list, one mapped upload buffer | create, change, prepare_frame | one upload buffer for all frames in flight | a draw sees the material it was recorded with, or a newer one |
| **environment** (`rendering/environment`) | wish, decode, capture, two sets of maps, retired images | prepare, record, rebuild | a build is spread over frames while its inputs change | what is lit with is one finished build |
| **scene files** (`app/scene_files`, `serialisation/`) | scene, clean mark, title, pack, the two jobs | save, open, prompt, decode, instantiate | jobs overlap with edits, opens, crashes | a file is whole; the title tells the truth |
| **editor** (`app/application`, `scene/hierarchy_model`, `rendering/scene`) | registries, selection, references, play mode, tree | everything the panels and events do | ids shared by scene and clone; changes in the middle of a frame | references are held; play leaves nothing behind |
| **benchmark** (`app/benchmark*`) | cases, rows, queries, results | cases, frames, timings, reports | timings come frames later, or never | each number is of its frame and case; it ends |
| **startup, shutdown** (`main`, `gpu/vulkan_context`, renderer) | what exists, and who uses it | create, fail, replace, destroy | any step may fail, with jobs and the GPU at work | everything made goes once, after its users |
| **scripting, physics, shader compiler, model import, widgets, core utilities, Vulkan and libcurl wrappers, sample game** | small or external | – | – | covered by unit tests, or third party |

They interact in three ways: by **direct calls on the main thread** (the
streamers call the storages; the storages retire into the arena), by **futures
and queues polled once a frame** (terrain, model and texture streamers, scene
jobs, shader changes), and by **time**: whoever replaces something the GPU may
read counts `frames_in_flight` ticks before destroying it, and so relies on the
frame loop. The last is where a mistake is least visible, and was modelled
first.

Documentation of the repository is read with the code, and wherever the two
disagree the code is modelled (section 6).

## 2. Modules and how they correspond to the code

```
FrameLoop ─┬─► GeometryLifetime ─┐
           │                     ├─► MCAssets          PassScheduling
           │   ModelStreaming ───┘                          ▼
           └─► FrameImages ─┬─► TextureStreaming ─┐    FrameGraphCompiler
                            └─► Environment ──────┤         ▼
                               RendererResources ◄┘    TransientMemory   RendererFrame
                                       ▼                    └──────┬────────────┘
                                  MCResources                      ▼
FreeListAllocator ─┐                                 ShadowCache  MCPlan
ObjectPool ────────┤                                      └──┬─────┘
ShaderReload ─► MCReload ─► MCStorage                        ▼
TerrainStreaming ─► MCTerrain ─┘                           MCFrame

Engine ─┬─► SceneFormat ─► SceneFiles ─┐    Engine ─┬─► Startup ────┐
        └─► Hierarchy ───► Editor ─────┴► MCScenes  └─► Benchmark ──┴► MCApplication
                                                        HttpClient ──┘
```

An arrow is EXTENDS. `ObjectPool` also instantiates `HandlePool`, the promise it
implements. The `Proofs` modules extend the module they prove about
(`AssetProofs` holds the theorems of the frame loop, of the arena and of model
streaming, `FrameGraphProofs` those of PassScheduling, of the compiler, of the
transients' memory and of the shadow cache, `StorageProofs` those of the allocator,
of the pool and of the shader objects, `SceneProofs` those of the scene files and of
the editor,
`ApplicationProofs` those of the HTTP client and of the benchmark,
`RendererResourcesProofs` those of TextureStreaming and
Environment under the frames), so theorems and runs use the same
definitions. No definition is overridden in a `.cfg`; MC modules name the
instance's constants, and those that hold several subjects choose one per
behaviour (`subject`, `part`) and leave the others where they start. Each of
them is a disjoint union, so its states are the sum of its subjects' and not
their product.

### FrameLoop
`phase` is how far `draw()` has come (`between`, `open`, `prepared`, `drawn`).
`value`, `lastValue` and `done` are the timelines as signalled, as awaited per
slot, and as reached by the GPU. `recording` and `inFlight` say what the open
frame's commands and the unfinished submissions access. Actions: `BeginFrame`
(begin_slot and acquire), `WindowChanges` and `AcquireRecreates` (the frame is
skipped, the slot stays), `RecordUploads`, `PrepareFrame`, `DrawFrame`,
`EndFrame` (submission to any non-empty set of queues, presentation, next slot),
`GpuFinishes`. A frame's batches on one queue count as one submission: nothing
outside the frame waits between the first and the last. What the resources are
is left to the modules that extend it and conjoin their own steps.

### GeometryLifetime
Extends the loop with an arena whose slices are names and whose buffers come in
pairs (device buffer and staging mirror). `Upload` is an allocation with its
write and the growth it may need; `WriteFails` is the terrain slot pool's
failure that retires indices it just uploaded; `UploadNow` is a load between
frames with its own submission that is waited for; `Retire` is
`destroy_mesh()` and the rewriting of terrain slots, in each phase in which the
program does so; `Prepare` ticks both countdowns; `Draw` takes any subset of
what is live.

### FreeListAllocator
The arithmetic below the slices: best fit with alignment (`BestFit`, `Fits`),
`Carve`, `Merged`, `WithFreeTail`, `RolledBack`; and the arena's uses of it as
actions, each a whole operation: `Allocate` (try, grow, try again),
`GrowFails`, `WriteFails`, `AllocateMeshFails` (nested checkpoints),
`Deallocate`.

### ObjectPool and HandlePool
`slots`, `freeHead`, `size` are the pool's members; `holder` the Holders; `raw`
the handles kept by hand. `Release` may be given any handle ever issued that no
Holder owns, stale ones included. `HandlePool` is the promise: a handle is a
name that is issued once, live until released, and never live again. The
refinement maps `live` to the handles that resolve.

### ModelStreaming
`modelStore` holds what one call of `destroy_model()` changes together: slots,
meshes, both caches and the failures. `pending` are the requests with their
stage. One visit of `process_ready()` to one request is an action, because
requests do not touch each other. Dropping a model is `destroy_model()` with the
nested release of the borrowed model.

### FrameImages, TextureStreaming, Environment, RendererResources
`FrameImages` is `ImageStorage` beside the loop: `store` has the slots of the
pool, each with the object it owns or aliases and its revision, the pool's free
list and the live objects; `sets` has what each frame slot's descriptor set
lists. Its operators are the storage's calls; `UpdatedSet` is the comparison of
revisions that `GpuResourceTable` makes in each frame.

`TextureStreaming` adds requests (`requestOf`; `pending`, a job per image that
waits for its pixels), the worker's steps apart from each other (identify, look up the cache on disk, decode, write the
cache), since the source may be edited and the process killed between any two;
`ProcessReady` and `Flush` upload. `version` is what the source holds, `shown`
what an image's pixels were decoded from; both only serve the properties.

`Environment` is one record `env` for the `EnvironmentSystem`: the decode under
way, the radiance, the plan of the build, the two sets and what is retired. A
holder of images is the sequence of the indexes it would free.
`PrepareEnvironment` is `prepare()` as a whole; `RecordEnvironment` is
`record()`, which may not run although the plan was made. `WishChanges`,
`ShaderChanges`, `Rebuild` and `DecodeFinishes` come at any time.

`RendererResources` composes the three with the transients' allocator and the
material table as `prepare_frame()` and `record_frame()` do, in their order:
uploads, environment, table, materials, transients, table again.
`MaterialChanges` goes through creation, update, retain, release and
destruction; `GpuCopies` executes a frame's copies from the one upload buffer
when the GPU gets to them, which is later than `DrawsFrame` recorded them.

### PassScheduling, FrameGraphCompiler, TransientMemory
A behaviour is one call of `compile()`. `graph` is what the frame declares,
restricted to what `PassBuilder::access()` accepts (`Declared`). `Resolve` is
`cull()` and `resolve_queues()`, `Pick` one round of the scheduler in either
mode. Culling and reachability are stated as least fixed points rather than as
work lists, so that they can be proved about. `Track` is `Tracker::apply()`
for one pass — queue edges, barrier, chain, transfer, and what is remembered —
`LeaveImports` is the epilogue, `Split` builds the batches and their waits.
The section "What a plan orders" is independent of the tracker: it computes from
the finished plan alone what comes before what, as `check_happens_before()` in
the repository's tests does, and adds the prologue, the epilogue and layouts.

`TransientMemory` is `plan_transients()`: `BuildOrder` closes the order of the
batches, `Place` is one image put into a block (largest first, lowest offset that
meets nobody alive at the same time), `HandOn` makes the barriers in front of
newcomers; `Recorded` is what of them the executor records on a queue without
graphics.

### RendererFrame
`Frame(settings)` is the graph that `record_frame()` declares under those
settings, pass by pass. Of a pass, `accesses` is what its setup declares, and
`reached` what its record function and its shaders touch by address or index. The
graph's compiler sees the former; the properties compare the two.

### ShadowCache
`moment` follows the main loop through update, submission, interface,
`prepare_frame()` and `record_frame()`. `shadows` has the renderer's members:
revisions, signature, per cascade the cached matrix and the frame of its last
redraw, the mark of moving casters; `atlas` is what the tiles really contain.
`PrepareShadows` decides (`UpdateMask`), `RecordShadows` draws and commits,
`RecordShadowsFails` leaves before that; `GameMoves`, `EditorMoves`,
`CutoutArrives`, `SettingsChange` and the others change what a tile should show
at the points where the program lets them. Counters wrap at `MaxCount`.

### ShaderReload
`Edit` and `Notify` are a person and the watcher's thread. `BeginFrame` is the
slot wait, the tick, `drain()` and `on_files_changed()`; each `compile()` inside
`process_dirty()` is a step of its own (`Compile`), since a file may be saved
between two; `Rebuild` and `PassOver` end a pipeline's turn. `storage` contains
the binary cache; `Create` with `StorageMoved` is what becomes of it at startup.
`tries` is a history variable.

### HttpClient
`worker` says what each thread is doing, step by step where another thread, a
caller or a crash may come between: waiting, taking, looking at the destination,
sending, opening, writing, renaming. `queue` and `announced` separate the push
from `notify_one()`. A file is an inode: a thread goes on writing the one it
opened wherever it is renamed to. `Crash` keeps the disk and starts anew.
`ShareDestinations` says whether two downloads of one destination may be under
way at once; the program never has two.

### TerrainStreaming
`Update` and `ProcessReady` are `update()` and `process_ready()` as a whole: the
latter ticks the pool, uploads with budget, exhaustion and failure, binds
colliders and evicts, in this order, as a fold over the results. Walks over
unordered maps are choices. `GenerationEnds` is a job; `PhysicsWorldChanges`
is play and stop. `Views` are the sets `select_chunks()` may return.

### SceneFormat and SceneFiles
`SceneFormat` has the pure part: what `capture_scene()` makes of a scene, what
each section of the SCEN chunk can hold, what the decoder gives back
(`Decoded`), what `validate_scene()` refuses (`ReadError`), and the fingerprint
behind the "modified" mark. A value is opaque, with three odd ones: one that
validation refuses (not finite, negative, out of range, an image without a path),
one outside its enumeration, and a name nobody registered. Validation has two halves:
indices and uniqueness (`ReferencesSound`), numbers (`ValuesSane`). The settings of a
scene, its environment and physics, are one value. The order of the models,
textures and materials in a description is some order: the code's is that of first
use, and every reference goes through the index.

`SceneFiles` has the session: the scene with its models, materials and settings, `editor`
(title, pack, clean mark, prompt), the `disk`, and the jobs `save` and `load`
with their steps on workers — cook, write the temporary, rename; open, read — and
on the main thread (`UpdateSave`, `UpdateLoad`: instantiate, then hold overrides
back until their models are in). `PopulateAgain` is
`Ctrl+R`: the game makes its unnamed materials anew, resets the look of the grass and
leaves its entities as their owners. `Move`, `EditComponent`, `EditSettings` and
`EditMaterial` are the gizmo, the inspector, the environment panel and the material
editor. They leave whatever `Edited` has, which includes values that validation
refuses, since drag fields and sliders take what is typed, and the panel's source is
an image before a path is picked; no save looks at them. An earlier session may have
left files (`EarlierFile`), so a save and a crash in it also meet a file that
was good. `User` is everything a person may press
meanwhile; A model file may be missing when it is looked for (`Cooked`, `ModelSettles`), and `Crash` comes at any step. `Delete` takes the last entity, if nothing
is under it, so that entities keep their places in the list.

### Hierarchy and Editor
`Hierarchy` is the tree that is shown: nodes, groups, filter, expansion, the
rows from top to bottom. `Editor` has a registry of entities for the editor's
scene and, while playing, for its clone, the models and materials with their
reference counts, bodies, listed loads, selection, names being typed, and who
has the mouse. Each panel's operation is one action with everything it calls:
duplicate, delete, drag, rename, add a component, choose a model or a material,
save as asset, spawn, drop a file, play, stop, `Ctrl+R`, shoot, lose the focus.

### Benchmark
One iteration of the main loop is four steps, `BeginFrame`, `Poll`, `Draw` (with
the read-back of the slot's queries) and `EndFrame`, with the GPU, the download
of the game's model and a person's interrupt in between. A frame is abstracted to
what a measurement should be of: case, place on the path, scale, and whether the
model has arrived. `results`, `frames` and `reports` are what is written.

### Startup
The process is a list of operations to do (`Make`, `New`, `Try`, `Drop`, `Wait`),
taken from the code's functions in their order; a step may fail, and then its
rollback and its callers' follow. What is `alive`, what a destruction touches
(`Touched`), the jobs and the GPU decide whether a destruction is in order. `Replace` is a
recreated swapchain or resized targets, in the loop.

### Engine
`FramesInFlight`, and the value `None`.

## 3. Runs, bounds and what they show

Every run is exhaustive within its bounds and takes at most about four minutes
with two workers. Six hold several subjects (section 2); six check one statement
of the repository that the code contradicts.

| run | instance | shows |
|---|---|---|
| `assets` | 2 slots, 2 queues, 1 slice, 3 pairs, 4 frames; 2 model files, 3 slots, 3 models, 2 references each | the slot wait protects a slot's pools and bounds the CPU's lead (`FramesKeepApart`) and never blocks for good (`LoopKeepsRunning`); slices and buffers outlive the draws from them (`DrawnGeometryKept`), no frame draws what was retired (`ArenaSound`); counts equal owners and caches are installed models (`RefsAreOwners`), meshes live as long as their models (`DrawnMeshesGoWithModels`), drops and requests end (`RequestsSettle`) |
| `storage` | sizes 1, 3, 4, alignments 1, 4, 3 to 14 bytes; 3 pool slots, 2 Holders, 7 allocations, 8 generations; 2 shader files, 3 stages, 2 pipelines sharing one, 3 objects, 3 edits, 1 refusal; 1 coarse and 2 fine chunks, 2 slots per LOD, caps of 1, 1 failure | bytes are partitioned and a growth is always enough (`EveryByteAccountedFor`); Holders are sole owners (`HoldersOwnAlone`) and handles keep their promise (`ImplementsHandlePool`); no shader object is destroyed under a frame or leaked (`ObjectsAreOwned`), no edit is lost (`CleanIsBuilt`), broken files are tried once (`OneTryPerChange`), edits are shown in the end (`EditsAreShown`); terrain slots, requests and colliders are accounted for (`ChunksAccounted`), chunks collide (`FineChunksCollide`), residency settles (`ResidencySettles`) |
| `frame_plan` | the renderer's frames under 13 combinations of settings; all frames of 4 renderer-like passes, 3 loose and 4 memory-sharing ones; 1 queue, 2 queues, 2 families, both modes; 3 cascades with periods 1, 2, 3, counters up to 4, 3 changes | conflicts and fences keep their order, producers are kept (`ScheduleSound`); the scheduler ends, no batch waits for what is not submitted, owner and layout are what each pass asks for (`PlanSound`); every hazard is ordered (`ConflictsOrdered`); memory is handed on (`MemoryShared`); what shaders reach is declared (`UsesAreDeclared`); shadow tiles are sampled as they were drawn and not put off for longer than their period (`SampledAsRendered`) |
| `frame_resources` | up to 12 frames over 10 images: 2 textures over 2 sessions with 1 edit; 2 skies, a panorama, a cube, a broken file, 3 changes, amortized builds of 2 faces; 2 layouts of transients; 2 materials; 4 updates | sets in flight describe live images, staging outlives its copies (`DescribedImagesLive`); pixels are the request's and no request is forgotten (`TexturesArrive`); the lighting is a whole build and at most two builds behind (`LightingFollows`); no draw sees an old material (`MaterialsArrive`) |
| `scenes` | 2 files, one of them saved before, up to 2 entities, 1 model, 2 materials of the game, 1 texture, 1 light, settings, 2 edits, the first of anything, 1 save, 1 open, crashes; panels: 4 things done, up to 4 entities, 2 materials, 1 listed load | every file opens, no section of it is refused, its indices are in range, and only a value that the editor left can make validation refuse it (`FilesAreWhole`); title, pack and clean mark agree with the disk (`TitleIsTrue`); overrides neither leak nor free (`MaterialsAreAccountedFor`); jobs end (`JobsSettle`); references are held (`RefsAreHeld`), play leaves nothing behind (`PlayLeavesNothing`), the tree is the scene's (`HierarchyShowsTheScene`) |
| `application` | 4 sets of machines, a failure at any step, 1 replacement; 3 scenarios, 6 ways to ask for a benchmark, 1 fault; 2 threads, 2 requests, 1 file | what is destroyed still has what it needs, is not in use, and nothing is left (`TearsDownInOrder`); rows, timings and reports are of the frame and case they say (`MeasurementsAreTheirOwn`) and a benchmark ends (`BenchmarkRunsEnd`); one answer for each request and no thread left (`NothingOutlivesTheClient`, `NobodyWaitsForEver`); finished files are there, whole (`DoneIsThere`) |
| `geometry_growth` | 1 queue, 2 slices, 3 pairs | finding 1 |
| `shader_binary_cache` | that of `storage` | finding 2 |
| `scene_composition` | the renderer's frames | finding 3 |
| `shadows_left_behind` | 3 cascades, 1 change | finding 4 |
| `scene_saved_elsewhere` | 2 edits, 2 saves and 2 opens | finding 5 |
| `environment_rebuild` | that of `frame_resources` | finding 6 |

Why the bounds are enough for what they are meant to show:

- **4 frames on 2 slots** use each slot twice and let a countdown that starts in
  the first frame expire while a later one is still in flight; the proofs below
  remove the bound. 3 pairs let two growths overlap with a retired pair; 1 slice
  is enough because what is asked of a slice involves no other.
- **3 slots for 3 models and the fallback** reach the full storage; 2 files let a
  model be requested while another is installed; a file may be requested twice
  before either is installed, so both caches see competing installs.
- **14 bytes** hold several free ranges, padding in front of aligned slices, and
  more than one growth; size 3 with alignment 4 leaves holes that a size-4
  allocation nearly fits. The code's minimum alignment of 4 is 2 here so that an
  alignment below and one above it both occur.
- **3 pool slots, 7 allocations** reuse a slot at least twice; fewer allocations
  than generations, because past 2^32 reuses a handle does resolve again, which
  the code accepts.
- **Room for one shader object more than there are pipelines** makes the second
  rebuild wait for retirement. **Caps of 1** put every budget of the terrain at
  its limit: results are dropped for want of a slot while the old chunks are in
  their grace frames.
- **4 passes** are the shortest graphs in which a chained reader, a transfer
  there and back, an image whose layout changes on both queues, and a third
  transient in the memory of two occur; resources are one of each kind. The
  renderer's own frames are checked as they are.
- **Periods of 1, 2, 3 and counters up to 4** let every cascade be skipped and
  forced, and the counters wrap, within the 3 changes of a behaviour; the proof
  removes these bounds.
- **Frames of `frame_resources`**: a texture needs one frame to arrive and two to
  be let go (3); the first build is done at once, the next is spread over
  frames, a change in the middle of it is the third, its build flips after that, and
  the lighting must still be in time seven frames after the last change (12); a layout that changes twice must be released
  twice (6); the upload buffer is written again while its first copy may not
  have run (5). 10 slots of images suffice for all of these; running out is
  `HasRoom`.
- **2 entities, 2 edits, 1 save, 1 open**: an edit before and one after the
  capture, a save over a file that is there and a crash in it, a save that meets an
  open, a model shared or not, a value that is refused when it is read, and an
  override that survives the entity it was made for. Of the
  edits only the first may be of a value (`MaxValueEdits`), which is enough for one
  before a capture, after it, over an open, and under a second edit of the list of
  entities; the proofs have neither bound. **4 things done with panels** are
  the shortest way to, for instance, select, play, delete and stop.
- **6 ways to ask for a benchmark** have a single run, a sweep, one with a load given
  twice, repeats, a case before and after one with a material of its own, and a case at another scale;
  30 frames are more than any of them needs, which `BenchmarkRunsEnd` relies on
  and shows.
- **2 threads, 2 requests** cover each thread racing the other, a lost wakeup, a
  stop between the push and the take, and the leftover of a crash met by the
  next download.

`CHECK_DEADLOCK FALSE` is set in the runs because the modelled program stops in
some subject of each: the loop at its last frame, the allocator at its largest
capacity, the compiler at the end of its one call, the process at its end.

Every property has a mutation in `PROJECT.json` ("mutants") that would be a
plausible mistake in the code — a countdown one short, a forgotten merge, a
dropped wait, an order exchanged — and that makes TLC report the property
violated under the same configuration.

## 4. Fairness

- **Frame loop**: the main loop calls `draw()` until the program ends, so each
  step of a frame is weakly fair; a healthy GPU finishes what it was given
  (`GpuFinishes`, weakly). `BeginFrame` is strongly fair: a resize may disable it
  now and then, but the window is not resized before every frame for ever.
- **ModelStreaming**: thread-pool jobs end; `process_ready()` runs every frame
  and visits every request. Failing is fair only for a load that is broken.
  Callers are under no fairness: they may keep references for ever.
- **SceneFiles**: the jobs' steps on workers, the settling of models and the
  polling of a save are weakly fair, since threads run and `update_scene_jobs()`
  is called in each iteration; the polling of a load happens again and again
  while there is something for it to do. Nothing is assumed of the person, of
  missing files or of crashes.
- **HttpClient**: threads run; every wait in the handler has a timeout; joining
  and stopping are the destructor's own steps. Neither callers, spurious wakeups
  nor crashes are fair.
- **Benchmark**: the main loop goes on (`Loop`). Streaming need not settle, the
  GPU need not give timings back.
- **TerrainStreaming**: jobs end, and frames are drawn again and again
  (`[]<><<ProcessReady>>`). Nothing is assumed of the camera: `ResidencySettles`
  speaks of behaviours in which it comes to rest.
- **ShaderReload**: the render thread runs, the GPU keeps up, the watcher
  delivers. Nobody is obliged to edit or to repair a file.
- The other subjects have safety properties only.

## 5. Proofs

`tlapm` checks all of these; none uses an unproved assumption other than the
named assumptions on constants (`FramesAssumption`: at least one slot;
`GeometryAssumption`: slices and pairs are different things and are what
commands access; `GraphsAssumption` and `CompilerAssumption`: a graph is what
`PassBuilder` accepts, in which only accesses that write discard or leave an exit
state; `AllocatorAssumption`: capacity, sizes and alignments are positive;
`StreamingAssumption`: there is room for a model and the application may hold the
cube; `ReloadAssumption`: finitely many files, and room for an object per pipeline;
`PoolAssumption`: more generations than handles issued; `ShadowsAssumption`:
counters larger than every period; `ClientAssumption`: finitely many threads and
requests, whose names are not the placeholders'; `TexturesAssumption`: a texture has
one kind of source; `EnvironmentAssumption`: a cube has faces, and a name is that of
a sky, a panorama, a cube or nothing; `ResourcesAssumption`: one of the queues is the
graphics queue, to which every frame submits; `TerrainAssumption`: finitely many
chunks, budgets that are positive, and views whose chunks of one level of detail
fit the slots of that level; `TransientAssumption`: only images are transient, sizes
are positive, there is a memory type to be had, and of two alignments one divides
the other, as powers of two do; `SceneAssumption`: there is an engine model, what the
game makes is of the kinds a scene can hold and its own scene refers to what is there,
and no panel leaves a value that is in no enumeration (one that validation refuses, any
may leave);
`GameAssumption`: the game's entities show one material each, at most, and each of its
materials has a reference for every entity that shows it and one for its name;
`BenchmarkAssumption`: there is a scenario, loads are lists of counts, an option that
counts is a count, and a slot that was never used is told from one that was;
`EditorAssumption`: the bounds are numbers, and the scene the game builds shows the
engine's model, places no material and has no body yet;
`EngineAssumption`: at least one frame in flight). TLC evaluates each of them in the runs.

| module | theorem | says |
|---|---|---|
| AssetProofs | `LoopTypeCorrect` | type correctness of the frame loop |
| | `LoopKeepsApart` | `FramesKeepApart`, for every number of slots, queues and frames |
| | `ArenaTypeCorrect` | type correctness of the arena |
| | `ArenaDrawsKept` | `DrawnGeometryKept` |
| | `ArenaDrawsLive` | `ArenaSound` |
| FrameGraphProofs | `ScheduleTypeCorrect` | type correctness; the schedule has no repetition |
| | `ScheduleKeepsConflicts` | conflicting live passes keep their order, for every graph, window and mode |
| | `ScheduleKeepsFences` | what comes before a fence is what was declared before it |
| | `CullKeepsContents` | the producer of what a live pass reads is live |
| | `ScheduleIsSound` | `ScheduleSound`, the three together |
| | `ScheduleNeverStuck` | the scheduler ends, in both modes |
| | `PlannedScheduleIsSound` | `ScheduleSound`, for the whole of `compile()` |
| | `PlanIsSound` | `PlanSound`, for every set of graphs, imports and states |
| | `PassesFindContents` | `ContentsArrive`, the part of it about owners and layouts |
| | `TransientsTakeTurns` | `PlacementsFit` and `NewcomersWait`, two parts of `MemoryShared`, for every graph, size, alignment and memory type |
| | `PlanStaysSound` | `PlanSound` and `ScheduleSound`, while the memory is planned too |
| StorageProofs | `ArenaInvariant` | the free list is ordered, coalesced and covers what no slice has |
| | `BytesAccountedFor` | `EveryByteAccountedFor`, for every capacity, size and alignment |
| | `HoldersOwn` | `HoldersOwnAlone`, for every capacity and set of Holders |
| | `PoolImplementsHandlePool` | `ImplementsHandlePool`, likewise |
| AssetProofs | `ReferencesAreOwners` | `RefsAreOwners`, for any files, slots, models and references |
| | `MeshesGoWithModels` | `DrawnMeshesGoWithModels`, likewise |
| StorageProofs | `ObjectsOwned` | `ObjectsAreOwned`, for any stages, pipelines, files and frames in flight |
| | `EveryEditCompiles` | `CleanIsBuilt`, likewise |
| | `BrokenTriedOnce` | `OneTryPerChange`, likewise |
| FrameGraphProofs | `ShadowsSampledAsRendered` | `SampledAsRendered`, for every number of cascades, periods and width of the counters |
| RendererResourcesProofs | `AskedForArrives` | `TexturesArrive`, for any textures, edits, requests and sessions |
| | `DrawsSeeTheirMaterials` | `MaterialsArrive`, for any materials, queues and frames in flight |
| | `LightingIsWholeAndInTime` | `LightingFollows`, for any skies, files, changes and number of faces |
| TerrainProofs | `ChunksStayAccounted` | `ChunksAccounted`, for any chunks, views, slots, budgets and grace frames |
| SceneProofs | `FilesStayWhole` | `FilesAreWhole`, for any files, models, materials, edits (to any values) and failures |
| | `MaterialsAccounted` | `MaterialsAreAccountedFor`, likewise |
| | `EditorReferences` | `RefsAreHeld`, for any scene and any number of entities, materials, listed loads and edits |
| | `PlayLeaves` | `PlayLeavesNothing`, likewise |
| FoldFacts | `RunIsStepwise` | a fold over a sequence goes through it one element after the other |
| ApplicationProofs | `NothingOutlives` | `NothingOutlivesTheClient`, for any threads, requests and destinations |
| | `AnsweredOnce` | `PromisesSetOnce`, the safety part of `NobodyWaitsForEver` |
| | `DoneStaysThere` | `DoneIsThere`, when downloads of one destination do not overlap |
| | `RowsAreMeasured` | `MeasurementsAreTheirOwn`, for any scenarios, options and frames in flight |

**The frame loop.** Neither part of `FramesKeepApart` is inductive: after
`begin_slot()` nothing says which frames the unfinished submissions belong to
unless slots, frames and timelines are tied together. `LoopInv` does that.
`Awaited`: an unfinished submission's value has not been reached, and its slot
waits for at least that value. `SlotBehind`: a submission's slot lies as many
slots behind the current one as its frame lies frames behind. `Lead`: it is at
most `FramesInFlight` frames behind between frames, and strictly less while a
frame is open. The step that matters is `SlotWaitEnds`: with every timeline past
what the slot waits for, nothing of that slot is unfinished (`Awaited`), so
nothing `FramesInFlight` frames back is (`SlotBehind`, arithmetic modulo the
number of slots in `NextSlotWraps`).

**The arena.** `DrawnGeometryKept` needs to know that a countdown lasts:
`Outlives(retired)` says that for an unfinished submission of frame *f* that
draws an item with *n* ticks left, *f* + FramesInFlight ≤ frameNumber + *n*. A
retirement establishes it because no submission is of a later frame
(`RetiredOutlives`); a tick keeps it because both sides of the inequality move
(`TickedOutlives`); and an item on its last tick cannot be drawn by anything
unfinished, by `LoopInv`'s `Lead` in phase `open` (`DrawnSurvivesTick`).
`RecordedDraws` keeps what the open frame has recorded live until it is
submitted, `NotHeldAndRetired` keeps items from being in two places. The
argument holds with no tick to spare, and only for draws: for copies recorded
before the tick it fails, which is finding 1.

**The scheduler.** The scheduler follows edges from the last writer and from
readers since. `ConflictsAreScheduled` shows that this is enough for every
conflict of a pass *p* with a later candidate *b* over a resource: if no live pass
between them writes it, there is an edge from *p* to *b*; otherwise the last such
writer (`GreatestOf`) has an edge to *b*, so it is scheduled already, and *p*, which
conflicts with it, was scheduled before it (`ConflictsFirst`). In `declaration_order` mode,
which takes the earliest pass, everything a pass could wait for is earlier
(`BestIsReady`). Existence of least and greatest elements (`LeastOf`,
`GreatestOf`) rests on the library's well-foundedness of the natural numbers.
That contents are live is from the closure of `Live`.

**The shadow cache.** `ShadowInv` adds four things to what is proved. `Known`:
once there are contents, what the renderer remembers of a tile (matrix, shape,
light, bias, signature) is what the atlas holds, and the casters' looks are known
as long as nothing was revised. `RevisionsGrow` is what makes "revision #
cached revision" mean that something changed, also when the revision wraps,
because wrapping throws the contents away (`RevisedMembers`). `LagIsAge` ties how
long a cascade was put off to the age of its tile. `Prepared` carries the
decision of `prepare_frame()` to `record_frame()`, across whatever changes in
between.

**The pool.** `StorageInv` holds the types, `FreeListIsTheRest` — there is a
threading of exactly the unoccupied slots that starts at `freeHead` and ends,
given explicitly as a function so that taking and freeing a slot construct the
next one — and how many generations are left (`GenerationsLeft`,
`IssuedBefore`: a handle not issued yet cannot resolve). `OwnersInv` adds the
Holders. `allocate()` fails only when every slot is taken because occupied
slots and live handles are in bijection (`RoomIsLeft`). For the refinement,
`ResolvesWhileLive` shows that `HandlePool`'s `live` is the pool's; then taking a
slot is its `Allocate`, freeing one its `Release`, and everything else stutters.

**The HTTP client.** `ClientInv` says where a request is: what is pending is in the
queue or with exactly one thread (`RequestsAreSomewhere`), a call that was off
before it was taken is with no thread past its first look (`CallsAreOff`), and
threads that look at or write files have destinations. That a promise is set
once and that the destructor forgets nobody follow from it. `FileInv` is about the
disk: pending downloads have different destinations (`OneDownload`), the inode a
request created is at its own destination or next to it and nowhere else
(`InodesInPlace`; a request that has not opened its file, `Fresh`, has none), and a
thread between opening and renaming writes the file that has its temporary's name
(`WritersOwnTheirs`). Hence what is renamed is whole, and truncating or removing
a temporary never touches what is in place, a temporary left by a failure or a
crash included. Only `Enqueue` uses ~`ShareDestinations`.

**The plan.** `schedule()` never runs dry because the first live pass not yet
scheduled waits for nothing that is not: its predecessors were declared before it
(`SomePassIsBest`). For the rest of `compile()`, `CompilerInv` says while nodes are
being tracked what the tracker knows, in terms of the graph alone. `TracksUses`:
the tracker's owner, last access and layout of a resource are those of its last
user so far; a resource nobody used is untouched. `MovesRecorded`,
`LayoutsFound`: every change of queue family and of layout between neighbouring
users, up to where tracking has come, has its transfer, edge or barrier. The
tracker asks for a transfer only of what has a writer, so one thing has to be
known of the schedule: the first live user of a transient writes it
(`FirstUseWrites`). If it only read, its producer would not have been culled, and
would have run before it, by the scheduler's invariant. `AfterFacts` says once what
`Tracker::apply()` does to a state; the lemmas `Applied...` use it per part of the
invariant. Batches need existence arguments: every node's batch has a first node
(`BatchFacts`), an edge's target starts a batch and its source ends one
(`EdgeFacts`), and a wait is for the greatest of the sources, so for all of them
(`WaitFacts`). What is complete before a batch starts is a recursion along
the waits, which go backwards, so it has a solution (`WaitsEnd`, by a least
counterexample) and contains what is waited for directly (`CompleteWaits`).

**The memory of transients.** What placing one keeps is `SharersTakeTurns`: no two
that overlap in a block conflict. A newcomer to a block is clear of all it
conflicts with because its offset is chosen among starts that are clear (`OffsetFits`),
and there is one: the last start is behind all that is taken. Starts are
multiples of the block's alignment so far and of the newcomer's, since the greater of
two is a multiple of both (`DividesOn`, `AlignedUp`). `RoomFor` says what either way
of placing a transient provides, `PlacementKept` that it is enough; blocks only grow and
lose memory types that nobody in them needs. What does not conflict is ordered
one way or the other (`AllBefore`), so of two that overlap one is among those
`Before` the other, whose stages the barrier at its first pass collects
(`HandOnKeeps`). None of this looks at how the order of batches came about. That
`NewcomersWait` is about those pairs needs that `order` and `uses` stay as they were
compiled, which is `PlanStays`.

**The allocator.** `Accounts(a, T)` is what every operation keeps, with *T* the
bytes in use: the free list is ordered, no range touches the next, it covers
exactly the bytes below the capacity that are not in *T*, and `used` is |*T*|. The
lists are lemmas of their own: a range is replaced by what `Carve` leaves of it
(`PartReplaced`, `TakenOut`), inserted, and merged on both sides (`Inserted`,
`Absorbed`, `Returned`). Growth appends a free tail or extends the last range
(`TailIsFree`), which is also how a rollback keeps the capacity: it needs the
checkpoint's account and nothing else of what happened since
(`RolledBackAccounts`). That one growth always suffices (`ReadyAccounts`) is
arithmetic: the slice fits behind the old capacity rounded up to its
alignment. Best fit chooses among finitely many ranges, so there is one.

**Model streaming.** `Counted(s, owners)` says that a model's count is its owners
outside the storage — callers and the requests that are not through — and the
models that borrow from it. Each call of the storage is a lemma about `Counted`
with the owners it adds or takes; in `install_model()` the reference on the
fallback is for a moment nobody's (`GivenBack`). The nesting of `destroy_model()`
ends because only the cube is borrowed from and the cube borrows nothing
(`OnlyTheCubeLends`), and a request has one handle to itself (`OneRequestEach`).

**Hot reload.** `ReloadInv` has three parts. Objects: each is one pipeline's or
retires once (`OneOwner`), and what slot *j* bound is live or has the ticks left
until the loop comes to *j* again (`FramesKeepObjects`, the arena's argument in
terms of slots). Edits: what a stage was compiled from is what its file holds,
or the change is unseen, queued, or has dirtied the stage; during a pipeline's turn
the stages it has passed are clean if it is still taking itself for clean
(`CleanSoFar`). Tries: a stage is marked with the change it was tried for
(`TriesCounted`). That the generation counter stays within its bound needs the
edits counted: each batch of changes uses up one (`EditsCounted`).

**Textures.** Nothing about an image can be kept without saying what its job knows
of the source (`JobKnows`: the version it was asked for, the one it identified, the
one it decoded, in this order) and what the cache on disk may hold
(`CachedLater`: under an identity lie the pixels of that version or of a later one,
because a file may change between the look at it and the decoding). A restart
forgets the jobs and keeps the cache.

**Materials.** A frame's copies read the upload buffer when the GPU gets to them, so
they take what later frames wrote there. `TableCatchesUp` says who makes up for a
table that lags: a material is dirty or in the buffer, and in the table or copied by
a frame that is still to come (`CopyToCome`); `FramesSee` says it of the frames that
have been recorded. That copies come in the order of the frames needs the graphics
queue's timeline to be the frame number (`FramesSubmitted`), which holds because
every frame submits to that queue.

**Lighting.** `SourceHolds` ties the radiance cube to its source: it is loaded as soon
as it has one, and holds what the source names unless the panorama was let go.
`BuildGoesOn` says which builds outlive a frame: those of a sky, out of the shared
cube that still holds the capture, into the set that is not live. `LiveIsWhole` is
the first half of the property. The second half needs a bound on how late a build
can be: `SkyBehind` counts the quiet frames against the faces made, through the
build that was under way when the wish changed and the one after it; under a file
there is no build that lasts, and the frame that takes the decode is the frame that
builds (`FileBehind`). Each call of `prepare()` and `record()` is a lemma about the
record it returns (`RadianceRetired` to `FrameRecorded`), and `FrameAdvances` puts
them in order.

**Folds.** `FoldLeft` is defined by a recursive function on sets of positions, and
the library's induction theorems take operators as parameters. `FoldFacts`
does the induction once: its `CONSTANT Step(_, _, _)` is the body of a loop, a proof
instantiates the module with its own, and the properties that are inducted over are
sets, not operators. That the recursive function exists at all is shown by the
least number it would not exist for (`Computed`, on the well-foundedness of the
naturals); `RunIsStepwise` then gives the states between two iterations and
`RunKeeps` the invariant of the loop.

**The terrain.** `TerrainInv` counts nothing: `SlotsKept` says that the free lists, the
retiring slots and those of resident chunks are disjoint, cover all slots and
repeat none, per level of detail, which is what each call of the slot pool can be
shown to keep (`SlotAcquired`, `SlotReleased`, `SlotsTicked`) and from which
"exactly one" follows (`SlotsFollow`). `CollidersKept` is the bijection between
bound colliders and the chunks that hold them, `JobsKept` ties `in_flight_` to
`pending_`. `process_ready()` is three loops in a row and a map. Each loop has an
invariant of its own, which `RunKeeps` carries through any order of any chunks:
of uploads, that a result not looked at yet is not resident, so that no slot is
overwritten in `resident_` (`UploadsKeep`); of `update_colliders()`, that there are
as many free colliders left as chunks to bind (`BoundKeeps`); of `evict()`, that
the chunks to come are still resident (`EvictedKeeps`). That `erase_if()` keeps
the order and loses no unfinished request is a fold as well (`AmongFacts`).

**Scene files.** `FilesInv` says of each place a description passes through what it
must be there. `WholeScene` is a description whose references are sound and that the readers of
its sections take, whatever its numbers are, `WholeFile` a container that holds one. Capturing gives a whole scene
(`CapturedWhole`) because the tables list exactly what entities refer to, each once
(`ListOf`), so that no reference is without its place, and because an entity of the
editor refers to models and materials that exist (`SoundScene`) and the source of its
environment is one of those there are (`SettingsKept`); nothing is said of its numbers.
That is the second half of the invariant, and what instantiating a scene has to
re-establish (`EntitiesSound`): the handles that models and materials get are within
their tables, whichever were there already (`ModelsResolved`, `MaterialsAreMade`),
and slots that wait for a model keep naming materials, since tables only grow. A
file is replaced by a whole temporary or not at all (`SaveReplacesKeeps`), so a crash
between any two steps leaves what was there.

`MaterialsAreAccountedFor` is the account of every material: what the scene's overrides
give it, what slots that wait for a model give it, in the load or left behind by loads
that were dropped, and one for its name (`Owed`). Kept by itself it is not: retaining a
material whose last reference is gone does nothing, so every step has to know that what
it is about to give references to still has one. An entity that shows a material and
a slot that waits are references (`UsesFacts`, `HeldFacts`); a material that a load
makes has its first one; and one that it finds under its name has the name's, which
`NamesKept` keeps for the game's own. `AccountsInv` adds that a model which slots wait for
was brought by the very load that holds them (`DeferredApart`), since applying slots
(`AppliedCounts`) takes them from the load and not from what was left behind, and that
what was left behind refers to what there is (`LeakedKept`). Every step then comes down to
two facts about one material: references given (`RetainedOwed`) and taken
(`ReleasedOwed`). `set_material_override()` gives before it takes, and that is what
lets `OverriddenOwed` hold for a material which is both before and after
(mutant `ReleasedFirst`); a load takes first, and is sound all the same because what the
old scene alone kept alive is not what the new one is given (`ReplacedOwed`): a material
without a name is made anew, never found.

**The benchmark.** `MeasurementsAreTheirOwn` says of rows what they should be of;
nothing keeps that by itself, since what a row is given arrives frames later, from a
slot that has been used since. `BenchmarkInv` therefore says that whatever carries a
row's number, a slot or the timings last read back, shows what the row shows
(`RowsKnown`), and that a slot holds a frame whose number is the slot's (`GpuKept`). A
frame that was skipped leaves the number where it was, so its row is given none
(`FrameKept`). `RowKeeps` and `AttachKeeps` are the two things a measured frame does
to the rows. That the reports are whole is a fact about the plan: `PlanOf` numbers
cases by rounds, so the runs of a level and the repeats correspond one to one if no
level was given twice (`RunsOfAKey`, by division with remainder), which is what
`CasesDiffer` says. Otherwise a file is of one of the runs that share its name, and
their level is aggregated with twice the repeats (section 6).

**The editor.** `RefsAreHeld` does not keep itself: that a model's count equals its
owners says nothing of an entity that shows the model without owning it, and
`Play` makes a scene full of them, since the clone drops the tags. `EditorInv` says who
stands behind what is shown (`ModelsKept`): in the editor's scene an entity's own
tag, in the clone its own or that of some entity of the editor's scene, which nobody
destroys or gives another model while it plays. The counts of models and of
materials are kept over both scenes together (`ModelsHeld`, `MaterialsHeld`; a
material that was not made yet has no references, and one that is about to be
deleted still has its name). Counting is a matter of finite sets: what a step
writes, adds or destroys changes who owns and what is placed by just what is given
and taken (`RegistryReplaced`, `RegistryJoined`, `RegistryEmptied`), and everything that
works on several entities is brought to these three. Duplicating copies subtrees, so
it has to be known of a subtree that it starts with its root and lists entities of the
scene (`SubtreeFacts`), and of the rows that they do (`RowsFacts`). Both are defined by recursion along the tree,
and that such a function exists has to be proved first: an entity is reached in some round
and its children in the next (`ReachedIsRanked`), so a walk is well founded
(`WalkedIs`). A cycle of parents is never reached, which is why this needs no
assumption on parents.

`PlayLeavesNothing` needed a stronger statement about the mouse than its own.
While editing, a captured mouse is one that drags; while playing, the game or full
screen has it, *whether or not a drag goes on* (`MouseKept`): otherwise letting go of the
button while playing would leave a mouse captured for nobody. The loads are of the
editor's scene or of the one that plays, and stopping drops the others.

**Only model-checked**: all liveness, which is beyond the provers used here, and of
the safety properties:

- `ConflictsOrdered`. It asks for one barrier or wait that covers all stages of
  an access. That is so in the instances, whose graphs do not read with several
  stages at once before an exit state has none; for arbitrary graphs a proof
  would have to follow each stage on its own, since the tracker keeps unions of
  stages over several readers, and "ordered after" is again a recursion over the
  users in between. `UsesAreDeclared` is about the graphs of MCPlan, which are
  constants written out, so there is nothing to generalise.
- `DescribedImagesLive`. For arbitrary constants it depends on the free list
  never running dry in the middle of `prepare()`, which the instances provide by
  their sizes; an assumption that said so would have to count the images of all
  environments and textures together.
- `HierarchyShowsTheScene`. The proofs of the editor need to know of a subtree and of
  the rows only that they list entities. That each row is as deep as its entity has
  ancestors and follows its parent's, without a stranger in between, is about
  positions in a list that is flattened at every level, an induction over the tree
  with every intermediate list in its hypothesis.
- `TitleIsTrue`. It says after a load that a scene
  which was instantiated and captured again has the fingerprint of its file: tables
  may be in another order by then, materials shared under their names, so it is about
  counts of equal entities under a renaming.
- `MemoryHandedOn`, the third part of `MemoryShared`: that the barriers as recorded and
  the waits of the batches really separate two transients. Placing goes by the order in
  which batches start, and the executor strips a barrier of the stages that a
  compute-only queue lacks. For arbitrary graphs an image could be left in a stage
  that is stripped, or in one other than those its passes use (`exit`), and nothing
  in the code rules that out; it is a fact about the graphs of MCPlan.

## 6. Findings

Each is a behaviour of the code that contradicts a statement in the repository;
the run shows it with a counterexample.

1. **Growth during terrain upload retires a pair one frame early**
   (`geometry_growth`, `CopiedPairsKept`; `src/assets/geometry_arena.cxx:407`).
   `grow()` gives the replaced buffers `frames_in_flight` ticks, but from the
   terrain's `process_ready()` the first tick comes in the same frame. The copies
   that frame recorded may still run when the buffers are destroyed. The comments
   at `geometry_arena.hxx:188` and `geometry_arena.cxx:406` promise otherwise.
2. **The shader binary cache does not survive a move**
   (`shader_binary_cache`, `BuiltStagesAreCached`; `src/gpu/shader_object_storage.cxx:26`).
   The hand-written moves leave `binary_cache_` behind, so nothing is ever cached
   ("Cache every stage that didn't come from the cache", `shader_object.cxx:220`).
   The keys do not depend on the file's contents: with the move repaired alone,
   hot reload would be handed old binaries (mutant `MovedWhole`).
3. **Without bloom the scene is culled** (`scene_composition`, `SceneIsComposed`;
   `src/rendering/renderer_frame_graph.cxx:1075`). Composition samples the
   forward pass's image through an index and declares no read of it;
   `docs/frame-graph.md:431` lists the read, and `:432` says that culling removes
   nothing else.
4. **The last move of a caster stays out of the far shadow tiles**
   (`shadows_left_behind`, `TilesCatchUp`; `src/rendering/renderer.cxx:3195`). The
   mark of moving casters is cleared whether or not a far cascade was due, and is
   set after the frame has copied the old transforms; physics, the game and
   textures that arrive never set it. `renderer.cxx:3166` says that far cascades
   update "when their snapped matrix changes or casters move, once their minimum
   interval has elapsed".
5. **A save that ends after `Ctrl+R` takes the title of another scene**
   (`scene_saved_elsewhere`, `PlainSavesGoHome`; `src/app/application.cxx:2717`).
   The next plain save writes the game's own scene over the file;
   `application.hxx:240` says of the path "the editor scene was last opened from
   or saved to".
6. **Rebuilding an environment projects an image that is gone**
   (`environment_rebuild`, `RebuiltFromItsSource`; `src/rendering/environment.cxx:910`).
   The panorama is let go after its first projection and neither "Rebuild now" nor
   a reloaded shader decodes it again; `environment.hxx:224` says that `rebuild()`
   "builds again from scratch".

Noticed while modelling, without a run of their own:

- *Downloads.* Two downloads of one destination would share its `.part` file
  (`http_client.cxx:104`; the program never starts two, and with
  `ShareDestinations` the model loses `DoneIsThere`). `http.hxx:180` says the
  destructor fails what is queued; the workers take the queued requests first,
  with a token that has fired (`http_client.cxx:245`).
- *Frame graph.* The barrier of the swapchain's first use has no source stage
  (`compiler.cxx:793`), the situation the comment at `compiler.cxx:760` warns of;
  a newcomer in shared memory has one with source NONE where
  `docs/frame-graph.md:447` has a stage; `frame-graph.md:499` lets the epilogue
  wait for a batch in cases in which the compiler adds no wait. Task shaders look
  up their commands in a buffer that is declared as an indirect read only
  (`renderer_frame_graph.cxx:230`), which `UsesAreDeclared` excepts by name.
- *Streaming.* `terrain_world.hxx:71` says of `streaming_idle()` that everything
  the last `update()` asked for is resident; it says only that nothing is in
  flight. Meshes of a model file that no node draws are never destroyed
  (`renderer.cxx:1958-1959`). An upload of a model that fails half way drops its
  slices without retiring them (`load_model.cxx:1202`). A texture path whose load
  failed is answered with the fallback as long as the pending image lives; a
  model path is tried again.
- *Environment.* A procedural sky's rebuild is amortized although
  `docs/ibl-and-skybox.md` calls "Rebuild now" and hot reload immediate; a plan
  flips the live set even if `record()` then returns early; a decode that ends
  after the wish went back to a loaded file throws that file away;
  `docs/ibl-and-skybox.md:152` says "released frames_in_flight frames later",
  the code waits one more.
- *Scenes.* A scene may be saved that cannot be opened. The environment panel
  makes the source an image before a path is picked (`environment_panel.cxx:75`), and
  fields of transforms, lights, bodies and materials take what is typed; no save asks
  `environment_problem()`, "why `environment` can't be rendered or saved, if anything"
  (`scene_codec.cxx:922`), or validates anything, while `decode_scene()` does. A good
  file is then replaced by one that is refused as `malformed_payload`: the second
  half of `FilesAreWhole` says exactly when. Edits made while a load streams count as saved; the references a load
  created its models with are never released; models still loading or failed are
  saved without their component but with their overrides; "Open after save"
  lingers when the target turns out empty; the parent walk of
  `validate_scene()` (`scene_serialisation.cxx` 1098-1104) may leave the table.
  `start_open_scene()` has no guard of its own and drops a load under way
  (`leaked` in SceneFiles).
- *Editor.* Deleting a selection leaves a child whose Transform was removed. A
  body whose entity is destroyed stays in the world until play ends, because its
  pool is emptied before its rigid body's (`scene.cxx:115`). A model that settles
  while playing leaves the editor's entity without its rigid body.
  `physics_world.cxx:498` takes entity 0 for none. The "Fullscreen" box is not
  drawn in fullscreen play, although the comment at `application.cxx:1985` says
  "to fullscreen and back".
- *Benchmark.* "Streaming has settled" covers textures and terrain only; the
  downloaded helmet may change the scene in the middle of a lap, in whichever
  scene is active; the failure to write a case's frames is only logged. Two equal
  loads in `--benchmark-sweep` (`benchmark.cxx:258`) make two cases of one file
  name: the later's `frames/*.csv` replaces the earlier's, although every report
  says "Per-frame data for every run is in `frames/`" (`benchmark.cxx:1416`).
- *Startup.* Device selection checks fewer features than `create_device()`
  enables; a one-time submission that times out leaks its fence, deliberately.

## 7. What is not modelled

The components table of `PROJECT.json` has every part with its status. Left out
of modelled parts: device loss in the loop (Startup has a GPU that hangs); the
contents of buffers, meshes, images and bodies; binary semaphores within a frame;
the linear allocator of `geometry_allocator.hxx`, which no arena uses; the global
barriers of `legacy()` passes, the serialize option, the plan cache, and the
choice between the declared and the overlapped plan (both are checked);
single-pipeline registration and `VK_ERROR_INCOMPATIBLE_SHADER_BINARY_EXT`;
formats, mip chains and samplers; the cooked cache of environments; the gizmo
and the values of components.

Not modelled at all: pure floating-point or data transformations (noise, meshing,
the quadtree's selection, sky, what cascades enclose, model import, cooked-asset
codecs, statistics), wrappers of third-party libraries (Vulkan objects, Jolt's
simulation, libcurl, Slang), immediate-mode widgets, core utilities, the
execution of a plan call by call, and the sample game beyond its hooks. The
thread pool appears as jobs that end, the libcurl handler as the answers it may
give, the compiler of shaders as success or failure on the file it reads.

Scripting is left out after a look at it: a script runs to its end on the main
thread inside its panel, its index of names is rebuilt by a
process-wide revision, and its limits are enforced by Lua. One thing in it would
be worth a test: a `__gc` closure kept in a cached chunk's environment runs when
the state is closed, against a world that may be gone.

## 8. Plan

Order of work so far: first the frame loop and what hangs on its timing, since a
mistake there corrupts memory on the GPU silently; then ownership (pool, models),
then threads (HTTP, terrain), the frame graph's compiler, hot reload; then the
images and what is built from them, scene files, the editor, measurements, and
the life of the process. What remains, by importance:

| what | on top of | code | question |
|---|---|---|---|
| terrain under frames | GeometryLifetime, TerrainStreaming | `terrain_slot_pool.cxx`, `terrain_world.cxx:193` | is a slot rewritten only after the frames that draw it, with the retirement, the grace frames and the arena's ticks together? |
| two frames in a row | FrameGraphCompiler | plan cache, entry and exit states, Hi-Z history | does the second frame's plan respect the first's across queues? |
| stages of a parallel registration | ShaderReload | `pipeline_graph_repository.cxx` 247-316 | may two pipelines that share a stage be registered at once? |
| lost device | FrameLoop, Startup | the error paths of `draw()` | does everything end, in order? |
| quadtree, container ranges | pure | `terrain_quadtree.cxx`, `serialisation/` | leaves tile the view; ranges stay in bounds, against a reference definition |

Abstract specifications worth stating: a *deferred destruction* service that
GeometryLifetime, ShaderReload, FrameImages and Environment all implement (what
is retired is destroyed only after the frames that use it), and a *future* that is
answered once, for HttpClient and the streamers.

Proofs planned: `TitleIsTrue` of SceneFiles; `ConflictsOrdered`, stage by stage.
