------------------------------- MODULE Startup -------------------------------
(***************************************************************************)
(* The life of the process (main.cxx): initialize_vulkan(), the renderer's *)
(* initialize(), on_startup(), the main loop with the swapchain and the    *)
(* renderer's targets replaced under it, and the way out, from every place *)
(* where a step can fail.                                                  *)
(*                                                                         *)
(* What is created is abstracted to a name and the frame in flight it is   *)
(* for; the steps still to be taken are a sequence, and a step that fails  *)
(* replaces them by what the code does then.                               *)
(***************************************************************************)
EXTENDS Engine, Integers, Sequences, FiniteSets, SequencesExt, TLC

CONSTANTS
  Machines,    \* what vkEnumeratePhysicalDevices() may list: sequences
  AsyncModes,  \* --async-compute: "auto", "off", "same-family"
  MaxChanges   \* bound: resizes, plays and jobs in one run

ASSUME StartupAssumption == MaxChanges \in Nat

VARIABLES
  alive,        \* what has been created and not destroyed
  todo,         \* the steps the main thread has before it
  life,         \* "starting", "running", "ending", "ended", "killed"
  machine,      \* the devices there are, and what the command line says
  device,       \* context.physical_device and queue_families
  initialized,  \* Renderer::initialized_
  gpu,          \* what the commands use that the GPU has not finished
  hung,         \* the GPU stopped answering
  changes

startupVars == << alive, todo, life, machine, device, initialized,
                  gpu, hung, changes >>

Frames == 1 .. FramesInFlight

\* One of a kind, one for each frame in flight.
Only(name) == << << name, 0 >> >>
EachFrame(name) == [ f \in Frames |-> << name, f >> ]

\* The steps: to create, where a failure is dealt with by "part"; to create
\* what cannot fail, or is done without; to destroy.
Make(part, things) ==
  [ i \in DOMAIN things |-> [ op |-> "make", part |-> part, thing |-> things[i] ] ]
New(things) ==
  [ i \in DOMAIN things |-> [ op |-> "new", part |-> None, thing |-> things[i] ] ]
Try(things) ==
  [ i \in DOMAIN things |-> [ op |-> "try", part |-> None, thing |-> things[i] ] ]
Drop(things) ==
  [ i \in DOMAIN things |-> [ op |-> "drop", part |-> None, thing |-> things[i] ] ]
Do(op) == << [ op |-> op, part |-> None, thing |-> None ] >>

----------------------------------------------------------------------------
\* What a thing's destruction touches besides itself.  A buffer belongs to
\* the allocator, a held image to the storage of the images, a job and what
\* the application owns to the renderer they hold a reference to.

DeviceThings ==
  { "one time pool", "fence", "graphics queries", "compute queries",
    "timelines", "pools", "allocator", "image available", "render finished",
    "samplers", "table", "pipelines", "timestamps", "statistics", "pass queries" }
Buffers ==
  { "geometry", "materials", "images", "sh buffer", "draw buffers",
    "cull buffers", "light buffers", "ubo", "ui buffers", "line buffers",
    "readback" }
HeldImages ==
  { "brdf lut", "prefilter", "shadow atlas", "viewport target",
    "new viewport target", "hiz", "new hiz", "transients" }
\* Swept away with the storage: nobody holds them.
SweptImages == { "default images", "light icon", "font", "icons" }

Owner(name) ==
  CASE name \in DeviceThings -> { "device" }
    [] name \in Buffers -> { "allocator" }
    [] name \in HeldImages -> { "images", "allocator" }
    [] name \in SweptImages -> { "images", "allocator" }
    [] name \in { "swapchain", "old swapchain" } -> { "device", "surface" }
    [] name = "views" -> { "device", "swapchain" }
    [] name = "window" -> { "glfw" }
    [] name = "messenger" -> { "instance" }
    [] name = "surface" -> { "instance", "window" }
    [] name = "device" -> { "instance" }
    [] name = "equirect sampler" -> { "samplers" }
    [] name \in { "light icons", "overlays", "watcher" } -> { "renderer" }
    [] name = "ui" -> { "window", "renderer" }
    [] name = "texture jobs" -> { "renderer", "images" }
    [] name \in { "model jobs", "environment job" } -> { "renderer" }
    [] name \in { "save job", "load job" } -> { "renderer", "images", "materials" }
    [] name = "terrain jobs" -> { "terrain" }
    [] name = "screenshot job" -> { "readback" }
    [] OTHER -> {}

\* A scene gives back its materials and models, unless they went with the
\* renderer; release_material() and release_model() ask initialized_.
Touched(name) ==
  IF name \in { "editor scene", "runtime scene" }
    THEN { "renderer" } \cup (IF initialized THEN { "materials" } ELSE {})
    ELSE Owner(name)

Names(things) == { t[1] : t \in things }

\* What the commands of a frame use.
UsedByFrames ==
  { "device", "timelines", "pools", "allocator", "swapchain", "views",
    "image available", "render finished", "table", "pipelines", "timestamps",
    "statistics", "pass queries" } \cup HeldImages \cup SweptImages
      \cup (Buffers \ { "readback" })

----------------------------------------------------------------------------
\* initialize_vulkan().

\* A family of queues: [graphics, compute, present, queues, timestamps].
\* choose_queue_families(): the families met last before both graphics and
\* present are known; compute has queues of its own where it can.
ChooseQueueFamilies(families, mode) ==
  LET Those(Suits(_)) == { i \in DOMAIN families : Suits(families[i]) }
      drawing == Those(LAMBDA f : f.graphics)
      presenting == Those(LAMBDA f : f.present)
      until == Max({ Min(drawing), Min(presenting) })
      graphics == Max({ i \in drawing : i <= until })
      apart == Those(LAMBDA f : f.compute /\ ~f.graphics /\ f.queues > 0)
      timed == { i \in apart : families[i].timestamps }
      second == families[graphics].queues >= 2
      chosen == [ graphics |-> graphics,
                  present |-> Max({ i \in presenting : i <= until }) ]
  IN  IF drawing = {} \/ presenting = {} THEN None
      ELSE IF apart # {} /\ ~(mode = "same-family" /\ second)
        THEN chosen @@ [ compute |-> Min(IF timed # {} THEN timed ELSE apart),
                         queue |-> 0 ]
        ELSE chosen @@ [ compute |-> graphics, queue |-> IF second THEN 1 ELSE 0 ]

\* queue_requests(): how many queues of each family the device is asked for.
QueueRequests(chosen) ==
  [ f \in { chosen.graphics, chosen.present, chosen.compute } |->
      IF f = chosen.graphics /\ chosen.compute = f /\ chosen.queue = 1 THEN 2 ELSE 1 ]

\* select_physical_device(): the first one of the best kind that has what is
\* asked for here; create_device() asks for more.
Selected(devices, mode) ==
  LET suits == { i \in DOMAIN devices :
                   /\ devices[i].features
                   /\ ChooseQueueFamilies(devices[i].families, mode) # None }
      best == { i \in suits : \A j \in suits : devices[j].score <= devices[i].score }
  IN  IF suits = {} THEN None
      ELSE [ id |-> Min(best), enables |-> devices[Min(best)].enables,
             families |-> devices[Min(best)].families,
             queues |-> ChooseQueueFamilies(devices[Min(best)].families, mode) ]

Separate(d) == d.queues.compute # d.queues.graphics \/ d.queues.queue = 1

CreateWindow == Make("context", Only("glfw") \o Only("window"))
CreateInstance(validation) ==
  Make("context", Only("instance")
                    \o (IF validation THEN Only("messenger") ELSE << >>))
CreateSurface == Make("context", Only("surface"))
CreateDevice == Make("context", Only("device") \o Only("one time pool"))

\* A context that cannot be made is done without.
CreateHostQueryContexts(d) ==
  Try(Only("graphics queries"))
    \o (IF Separate(d) THEN Try(Only("compute queries")) ELSE << >>)

\* QueueSet::initialize(): a timeline and a pool for each slot of each queue.
CreateQueueSet(d) ==
  LET queue(n) == Make("queue set", << << "timelines", n >> >>)
                    \o Make("queue set", [ f \in Frames |-> << "pools", f + n >> ])
  IN  queue(0) \o (IF Separate(d) THEN queue(FramesInFlight) ELSE << >>)

CreateAllocator == Make("context", Only("allocator"))

CreateImageViews == Make("swapchain", Only("views"))
CreateSynchronization ==
  Make("swapchain", EachFrame("image available") \o Only("render finished"))
CreateSwapchain ==
  Make("swapchain", Only("swapchain")) \o CreateImageViews \o CreateSynchronization

\* initialize_vulkan(), once a device is selected.
InitializeVulkan(d) ==
  CreateDevice \o CreateHostQueryContexts(d) \o CreateQueueSet(d)
    \o CreateAllocator \o CreateSwapchain

DestroySwapchain ==
  Do("wait or exit")
    \o Drop(EachFrame("image available") \o Only("render finished")
              \o Only("views") \o Only("swapchain"))

DestroyQueueSet ==
  Drop([ i \in 1 .. 2 * FramesInFlight |-> << "pools", i >> ]
         \o << << "timelines", 0 >>, << "timelines", FramesInFlight >> >>)

\* VulkanContext::destroy().
DestroyContext ==
  DestroySwapchain \o DestroyQueueSet
    \o Drop(Only("compute queries") \o Only("graphics queries")
              \o Only("one time pool") \o Only("allocator") \o Only("device")
              \o Only("surface") \o Only("messenger") \o Only("instance")
              \o Only("window") \o Only("glfw"))

----------------------------------------------------------------------------
\* Renderer::initialize() and destroy().

\* The storages are local until all of them and the pipelines are there.
CreateImages == Make("image storage", Only("images") \o Only("default images"))
CreateSamplers == Make("locals", Only("samplers"))
CreateTable == Make("locals", Only("table"))
CreatePipelines == Make("locals", Only("pipelines"))
CreateShaderObjects == Make("renderer", Only("shader objects"))

CreateStorages ==
  Make("locals", Only("geometry") \o Only("materials"))
    \o CreateImages \o CreateSamplers \o CreateTable \o CreatePipelines

CreateEnvironment ==
  Make("renderer", Only("brdf lut") \o << << "prefilter", 1 >>, << "prefilter", 2 >> >>
                     \o Only("sh buffer") \o Only("equirect sampler"))

CreateDrawBuffers(f) == Make("renderer", << << "draw buffers", f >> >>)
CreateCullBuffers(f) ==
  Make("renderer", << << "cull buffers", f >>, << "light buffers", f >> >>)
CreateFrameTargets(f) == Make("renderer", << << "viewport target", f >> >>)
CreateFrame(f) ==
  CreateDrawBuffers(f) \o CreateCullBuffers(f) \o CreateFrameTargets(f)

CreateQueries ==
  Make("renderer", EachFrame("timestamps") \o EachFrame("statistics")
                     \o Only("pass queries"))

CreateTables ==
  Make("renderer", Only("light icon") \o Only("mesh storage")
                     \o Only("model storage") \o Only("script storage"))
CreateShadowAtlas == Make("renderer", Only("shadow atlas"))
CreateHizPyramid == Make("renderer", Only("hiz"))
CreateUniforms == Make("renderer", EachFrame("ubo") \o Only("light icons"))

InitializeRenderer ==
  CreateStorages \o CreateShaderObjects \o CreateEnvironment \o CreateTables
    \o CreateShadowAtlas \o FlattenSeq([ f \in Frames |-> CreateFrame(f) ])
    \o CreateHizPyramid \o CreateQueries \o CreateUniforms \o Do("initialized")

DestroyEnvironment ==
  Drop(<< << "prefilter", 1 >>, << "prefilter", 2 >> >> \o Only("brdf lut")
         \o Only("sh buffer") \o Only("equirect sampler"))

\* The readback buffers go once no screenshot is being written.
CloseScreenshots == Drop(Only("screenshot job") \o EachFrame("readback"))

DestroyRenderer ==
  Drop(Only("light icons")) \o CloseScreenshots \o DestroyEnvironment
    \o Drop(Only("pipelines") \o Only("table") \o Only("samplers")
              \o EachFrame("timestamps") \o EachFrame("statistics")
              \o Only("pass queries") \o EachFrame("ubo")
              \o EachFrame("cluster buffers") \o EachFrame("light buffers")
              \o EachFrame("cull buffers") \o EachFrame("draw buffers")
              \o Only("transients") \o EachFrame("viewport target")
              \o Only("shadow atlas") \o Only("hiz") \o Only("model jobs")
              \o Only("materials") \o Only("texture jobs") \o Only("images")
              \o Only("geometry") \o Only("model storage") \o Only("mesh storage"))
    \o Do("uninitialized")

----------------------------------------------------------------------------
\* The application around them, and the way out.

ConstructApplication == New(Only("renderer") \o Only("editor scene"))

\* on_startup(): what cannot be had is done without.
OnStartup ==
  Try(Only("watcher")) \o New(Only("ui")) \o Try(Only("font"))
    \o Try(Only("icons")) \o New(Only("overlays"))

\* destroy_application().
DestroyApplication ==
  Do("wait or exit")
    \o Drop(Only("save job") \o Only("load job") \o EachFrame("line buffers")
              \o Only("ui") \o EachFrame("ui buffers"))
    \o DestroyRenderer \o DestroyContext

\* ~Application(), and then its members, last one first.
LeaveMain ==
  Drop(Only("terrain jobs") \o Only("watcher") \o Only("terrain")
         \o Only("runtime scene") \o Only("editor scene") \o Only("overlays")
         \o Only("renderer"))

\* What is done when a step of a part fails.
GiveUp == DestroyApplication \o LeaveMain

Rollback(part) ==
  CASE part = "context" -> DestroyContext
    [] part = "queue set" -> DestroyQueueSet \o DestroyContext
    [] part = "swapchain" -> DestroySwapchain \o DestroyContext
    [] part = "image storage" ->
         Drop(Only("images") \o Only("materials") \o Only("geometry"))
           \o DestroyRenderer \o GiveUp
    [] part = "locals" ->
         Drop(Only("samplers") \o Only("images") \o Only("materials")
                \o Only("geometry"))
           \o DestroyRenderer \o GiveUp
    [] part = "renderer" -> DestroyRenderer \o GiveUp
    [] part = "recreate" -> Drop(Only("old swapchain")) \o GiveUp
    [] part = "resize" ->
         Drop(Only("new hiz") \o EachFrame("new viewport target")) \o GiveUp
    [] OTHER -> GiveUp

----------------------------------------------------------------------------
\* What replaces things under the main loop.

\* Swapchain::recreate(): the old swapchain goes once the new one is there.
RecreateSwapchainAtOnce ==
  Drop(Only("views") \o Only("render finished")) \o Do("keep old swapchain")
    \o Make("recreate", Only("swapchain") \o Only("views"))
    \o Drop(Only("old swapchain"))
    \o Make("recreated", Only("render finished"))

RecreateSwapchain ==
  Do("wait") \o Drop(Only("views") \o Only("render finished"))
    \o Do("keep old swapchain")
    \o Make("recreate", Only("swapchain") \o Only("views"))
    \o Drop(Only("old swapchain"))
    \o Make("recreated", Only("render finished"))

\* Renderer::resize(): the new targets are all there before an old one goes.
Resize ==
  Do("wait")
    \o Make("resize", EachFrame("new viewport target") \o Only("new hiz"))
    \o Drop(EachFrame("viewport target") \o Only("hiz"))
    \o Do("install targets")

\* on_startup()'s event: the built-in models, the game's scene, the terrain.
PopulateScene == Do("submit once") \o Make("populate", Only("terrain"))

----------------------------------------------------------------------------
\* Taking a step.

StartupInit ==
  /\ machine \in [ devices : Machines, mode : AsyncModes, validation : BOOLEAN ]
  /\ alive = {} /\ device = None /\ initialized = FALSE
  /\ todo = CreateWindow \o CreateInstance(machine.validation) \o CreateSurface
              \o Do("select device")
  /\ life = "starting" /\ gpu = {} /\ hung = FALSE /\ changes = 0

Step(op) == todo # << >> /\ Head(todo).op = op
Thing == Head(todo).thing
Unmoved == UNCHANGED << machine, device, changes >>

Create ==
  /\ Step("make") \/ Step("new") \/ Step("try")
  /\ Thing[1] = "device" => device.enables
  /\ alive' = alive \cup { Thing } /\ todo' = Tail(todo)
  /\ UNCHANGED << life, initialized, gpu, hung >> /\ Unmoved

CreateFails ==
  /\ Step("make")
  /\ alive' = alive /\ todo' = Rollback(Head(todo).part) /\ life' = "ending"
  /\ UNCHANGED << initialized, gpu, hung >> /\ Unmoved

DoWithout ==
  /\ Step("try")
  /\ todo' = Tail(todo)
  /\ UNCHANGED << alive, life, initialized, gpu, hung >> /\ Unmoved

\* A surface without an extent has no swapchain yet, and the loop goes on.
NoExtent ==
  /\ Step("make") /\ Head(todo).part = "recreate" /\ Thing[1] = "swapchain"
  /\ todo' = Drop(Only("old swapchain"))
  /\ UNCHANGED << alive, life, initialized, gpu, hung >> /\ Unmoved

SelectDevice ==
  /\ Step("select device")
  /\ device' = Selected(machine.devices, machine.mode)
  /\ IF device' = None
       THEN todo' = DestroyContext /\ life' = "ending"
       ELSE /\ todo' = InitializeVulkan(device') \o ConstructApplication
                         \o InitializeRenderer \o OnStartup
            /\ life' = life
  /\ UNCHANGED << alive, machine, initialized, gpu, hung, changes >>

\* What an owner still holds goes with it.
Swept(name) ==
  CASE name = "images" -> SweptImages
    [] name = "pipelines" -> { "shader objects" }
    [] name = "renderer" -> { "script storage" }
    [] OTHER -> {}

Destroy ==
  /\ Step("drop")
  /\ alive' = IF Thing \in alive
                THEN { t \in alive : t # Thing /\ t[1] \notin Swept(Thing[1]) }
                ELSE alive
  /\ todo' = Tail(todo)
  /\ UNCHANGED << life, initialized, gpu, hung >> /\ Unmoved

KnownAs(old, new) ==
  { IF t[1] = old THEN << new, t[2] >> ELSE t : t \in alive }

Other ==
  /\ Step("keep old swapchain") \/ Step("install targets")
       \/ Step("initialized") \/ Step("uninitialized") \/ Step("submit once")
  /\ alive' = CASE Step("keep old swapchain") -> KnownAs("swapchain", "old swapchain")
                [] Step("install targets") ->
                     { CASE t[1] = "new viewport target" -> << "viewport target", t[2] >>
                         [] t[1] = "new hiz" -> << "hiz", t[2] >>
                         [] OTHER -> t : t \in alive }
                \* A fence that is still pending is left behind.
                [] Step("submit once") /\ hung -> alive \cup { << "fence", 0 >> }
                [] OTHER -> alive
  /\ initialized' = CASE Step("initialized") -> TRUE
                      [] Step("uninitialized") -> FALSE
                      [] OTHER -> initialized
  /\ todo' = Tail(todo)
  /\ UNCHANGED << life, gpu, hung >> /\ Unmoved

\* wait_idle_or_exit() and wait_idle_bounded(): a GPU that does not answer
\* ends the process, or the loop.
Wait ==
  /\ Step("wait") \/ Step("wait or exit")
  /\ IF ~hung
       THEN gpu' = {} /\ todo' = Tail(todo) /\ life' = life
       ELSE IF Step("wait")
         THEN gpu' = gpu /\ todo' = GiveUp /\ life' = "ending"
         ELSE gpu' = gpu /\ todo' = << >> /\ life' = "killed"
  /\ UNCHANGED << alive, initialized, hung >> /\ Unmoved

Arrive ==
  /\ todo = << >> /\ life \in { "starting", "ending" }
  /\ life' = IF life = "starting" THEN "running" ELSE "ended"
  /\ UNCHANGED << alive, todo, initialized, gpu, hung >> /\ Unmoved

----------------------------------------------------------------------------
\* The main loop, the workers and the GPU.

Looping == life = "running" /\ todo = << >>
Alive(name) == << name, 0 >> \in alive
ChangeCounted == changes < MaxChanges /\ changes' = changes + 1

\* What a frame finds missing it creates: draw buffers of the interface, of
\* the lines, clusters, transient images, the buffer of a screenshot.
LazilyMade(f) ==
  { << "ui buffers", f >>, << "line buffers", f >>, << "cluster buffers", f >>,
    << "transients", 0 >> }

DrawFrame(f) ==
  /\ Looping /\ Alive("swapchain")
  /\ alive' = alive \cup LazilyMade(f)
  /\ gpu' = { t \in alive' : t[1] \in UsedByFrames }
  /\ UNCHANGED << todo, life, initialized, hung >> /\ Unmoved

\* update(), the events and the window, between two frames.
Replace(steps) ==
  /\ Looping /\ ChangeCounted
  /\ todo' = steps
  /\ UNCHANGED << alive, life, machine, device, initialized, gpu, hung >>

Populate == ~Alive("terrain") /\ Replace(PopulateScene)
ChangeWindow == Replace(RecreateSwapchain)
ChangeViewport == Replace(Resize)

Jobs == { "save job", "load job", "texture jobs", "model jobs", "terrain jobs",
          "screenshot job" }

StartJob(j) ==
  /\ Looping /\ ChangeCounted /\ ~Alive(j)
  /\ j = "terrain jobs" => Alive("terrain")
  /\ j = "screenshot job" => gpu # {} \/ << "ui buffers", 1 >> \in alive
  /\ alive' = alive \cup { << j, 0 >> }
                \cup (IF j = "screenshot job" THEN { << "readback", 1 >> } ELSE {})
  /\ UNCHANGED << todo, life, machine, device, initialized, gpu, hung >>

\* A worker ends when it ends.
JobEnds(j) ==
  /\ Alive(j) /\ life # "killed"
  /\ alive' = alive \ { << j, 0 >> }
  /\ UNCHANGED << todo, life, initialized, gpu, hung >> /\ Unmoved

PlayOrStop ==
  /\ Looping /\ ChangeCounted
  /\ alive' = IF Alive("runtime scene") THEN alive \ { << "runtime scene", 0 >> }
                ELSE alive \cup { << "runtime scene", 0 >> }
  /\ UNCHANGED << todo, life, machine, device, initialized, gpu, hung >>

GpuEnds ==
  /\ gpu # {} /\ ~hung /\ gpu' = {}
  /\ UNCHANGED << alive, todo, life, initialized, hung >> /\ Unmoved

GpuHangs ==
  /\ gpu # {} /\ ~hung /\ hung' = TRUE
  /\ UNCHANGED << alive, todo, life, initialized, gpu >> /\ Unmoved

\* The window is closed, a frame fails, the device is lost.
LeaveLoop ==
  /\ Looping /\ todo' = GiveUp /\ life' = "ending"
  /\ UNCHANGED << alive, initialized, gpu, hung >> /\ Unmoved

StartupNext ==
  \/ Create \/ CreateFails \/ DoWithout \/ NoExtent \/ SelectDevice
  \/ Destroy \/ Other \/ Wait \/ Arrive
  \/ \E f \in Frames : DrawFrame(f)
  \/ Populate \/ ChangeWindow \/ ChangeViewport
  \/ \E j \in Jobs : StartJob(j) \/ JobEnds(j)
  \/ PlayOrStop \/ GpuEnds \/ GpuHangs \/ LeaveLoop

StartupSpec == StartupInit /\ [][StartupNext]_startupVars

----------------------------------------------------------------------------
\* The objects are accounted for in every state, and the device is asked for
\* queues its families have.
QueuesExist ==
  device # None =>
    \A f \in DOMAIN QueueRequests(device.queues) :
      QueueRequests(device.queues)[f] <= device.families[f].queues

LeftInOrder ==
  [][ \A t \in alive \ alive' :
        /\ Touched(t[1]) \subseteq Names(alive)
        /\ t \notin gpu ]_startupVars

NothingLeft == life = "ended" => alive = {}

\* Whatever step of the startup, of a replacement or of the way out fails,
\* and whenever the loop is left: what is destroyed still has everything its
\* destruction touches and is not in use by the GPU, and when the process
\* ends by itself nothing it created is left (destroy_application(),
\* Renderer::initialize()'s rollback, VulkanContext::destroy(); the comment of
\* main.cxx on jobs that reference the renderer).
TearsDownInOrder == [](QueuesExist /\ NothingLeft) /\ LeftInOrder
=============================================================================
