-------------------------- MODULE RendererResources --------------------------
(***************************************************************************)
(* What Renderer::prepare_frame() and record_frame() do, frame after       *)
(* frame, to the images, the descriptor sets and the material table:       *)
(* the textures that are ready are uploaded, the environment is prepared,  *)
(* the table is refreshed, changed materials are copied, the frame graph's *)
(* transients are made and the table refreshed again, and the environment  *)
(* records its work.  TextureStreaming and Environment are composed with   *)
(* the transients (src/rendering/frame_graph/transient_allocator.cxx) and  *)
(* the materials (src/assets/material_storage.cxx) here.                   *)
(*                                                                         *)
(* The parts share the pool, the sets and the frame; `subject` says which  *)
(* of them has work to do in a behaviour, to keep instances small.         *)
(***************************************************************************)
EXTENDS TextureStreaming, Environment

CONSTANTS
  Graphics,    \* the queue of the frame's own command buffer
  Layouts,     \* transient descriptions a frame graph can ask for
  NoLayout,    \* the graph has no transients
  Materials,   \* the slots of the material pool but the default's
  FrameBound,  \* bound of the model: the frames of each subject's behaviours
  MaxUpdates   \* bound of the model: changes of a layout or a material

ASSUME ResourcesAssumption ==
  /\ Graphics \in Queues
  /\ MaxUpdates \in Nat
  /\ \A s \in DOMAIN FrameBound : FrameBound[s] \in 0 .. MaxFrames

VARIABLES
  subject,     \* what has work to do: see above
  running,     \* the application goes on to the next frame
  layout,      \* the transients of the frame graph that is built next
  transients,  \* TransientAllocator's slots: the layout they have, the image
               \* and a view of one of its mips
  material,    \* per slot: the version last written, the clearing included
  references,  \* ref_count
  dirty,       \* the slots to upload
  upload,      \* the mapped buffer all frames share
  table,       \* the GPU's buffer
  copies,      \* per frame: what it copies and what its draws must see
  updates      \* how many changes there were

resourceVars == << subject, running, layout, transients, material, references,
                   dirty, upload, table, copies, updates >>

materialVars == << material, references, dirty, upload, table, copies >>

vars == << loopVars, imageVars, textureVars, environmentVars, resourceVars >>

Subjects == {"textures", "environment", "transients", "materials"}

NoImage == -1
NoTransient == [layout |-> NoLayout, image |-> NoImage, view |-> NoImage]

(* Types, and the image pool neither loses nor doubles a slot.                *)
ResourcesTypeOK ==
  /\ LoopTypeOK
  /\ ImagesTypeOK
  /\ IndexesAccounted
  /\ TexturesTypeOK
  /\ subject \in Subjects
  /\ layout \in Layouts \cup {NoLayout}
  /\ DOMAIN transients = Slots
  /\ material \in [Materials -> Nat]
  /\ references \in [Materials -> Nat]
  /\ dirty \subseteq Materials
  /\ DOMAIN copies \subseteq 1 .. MaxFrames

Init ==
  /\ LoopInit
  /\ ImagesInit
  /\ TexturesInit
  /\ EnvironmentInit
  /\ subject \in Subjects
  /\ subject # "textures" => \A t \in Textures : version[t] = 1
  /\ subject # "environment" => amortize
  /\ running = TRUE
  /\ layout = NoLayout
  /\ transients = [s \in Slots |-> NoTransient]
  /\ material = [m \in Materials |-> 0]
  /\ references = [m \in Materials |-> 0]
  /\ dirty = {}
  /\ upload = [m \in Materials |-> 0]
  /\ table = [m \in Materials |-> 0]
  /\ copies = << >>
  /\ updates = 0

Has(what) == subject = what /\ running

----------------------------------------------------------------------------
(* Between frames: the application and the workers. *)

Update ==
  /\ phase = "between"
  /\ updates < MaxUpdates
  /\ updates' = updates + 1

\* The viewport is resized, or a pass that has transients is switched.
LayoutChanges ==
  /\ Has("transients")
  /\ Update
  /\ layout' \in (Layouts \cup {NoLayout}) \ {layout}
  /\ UNCHANGED << loopVars, imageVars, textureVars, environmentVars, subject,
                  running, transients, materialVars >>

MaterialChanges(m) ==
  /\ Has("materials")
  /\ Update
  /\ dirty' = dirty \cup {m}
  /\ UNCHANGED << loopVars, imageVars, textureVars, environmentVars, subject,
                  running, layout, transients, upload, table, copies >>

\* create_material() in a free slot.
CreateMaterial(m) ==
  /\ MaterialChanges(m)
  /\ references[m] = 0
  /\ references' = [references EXCEPT ![m] = 1]
  /\ material' = [material EXCEPT ![m] = updates + 1]

\* update_material().
UpdateMaterial(m) ==
  /\ MaterialChanges(m)
  /\ references[m] > 0
  /\ material' = [material EXCEPT ![m] = updates + 1]
  /\ UNCHANGED references

\* retain_material().
RetainMaterial(m) ==
  /\ Has("materials")
  /\ Update
  /\ references[m] > 0
  /\ references' = [references EXCEPT ![m] = @ + 1]
  /\ UNCHANGED << loopVars, imageVars, textureVars, environmentVars, subject,
                  running, layout, transients, material, dirty, upload, table,
                  copies >>

\* destroy_material() of one reference among others.
ReleaseMaterial(m) ==
  /\ Has("materials")
  /\ Update
  /\ references[m] > 1
  /\ references' = [references EXCEPT ![m] = @ - 1]
  /\ UNCHANGED << loopVars, imageVars, textureVars, environmentVars, subject,
                  running, layout, transients, material, dirty, upload, table,
                  copies >>

\* destroy_material() of the last one: the slot is cleared on the GPU too.
DestroyMaterial(m) ==
  /\ MaterialChanges(m)
  /\ references[m] = 1
  /\ references' = [references EXCEPT ![m] = 0]
  /\ material' = [material EXCEPT ![m] = updates + 1]

MaterialStep ==
  \E m \in Materials :
    \/ CreateMaterial(m)
    \/ UpdateMaterial(m)
    \/ RetainMaterial(m)
    \/ ReleaseMaterial(m)
    \/ DestroyMaterial(m)

TextureStep ==
  /\ Has("textures")
  /\ \/ /\ \/ \E t \in Textures : RequestTexture(t)
           \/ Flush
           \/ Restart
        /\ UNCHANGED << loopVars, environmentVars, resourceVars >>
     \/ /\ \/ \E t \in Textures : SourceIsEdited(t)
           \/ WorkerStep
        /\ UNCHANGED << loopVars, imageVars, environmentVars, resourceVars >>

EnvironmentStep ==
  /\ Has("environment")
  /\ WishChanges \/ ShaderChanges \/ Rebuild \/ DecodeFinishes
  /\ UNCHANGED << loopVars, imageVars, textureVars, resourceVars >>

----------------------------------------------------------------------------
(* The frame. *)

\* TransientAllocator::release() on this frame's slot: the image and the views
\* of its mips, and the memory under them.
ReleaseTransients(st) ==
  LET old == transients[slot] IN
  IF old.image = NoImage THEN st
  ELSE DestroyImages(st, << old.view, old.image >>)

\* The transients of a layout: an image bound into the memory, and a bindless
\* view of each mip.
MakeTransients(st) ==
  LET made == CreateImage(st) IN
  IF layout = NoLayout THEN st
  ELSE RegisterView(made, made.slots[NewIndex(st)].obj)

Made(st) ==
  IF layout = NoLayout THEN NoTransient
  ELSE [layout |-> layout, image |-> NewIndex(st),
        view |-> NewIndex(CreateImage(st))]

\* The plan's signature is the one this frame slot's images were made for.
TransientsFit == transients[slot].layout = layout

\* Mutant: the images are destroyed under the frames that list them.
ReleasesAtOnce == TRUE

\* vkDeviceWaitIdle() in release(), when there is anything to release.
DeviceIsWaitedFor == transients[slot].image # NoImage => inFlight = {}

\* Mutant: one range is copied and all are taken for clean.
FirstMaterialPrepared ==
  /\ upload' = [m \in Materials |-> IF m \in dirty THEN material[m]
                                                   ELSE upload[m]]
  /\ \E first \in {{}} \cup { {m} : m \in dirty } :
       /\ first = {} => dirty = {}
       /\ copies' = Append(copies, [slots |-> first, sees |-> material])
  /\ dirty' = {}
  /\ UNCHANGED << material, references, table >>

\* MaterialStorage::prepare_frame(): changed slots go into the shared upload
\* buffer, and this frame copies them from there.
MaterialsPrepared ==
  /\ upload' = [m \in Materials |-> IF m \in dirty THEN material[m]
                                                   ELSE upload[m]]
  /\ copies' = Append(copies, [slots |-> dirty, sees |-> material])
  /\ dirty' = {}
  /\ UNCHANGED << material, references, table >>

\* What the descriptor set lists, but for what prepare() has put on its way out
\* and no shader indexes any more, and this frame's staging buffers.
UsedBy(set, prepared, st, uploads) ==
  (Listed(set) \ RetiredObjects(prepared, st)) \cup uploads

\* The rest of prepare_frame(), then record_frame().  The first refresh of the
\* table is undone by nothing, so the second one writes what both would.
DrawsFrame ==
  LET textures == ProcessReady(store)
      prepared == PrepareEnvironment(textures.store, frameNumber)
      refreshed == UpdatedSet(sets[slot], prepared.store)
      fits == TransientsFit
      made == IF fits THEN prepared.store
              ELSE MakeTransients(ReleaseTransients(prepared.store))
      set == IF fits THEN refreshed ELSE UpdatedSet(refreshed, made)
      recorded == RecordEnvironment([env |-> prepared.env, store |-> made],
                                    frameNumber)
      uploads == textures.staging \cup
                 UNION { r.buffers : r \in { x \in Range(recorded.env.retired) :
                                             x.frame = frameNumber } }
  IN  /\ DrawFrame(UsedBy(set, prepared.env, made, uploads))
      /\ store' = made
      /\ sets' = [sets EXCEPT ![slot] = set]
      /\ transients' = IF fits THEN transients
                       ELSE [transients EXCEPT ![slot] =
                               Made(ReleaseTransients(prepared.store))]
      /\ ProcessedReady(textures.staging)
      /\ EnvironmentRecorded(recorded)

Draw ==
  /\ TransientsFit \/ DeviceIsWaitedFor
  /\ DrawsFrame
  /\ MaterialsPrepared
  /\ UNCHANGED << subject, running, layout, updates >>

\* The transients cannot be made: what there was is released, record_frame()
\* fails, the frame is submitted as it is and the application quits.
DrawFails ==
  /\ Has("transients")
  /\ phase = "prepared"
  /\ ~TransientsFit
  /\ layout # NoLayout
  /\ DeviceIsWaitedFor
  /\ store' = ReleaseTransients(store)
  /\ transients' = [transients EXCEPT ![slot] = NoTransient]
  /\ DrawFrame({})
  /\ running' = FALSE
  /\ sets' = [sets EXCEPT ![slot] = UpdatedSet(@, store)]
  /\ MaterialsPrepared
  /\ UNCHANGED << textureVars, environmentVars, subject, layout, updates >>

\* The copies of a frame are in its own command buffer and read the upload
\* buffer when the GPU gets to them.
GpuCopies(q) ==
  /\ GpuFinishes(q)
  /\ LET finished == CHOOSE s \in inFlight :
                       s.queue = q /\ s.value = done[q] + 1
     IN table' = [m \in Materials |->
                    IF q = Graphics /\ m \in copies[finished.frame].slots
                    THEN upload[m] ELSE table[m]]
  /\ UNCHANGED << imageVars, textureVars, environmentVars, subject, running,
                  layout, transients, material, references, dirty, upload,
                  copies, updates >>

FrameStep ==
  /\ \/ BeginFrame /\ running /\ frameNumber < FrameBound[subject]
     \/ PrepareFrame
     \/ \E used \in SUBSET Queues : Graphics \in used /\ EndFrame(used)
  /\ UNCHANGED << imageVars, textureVars, environmentVars, resourceVars >>

Next ==
  \/ LayoutChanges
  \/ MaterialStep
  \/ TextureStep
  \/ EnvironmentStep
  \/ FrameStep
  \/ Draw
  \/ DrawFails
  \/ \E q \in Queues : GpuCopies(q)

Spec == Init /\ [][Next]_vars

----------------------------------------------------------------------------

\* No index of the set a frame was drawn with still describes an image that was
\* destroyed or replaced.
SetMatchesImages ==
  phase = "drawn" /\ running =>
    \A i \in Indexes : sets[slot][i] = DescriptorRecord(store, i)

\* The images a set in flight lists, except those only retired holders still
\* name, and the staging buffers a submission copies from.
UsedObjectsLive == \A s \in inFlight : s.uses \subseteq store.live

(* Nothing a frame in flight may touch was destroyed under it, and the set a  *)
(* frame was drawn with is the storage's own view of its images: however      *)
(* often a slot was freed and taken again since that frame slot's last turn,  *)
(* whatever was created after the table was first prepared, and however late  *)
(* the GPU is.                                                                *)
DescribedImagesLive == ResourcesTypeOK /\ SetMatchesImages /\ UsedObjectsLive

(* A frame's draws never see a material older than the one its users had      *)
(* written when it was drawn; a newer one they may see.                       *)
MaterialsArrive ==
  [][\A s \in inFlight :
       s.queue = Graphics /\ done[Graphics] < s.value /\ s.value = done'[Graphics] =>
         \A m \in Materials : table'[m] >= copies[s.frame].sees[m]]_vars

=============================================================================
