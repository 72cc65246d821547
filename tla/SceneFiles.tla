----------------------------- MODULE SceneFiles -----------------------------
(***************************************************************************)
(* The editor's scene files: what opens, saves, reloads and autosaves do   *)
(* to the editor scene, to the materials its overrides keep alive and to   *)
(* the files (app/scene_files.cxx, serialisation/scene_serialisation.cxx). *)
(*                                                                         *)
(* Three threads take part: the render thread, which runs the editor and   *)
(* update_scene_jobs(), the writer of a save, and the reader of a load.    *)
(* Models stream in on their own (ModelStreaming has their handles); here  *)
(* a model is loading, ready or failed.                                    *)
(***************************************************************************)
EXTENDS SceneFormat, Integers

CONSTANTS
    Files,         \* paths of scene files
    ModelFiles,    \* model files that can be dropped onto the window
    TextureFiles,  \* texture files that materials name
    Imports,       \* Imports[m]: the textures of the model file m
    Populated,     \* the game's own scene
    GameMaterials, \* the materials it uses
    FirstSettings, \* the settings of a new scene
    Edited,        \* what panels can leave in a place, a value, a look and the settings
    FirstFiles,    \* the files that were saved before
    MaxSceneEdits, MaxOpens, MaxSaves, MaxSceneEntities,  \* bounds of the exploration
    MaxValueEdits  \* and how many of the first edits may be of values

\* What the game, the importers and the editor make is of the kinds there are and
\* refers to what there is: so many models and materials.  Its numbers may be any:
\* a drag field takes what is typed.
SoundMaterial(m) ==
    /\ m = [name |-> m.name, refs |-> m.refs, look |-> m.look, texture |-> m.texture]
    /\ m.look # Odd /\ m.texture # Odd

SoundEntity(e, modelCount, materialCount) ==
    /\ e = [name |-> e.name, place |-> e.place, parent |-> e.parent, streamed |-> e.streamed,
            model |-> e.model, over |-> e.over, slots |-> e.slots, field |-> e.field,
            inst |-> e.inst, plain |-> e.plain, lifetime |-> e.lifetime]
    /\ IsFiniteSet(e.slots)
    /\ {e.model, e.field} \subseteq 0..modelCount
    /\ {e.over, e.inst} \cup {s.mat : s \in e.slots} \subseteq 0..materialCount
    /\ "rigid_body" \in DOMAIN e.plain => e.plain["rigid_body"] # Odd

SoundScene(s, modelCount, materialCount) ==
    /\ s \in Seq(Range(s)) /\ ParentsSound(s)
    /\ \A i \in DOMAIN s : SoundEntity(s[i], modelCount, materialCount)

SoundMaterials(table) == table \in Seq(Range(table)) /\ \A m \in DOMAIN table : SoundMaterial(table[m])

ASSUME SceneAssumption ==
    /\ EngineModels # {}
    /\ Odd \notin Int \cup Edited.value \cup Edited.look \cup Edited.settings \cup {NoSource, FirstSettings}
    /\ None \notin {"file_not_found", "checksum_mismatch", "malformed_payload"}
    /\ SoundMaterials(GameMaterials)
    /\ SoundScene(Populated, 1, Len(GameMaterials))

VARIABLES
    scene,    \* the entities of editor_scene
    settings, \* its environment and physics_settings
    models,   \* the renderer's models; the engine cube is the first
    mats,     \* the renderer's materials
    editor,   \* scene_path, scene_clean_fingerprint, scene_pack, open_after_save,
              \* pending_scene_open (its prompt is up) and the Save As popup
    save,     \* scene_save_job
    load,     \* scene_load_job
    disk,     \* scene files
    origin,   \* the file the entities of the scene came from (for the properties)
    strayed,  \* the scene or its file changed while a load ran, or the load left
              \* something out with a warning (for the properties)
    leaked,   \* what load jobs that were dropped held (for the properties)
    count     \* edits, opens and saves so far

filesVars == <<scene, settings, models, mats, editor, save, load, disk, origin, strayed, leaked, count>>

Cube == 1
EngineCube == CHOOSE m \in EngineModels : TRUE

Captured == CaptureScene(scene, models, mats, settings)
Fingerprint == SceneFingerprint(Captured)
Dirty == Fingerprint # editor.clean

\* Who holds references of a material: the overrides of a scene, and the slots a
\* load keeps until their model is there.
SlotUses(s, m) == UNION {{i} \X {x \in s[i].slots : x.mat = m} : i \in DOMAIN s}
Uses(s, m) == Cardinality({i \in DOMAIN s : s[i].over = m}) + Cardinality(SlotUses(s, m))
UsesOf(table, s) == [m \in DOMAIN table |-> Uses(s, m)]
OneOf(table, these) == [m \in DOMAIN table |-> IF m \in these THEN 1 ELSE 0]
SlotsHeld(deferred, m) == UNION {{d} \X {x \in d.slots : x.mat = m} : d \in deferred}
Held(deferred, m) == Cardinality(SlotsHeld(deferred, m))

\* The game's materials have a reference for each entity that shows them, which all
\* show one, and for their name.  (on_populate())
ASSUME GameAssumption ==
    /\ \A i \in DOMAIN Populated : Populated[i].slots = {}
    /\ \A m \in DOMAIN GameMaterials :
         GameMaterials[m].refs = Uses(Populated, m) + (IF GameMaterials[m].name # None THEN 1 ELSE 0)

\* retain_material() and release_material(), by[m] times: the last reference frees
\* the material and its name, and one that is gone stays gone.
Retained(table, by) ==
    [m \in DOMAIN table |-> IF table[m].refs = 0 THEN table[m] ELSE [table[m] EXCEPT !.refs = @ + by[m]]]
Released(table, by) ==
    [m \in DOMAIN table |-> IF table[m].refs > by[m] THEN [table[m] EXCEPT !.refs = @ - by[m]]
                            ELSE [table[m] EXCEPT !.refs = 0, !.name = None]]

\* (A mutation: the old references first.)
ReleasedFirst(table, old, new) ==
    Retained(Released(table, UsesOf(table, old)), UsesOf(table, new))

\* set_material_override(): the new overrides have their references before the old
\* ones lose theirs, so a material in both is not freed in between.
Overridden(table, old, new) ==
    Released(Retained(table, UsesOf(table, new)), UsesOf(table, old))

NewEntity(name, model, streamed) ==
    [name |-> name, place |-> 0, parent |-> 0, streamed |-> streamed, model |-> model,
     over |-> 0, slots |-> {}, field |-> 0, inst |-> 0, plain |-> <<>>, lifetime |-> None]

Loading(table, h) == h # 0 /\ table[h].state = "loading"

\* cached_model(): a model of that file which is there already.
CachedModel(table, source) ==
    LET there == {h \in DOMAIN table : table[h].source = source /\ table[h].state = "ready"}
    IN IF there = {} THEN 0 ELSE CHOOSE h \in there : TRUE

FirstModels == <<[source |-> EngineCube, state |-> "ready", pack |-> None]>>
FirstEditor ==
    [path |-> None, pack |-> None, next |-> None, pending |-> None, naming |-> FALSE,
     clean |-> SceneFingerprint(CaptureScene(Populated, FirstModels, GameMaterials, FirstSettings))]

NoLoad == [path |-> None, stage |-> "none", table |-> None, read |-> None, streaming |-> {}, deferred |-> {}]

\* What an earlier session saved before anything was changed.
EarlierFile ==
    LET captured == CaptureScene(Populated, FirstModels, GameMaterials, FirstSettings)
    IN Container("scene", EncodeScene(captured),
                 CookAssets(captured, {}, ModelFiles \cup TextureFiles, Imports))

\* The game populates the editor scene and the application marks it clean.
FilesInit ==
    /\ scene = Populated /\ settings = FirstSettings /\ models = FirstModels /\ mats = GameMaterials
    /\ editor = FirstEditor /\ save = None /\ load = NoLoad
    /\ disk = [f \in Files |-> IF f \in FirstFiles THEN EarlierFile ELSE None]
    /\ origin = None /\ strayed = FALSE /\ leaked = {}
    /\ count = [edits |-> 0, opens |-> 0, saves |-> 0]

(***************************************************************************)
(* Edits, on the render thread.                                            *)
(***************************************************************************)
EditScene ==
    /\ count.edits < MaxSceneEdits
    /\ count' = [count EXCEPT !.edits = @ + 1]
    /\ strayed' = (strayed \/ load # NoLoad)
    /\ UNCHANGED <<load, disk, leaked>>

EditValues ==
    /\ count.edits < MaxValueEdits
    /\ EditScene /\ UNCHANGED <<models, editor, save, origin>>

\* A gizmo or the fields of the inspector.
Move(i) ==
    /\ EditValues
    /\ \E v \in Edited.place \ {scene[i].place} : scene' = [scene EXCEPT ![i].place = v]
    /\ UNCHANGED <<settings, mats>>

\* The inspector's fields of a light, of a body (the terrain's stays a heightfield) and
\* of a lifetime.  What is typed is not held within a slider's range.
EditComponent(i) ==
    /\ EditValues
    /\ \E v \in Edited.value :
         \/ \E k \in DOMAIN scene[i].plain \cap {"point_light", "spot_light", "rigid_body"} :
              /\ scene[i].plain[k] \notin {v, Terrain}
              /\ scene' = [scene EXCEPT ![i].plain = [@ EXCEPT ![k] = v]]
         \/ /\ scene[i].lifetime \notin {v, None}
            /\ scene' = [scene EXCEPT ![i].lifetime = v]
    /\ UNCHANGED <<settings, mats>>

\* The environment panel: its source is an image from the moment that is chosen in
\* the list, and has no path until one is picked.
EditSettings ==
    /\ EditValues
    /\ settings' \in Edited.settings \ {settings}
    /\ UNCHANGED <<scene, mats>>

\* The fields of a material that the scene shows.
EditMaterial(m) ==
    /\ EditValues
    /\ mats[m].refs > 0 /\ Uses(scene, m) # 0
    /\ \E v \in Edited.look \ {mats[m].look} : mats' = [mats EXCEPT ![m].look = v]
    /\ UNCHANGED <<scene, settings>>

\* spawn_streamed_model(): an entity at once, its model when it has loaded.
DropModel(source) ==
    /\ EditScene
    /\ Len(scene) < MaxSceneEntities
    /\ LET cached == CachedModel(models, source)
       IN /\ models' = IF cached # 0 THEN models
                       ELSE Append(models, [source |-> source, state |-> "loading", pack |-> None])
          /\ scene' = Append(scene,
                        NewEntity(source, IF cached # 0 THEN cached ELSE Len(models) + 1, TRUE))
    /\ UNCHANGED <<settings, mats, editor, save, origin>>

\* "Override" in the inspector: a copy of the model's material, which has no name
\* and lives as long as the override.
OverrideSlot(i) ==
    /\ EditScene
    /\ scene[i].model # 0 /\ ~Loading(models, scene[i].model)
    /\ LET of == MaterialsOf(models, scene[i].model)
           copy == Len(mats) + 1
           edited == [scene EXCEPT ![i].slots =
                        {s \in @ : s.of # of} \cup {[of |-> of, slot |-> 1, mat |-> copy]}]
           made == Append(mats, [name |-> None, refs |-> 1, look |-> count.edits, texture |-> NoSource])
       IN /\ scene' = edited
          /\ mats' = Released(Overridden(made, scene, edited), OneOf(made, {copy}))
    /\ UNCHANGED <<settings, models, editor, save, origin>>

\* An entity that has nothing under it is deleted: its overrides go with it.
Delete ==
    /\ EditScene
    /\ Len(scene) > 1 /\ \A i \in DOMAIN scene : scene[i].parent # Len(scene)
    /\ scene' = Front(scene)
    /\ mats' = Overridden(mats, scene, Front(scene))
    /\ UNCHANGED <<settings, models, editor, save, origin>>

\* on_populate(): the game keeps the named material its scene shows, the grass, and
\* gives it its first look again.  Those without a name are made anew, and in the end
\* the entities that show them are their only owners.
Unnamed == SetToSeq({m \in DOMAIN GameMaterials : GameMaterials[m].name = None})

MadeAnew ==
    [m \in DOMAIN mats |->
        IF m \in DOMAIN GameMaterials \ Range(Unnamed)
        THEN [mats[m] EXCEPT !.look = GameMaterials[m].look, !.texture = GameMaterials[m].texture]
        ELSE mats[m]]
      \o [k \in DOMAIN Unnamed |-> [GameMaterials[Unnamed[k]] EXCEPT !.refs = 1]]

ShownNow(m) == IF m \in Range(Unnamed) THEN Len(mats) + IndexOf(Unnamed, m) ELSE m
EntitiesAnew ==
    [i \in DOMAIN Populated |-> [Populated[i] EXCEPT !.over = ShownNow(@), !.inst = ShownNow(@)]]

MaterialsAnew ==
    Released(Retained(Released(MadeAnew, UsesOf(MadeAnew, scene)), UsesOf(MadeAnew, EntitiesAnew)),
             OneOf(MadeAnew, Len(mats) + 1..Len(MadeAnew)))

\* Ctrl+R: the game populates the scene again, whose settings stay.  The key does
\* nothing while a load runs, but the event it queues may find one that has begun.
\* What a running save captured is then no longer the scene (from).
PopulateAgain ==
    /\ EditScene
    /\ load # NoLoad => load.stage # "streaming"
    /\ scene' = EntitiesAnew /\ mats' = MaterialsAnew
    /\ editor' = [editor EXCEPT !.path = None, !.pack = None,
                    !.clean = SceneFingerprint(CaptureScene(EntitiesAnew, models, MaterialsAnew, settings))]
    /\ origin' = None
    /\ save' = IF save = None THEN None ELSE [save EXCEPT !.from = NoSource]
    /\ UNCHANGED <<settings, models>>

(***************************************************************************)
(* Opening and saving, on the render thread.                               *)
(***************************************************************************)
\* start_open_scene(): a load that is still streaming is dropped.
StartOpen(f) ==
    /\ load' = [path |-> f, stage |-> "opening", table |-> None, read |-> None,
                streaming |-> {}, deferred |-> {}]
    /\ leaked' = leaked \cup load.deferred
    /\ count' = [count EXCEPT !.opens = @ + 1]

\* start_save_scene() for an editor in state e: without a path it asks for one; the
\* scene is captured now and written later.  plain: the user gave no name.
StartSave(f, e, plain) ==
    /\ editor' = IF f = None THEN [e EXCEPT !.naming = TRUE] ELSE e
    /\ IF f = None \/ save # None THEN UNCHANGED <<save, count>>
       ELSE /\ count.saves < MaxSaves
            /\ count' = [count EXCEPT !.saves = @ + 1]
            /\ save' = [path |-> f, stage |-> "cooking", scene |-> Captured, clean |-> Fingerprint,
                        pack |-> editor.pack, file |-> None, plain |-> plain, from |-> origin]
    /\ UNCHANGED <<scene, settings, models, mats, load, disk, origin, strayed, leaked>>

\* Ctrl+S and Ctrl+Shift+S work at any time; the buttons only between jobs.
PressSave == StartSave(editor.path, editor, TRUE)
PressSaveAs == ~editor.naming /\ StartSave(None, editor, FALSE)
ConfirmSaveAs(f) == editor.naming /\ StartSave(f, [editor EXCEPT !.naming = FALSE], FALSE)

Closed(e) ==
    /\ editor' = e
    /\ UNCHANGED <<scene, settings, models, mats, save, disk, origin, strayed>>

CancelSaveAs ==
    editor.naming /\ Closed([editor EXCEPT !.naming = FALSE]) /\ UNCHANGED <<load, leaked, count>>

\* request_open_scene(): a scene that changed is not replaced without asking.
RequestOpen(f) ==
    /\ load = NoLoad
    /\ count.opens < MaxOpens
    /\ IF Dirty THEN Closed([editor EXCEPT !.pending = f]) /\ UNCHANGED <<load, leaked, count>>
       ELSE Closed(editor) /\ StartOpen(f)

\* The prompt.  An untitled scene is given a name in it, which may be left empty.
PromptSave(name) ==
    /\ editor.pending # None
    /\ save = None
    /\ StartSave(IF editor.path = None THEN name ELSE editor.path,
                 [editor EXCEPT !.next = editor.pending, !.pending = None], editor.path # None)

PromptDiscard ==
    /\ editor.pending # None
    /\ count.opens < MaxOpens
    /\ Closed([editor EXCEPT !.pending = None]) /\ StartOpen(editor.pending)

PromptCancel ==
    /\ editor.pending # None
    /\ Closed([editor EXCEPT !.pending = None]) /\ UNCHANGED <<load, leaked, count>>

(***************************************************************************)
(* The writer of a save (write_scene_file() on a thread of its own).       *)
(***************************************************************************)
InPack(pack) == IF pack = None THEN {} ELSE {a \in pack.table.assets : ReadsChunk(pack.table, disk[pack.path], a)}

Background == UNCHANGED <<scene, settings, models, mats, editor, origin, leaked, count>>

\* The save gets its file, with the assets of those model files that are there.
Cooked ==
    \E there \in SUBSET ModelFiles :
        save' = [save EXCEPT !.stage = "writing",
                   !.file = Container("scene", EncodeScene(save.scene),
                              CookAssets(save.scene, InPack(save.pack), there \cup TextureFiles, Imports))]

\* (A mutation: the file itself is opened for writing.)
SaveCooksInPlace ==
    /\ save # None /\ save.stage = "cooking"
    /\ Cooked
    /\ disk' = [disk EXCEPT ![save.path] = HalfWritten(save'.file)]
    /\ Background /\ UNCHANGED <<load, strayed>>

\* Cooks or copies the assets and writes everything to a temporary file.
SaveCooks ==
    /\ save # None /\ save.stage = "cooking"
    /\ Background /\ UNCHANGED <<load, disk, strayed>>
    /\ Cooked

\* The whole temporary takes the place of the file.
SaveReplaces ==
    /\ save # None /\ save.stage = "writing"
    /\ disk' = [disk EXCEPT ![save.path] = save.file]
    /\ save' = [save EXCEPT !.stage = "saved"]
    /\ strayed' = (strayed \/ (load # NoLoad /\ load.path = save.path))
    /\ Background /\ UNCHANGED <<load>>

\* No room, no permission: the temporary is removed.
SaveFails ==
    /\ save # None /\ save.stage \in {"cooking", "writing"}
    /\ save' = [save EXCEPT !.stage = "failed"]
    /\ Background /\ UNCHANGED <<load, disk, strayed>>

(***************************************************************************)
(* The reader of a load (read_scene_file() on a thread of its own).  It    *)
(* opens the file twice: for the table of contents and for the scene.      *)
(***************************************************************************)
LoadOpens ==
    /\ load # NoLoad /\ load.stage = "opening"
    /\ LET error == OpenError(disk[load.path])
       IN load' = IF error # None THEN [load EXCEPT !.stage = "read", !.read = [error |-> error]]
                  ELSE [load EXCEPT !.stage = "reading", !.table = disk[load.path]]
    /\ Background /\ UNCHANGED <<save, disk, strayed>>

LoadReads ==
    /\ load # NoLoad /\ load.stage = "reading"
    /\ \E decoded \in {Decoded(load.table.scene)} :
        load' = [load EXCEPT !.stage = "read",
                   !.read = IF disk[load.path] # load.table THEN [error |-> "checksum_mismatch"]
                            ELSE [error |-> ReadError(load.table, decoded), scene |-> decoded]]
    /\ Background /\ UNCHANGED <<save, disk, strayed>>

(***************************************************************************)
(* A streamed model arrives, from the pack its scene came with or from its *)
(* file, which may not be there; a model whose pack fails does not fall    *)
(* back to its file.                                                       *)
(***************************************************************************)
ModelSettles(h) ==
    /\ Loading(models, h)
    /\ \E found \in IF models[h].pack = None THEN BOOLEAN
                    ELSE LET pack == models[h].pack
                         IN {ReadsChunk(pack.table, disk[pack.path], models[h].source)} :
          /\ models' = [models EXCEPT ![h].state = IF found THEN "ready" ELSE "failed"]
          /\ strayed' = (strayed \/ (load # NoLoad /\ ~found))
    /\ UNCHANGED <<scene, settings, mats, editor, save, load, disk, origin, leaked, count>>

(***************************************************************************)
(* update_scene_jobs(), on the render thread once a frame.                 *)
(***************************************************************************)
\* (A mutation: the scene as it is now.)
CleanNow == Fingerprint

\* What a save wrote is what was captured when it began.
CleanSince == save.clean

\* (A mutation: a save that failed is waited for.)
SaveSucceeded == save # None /\ save.stage = "saved"

SaveEnded == save # None /\ save.stage \in {"saved", "failed"}

\* A finished save: its file is the scene's, and what was captured is clean.
UpdateSave ==
    /\ SaveEnded
    /\ save' = None
    /\ IF save.stage = "failed"
       THEN editor' = [editor EXCEPT !.next = None] /\ UNCHANGED <<load, origin, leaked, count>>
       ELSE /\ editor' = [editor EXCEPT !.path = save.path, !.clean = CleanSince, !.next = None,
                            !.pack = [path |-> save.path, table |-> disk[save.path]]]
            /\ origin' = IF origin = save.from THEN save.path ELSE origin
            /\ IF editor.next # None THEN StartOpen(editor.next) ELSE UNCHANGED <<load, leaked, count>>
    /\ UNCHANGED <<scene, settings, models, mats, disk, strayed>>

\* instantiate_scene(): models are shared, or stream from the pack or their file.
ResolvedModels(files) ==
    LET streaming == SetToSeq({s \in Range(files) : ~Prefix(s) /\ CachedModel(models, s) = 0})
        pack(s) == IF s \in load.table.assets THEN [path |-> load.path, table |-> load.table] ELSE None
    IN [models |-> models \o [k \in DOMAIN streaming |->
                        [source |-> streaming[k], state |-> "loading", pack |-> pack(streaming[k])]],
        streaming |-> Len(models) + 1 .. Len(models) + Len(streaming),
        handles |-> [k \in DOMAIN files |->
                        CASE Prefix(files[k]) -> Cube
                          [] files[k] \in Range(streaming) -> Len(models) + IndexOf(streaming, files[k])
                          [] OTHER -> CachedModel(models, files[k])]]

\* A material whose name is taken changes the one there is, any other is made and
\* has the reference of whoever makes it.
Namesakes(d, k) ==
    {m \in DOMAIN mats : d.materials[k].name # None /\ mats[m].name = d.materials[k].name}
TextureOf(d, k) == IF d.materials[k].texture = 0 THEN NoSource ELSE d.textures[d.materials[k].texture]

MadeMaterials(d) ==
    LET new == SetToSeq({k \in DOMAIN d.materials : Namesakes(d, k) = {}})
        handles == [k \in DOMAIN d.materials |->
                        IF Namesakes(d, k) = {} THEN Len(mats) + IndexOf(new, k)
                        ELSE CHOOSE m \in Namesakes(d, k) : TRUE]
        of(m) == {k \in DOMAIN d.materials : handles[k] = m}
    IN [handles |-> handles,
        mats |-> [m \in 1..Len(mats) + Len(new) |->
                    IF of(m) = {} THEN mats[m]
                    ELSE LET k == CHOOSE x \in of(m) : TRUE
                         IN [name |-> d.materials[k].name, look |-> d.materials[k].look,
                             texture |-> TextureOf(d, k),
                             refs |-> IF Namesakes(d, k) = {} THEN 1 ELSE mats[m].refs]]]

SlotsOf(d, made, i) ==
    UNION {{[slot |-> s.slot, mat |-> made.handles[s.material]] : s \in c.slots} :
                c \in {x \in d.material_overrides : x.entity = i}}

\* The component that an entity has in a list, if it has one there.
Has(components, i) == \E c \in components : c.entity = i
The(components, i) == CHOOSE c \in components : c.entity = i

MaterialMade(made, k) == IF k = 0 THEN 0 ELSE made.handles[k]
ModelMade(d, resolved, i) ==
    IF Has(d.model_components, i) THEN resolved.handles[The(d.model_components, i).model] ELSE 0

\* An entity, with its slot overrides if its model is there.
EntityMade(d, resolved, made, i) ==
    LET model == ModelMade(d, resolved, i)
        plain == {c \in d.plain : c.entity = i}
        field == Has(d.instanced_models, i)
    IN [name |-> d.entities[i].name, place |-> d.entities[i].place, parent |-> d.entities[i].parent,
        streamed |-> d.entities[i].streamed /\ model # 0, model |-> model,
        over |-> IF Has(d.material_overrides, i)
                 THEN MaterialMade(made, The(d.material_overrides, i).material) ELSE 0,
        slots |-> IF model = 0 \/ Loading(resolved.models, model) THEN {}
                  ELSE {[of |-> MaterialsOf(resolved.models, model), slot |-> s.slot, mat |-> s.mat] :
                           s \in SlotsOf(d, made, i)},
        field |-> IF field THEN resolved.handles[The(d.instanced_models, i).model] ELSE 0,
        inst |-> IF field THEN MaterialMade(made, The(d.instanced_models, i).material) ELSE 0,
        plain |-> [k \in {c.kind : c \in plain} |-> (CHOOSE c \in plain : c.kind = k).value],
        lifetime |-> IF Has(d.lifetimes, i) THEN The(d.lifetimes, i).value ELSE None]
EntitiesMade(d, resolved, made) == [i \in DOMAIN d.entities |-> EntityMade(d, resolved, made, i)]

\* The slot overrides of models that are not wait for them, with their references.
Deferred(d, resolved, made, entities) ==
    {x \in {[entity |-> i, model |-> entities[i].model, slots |-> SlotsOf(d, made, i)] : i \in DOMAIN entities} :
        x.slots # {} /\ Loading(resolved.models, x.model)}

\* The old entities go before the new ones come; in the end a material without a
\* name is left to those who use it.
Replaced(resolved, made, entities, deferred) ==
    LET anonymous == {m \in DOMAIN made.mats : m > Len(mats) /\ made.mats[m].name = None}
    IN [scene |-> entities, models |-> resolved.models,
        mats |-> Released(Retained(Released(made.mats, UsesOf(made.mats, scene)),
                                   [m \in DOMAIN made.mats |-> Uses(entities, m) + Held(deferred, m)]),
                          OneOf(made.mats, anonymous)),
        load |-> [load EXCEPT !.stage = "streaming", !.read = None, !.streaming = resolved.streaming,
                              !.deferred = deferred]]

\* apply_deferred_slot_overrides(): the overrides whose model has settled; an entity
\* that was deleted or has another model by now is passed over.
Applied(now) ==
    LET ready == {d \in now.load.deferred : ~Loading(now.models, d.model)}
        there(d) == d.entity \in DOMAIN now.scene /\ now.scene[d.entity].model = d.model
        edited == [i \in DOMAIN now.scene |->
            [now.scene[i] EXCEPT !.slots = @ \cup UNION {
                {[of |-> MaterialsOf(now.models, d.model), slot |-> s.slot, mat |-> s.mat] : s \in d.slots} :
                    d \in {x \in ready : x.entity = i /\ there(x)}}]]
    IN [scene |-> edited, models |-> now.models,
        mats |-> Released(Overridden(now.mats, now.scene, edited),
                          [m \in DOMAIN now.mats |-> Held(ready, m)]),
        load |-> [now.load EXCEPT !.deferred = @ \ ready]]

\* An entity saved without its model (it was loading, or had failed) is no streamed
\* entity when it is read, and its slot overrides have nothing to replace.
LeftOut(d) ==
    \E i \in DOMAIN d.entities :
        /\ \A x \in d.model_components : x.entity # i
        /\ d.entities[i].streamed \/ \E c \in d.material_overrides : c.entity = i /\ c.slots # {}

\* SceneLoadJob::step(): a file that could not be read leaves the scene as it is; a
\* load is done when every model and every override has settled.
LoadFailed ==
    /\ load.stage = "read" /\ load.read.error # None
    /\ load' = NoLoad
    /\ UNCHANGED <<scene, settings, models, mats, editor, origin, strayed>>

Progressed(now) ==
    LET done == now.load.deferred = {} /\ \A h \in now.load.streaming : ~Loading(now.models, h)
    IN /\ scene' = now.scene /\ models' = now.models /\ mats' = now.mats
       /\ load' = IF done THEN NoLoad ELSE now.load
       /\ \E captured \in {CaptureScene(now.scene, now.models, now.mats, settings')} :
            editor' = IF ~done THEN editor
                      ELSE [editor EXCEPT !.path = load.path, !.clean = SceneFingerprint(captured),
                              !.pack = [path |-> load.path, table |-> load.table]]

LoadInstantiated ==
    /\ load.stage = "read" /\ load.read.error = None
    /\ settings' = load.read.scene.settings
    /\ LET d == load.read.scene
       IN \E resolved \in {ResolvedModels(d.models)}, made \in {MadeMaterials(d)} :
          \E entities \in {EntitiesMade(d, resolved, made)} :
          \E now \in {Replaced(resolved, made, entities, Deferred(d, resolved, made, entities))} :
          \E then \in {Applied(now)} : Progressed(then)
    /\ origin' = load.path
    /\ strayed' = (disk[load.path] # load.table \/ LeftOut(load.read.scene))

LoadStreams ==
    /\ load.stage = "streaming"
    /\ UNCHANGED settings
    /\ \E now \in {Applied([scene |-> scene, models |-> models, mats |-> mats, load |-> load])} : Progressed(now)
    /\ UNCHANGED <<origin, strayed>>

UpdateLoad ==
    /\ load # NoLoad
    /\ UNCHANGED <<save, disk, leaked, count>>
    /\ LoadFailed \/ LoadInstantiated \/ LoadStreams

(***************************************************************************)
(* The world outside.                                                      *)
(***************************************************************************)
\* The program dies and is started again: only files are left.
Crash ==
    /\ scene' = Populated /\ settings' = FirstSettings /\ models' = FirstModels /\ mats' = GameMaterials
    /\ editor' = FirstEditor /\ save' = None /\ load' = NoLoad
    /\ origin' = None /\ strayed' = FALSE /\ leaked' = {}
    /\ UNCHANGED <<disk, count>>

User ==
    \/ \E i \in DOMAIN scene : Move(i) \/ EditComponent(i) \/ OverrideSlot(i)
    \/ EditSettings \/ \E m \in DOMAIN mats : EditMaterial(m)
    \/ \E m \in ModelFiles : DropModel(m)
    \/ Delete \/ PopulateAgain
    \/ PressSave \/ PressSaveAs \/ CancelSaveAs
    \/ \E f \in Files : ConfirmSaveAs(f) \/ RequestOpen(f)
    \/ \E name \in Files \cup {None} : PromptSave(name)
    \/ PromptDiscard \/ PromptCancel

FilesNext ==
    \/ User
    \/ SaveCooks \/ SaveReplaces \/ SaveFails \/ LoadOpens \/ LoadReads
    \/ \E h \in DOMAIN models : ModelSettles(h)
    \/ UpdateSave \/ UpdateLoad
    \/ Crash

\* A worker has a step to take, or UpdateLoad has something to change.
SaveWorks == save # None /\ save.stage \in {"cooking", "writing"}
LoadWorks == load # NoLoad /\ load.stage \in {"opening", "reading"}
LoadMoves ==
    /\ load # NoLoad
    /\ \/ load.stage = "read"
       \/ /\ load.stage = "streaming"
          /\ \/ \E d \in load.deferred : ~Loading(models, d.model)
             \/ \A h \in load.streaming : ~Loading(models, h)

\* Threads go on, frames go on, models settle; nobody has to press anything.  (Weak
\* fairness of each, the enabling conditions of the large ones spelled out.)
FilesFairness ==
    /\ []<>~SaveWorks \/ []<><<SaveCooks \/ SaveReplaces>>_filesVars
    /\ []<>~LoadWorks \/ []<><<LoadOpens \/ LoadReads>>_filesVars
    /\ WF_filesVars(\E h \in DOMAIN models : ModelSettles(h))
    /\ WF_filesVars(UpdateSave)
    /\ []<>~LoadMoves \/ []<><<UpdateLoad>>_filesVars

FilesSpec == FilesInit /\ [][FilesNext]_filesVars /\ FilesFairness

(***************************************************************************)
(* Properties.                                                             *)
(***************************************************************************)
\* Whatever was captured, and whenever a save failed or the program died: every file
\* there opens, none of its sections is refused and every index in it is in range, so
\* nothing but a number the editor left in the scene can keep it from being read.
\* (LbfWriter::write_file(), capture_scene(), validate_scene())
FilesAreWhole ==
    \A f \in Files : disk[f] # None =>
        \A decoded \in {Decoded(disk[f].scene)} :
            /\ ReferencesSound(decoded)
            /\ ReadError(disk[f], decoded) = IF ValuesSane(decoded) THEN None ELSE "malformed_payload"

\* The file in the title holds the scene that counts as clean, and the pack is its
\* table, unless scene or file changed while a load ran or the load left something
\* out.  (update_scene_jobs())
TitleIsTrue ==
    (save = None /\ load = NoLoad /\ ~strayed /\ editor.path # None) =>
        /\ editor.pack.path = editor.path /\ editor.pack.table = disk[editor.path]
        /\ SceneFingerprint(Decoded(disk[editor.path].scene)) = editor.clean

\* A material has a reference for each override that names it and each slot a load
\* holds back, and one for its name, and no more, but for what dropped loads held.
\* (set_material_override(), instantiate_scene(), apply_deferred_slot_overrides())
MaterialsAreAccountedFor ==
    \A m \in DOMAIN mats :
        mats[m].refs = Uses(scene, m) + Held(load.deferred \cup leaked, m)
                         + (IF mats[m].name # None THEN 1 ELSE 0)

\* No save and no load goes on for ever, whatever fails.  (SceneSaveJob, SceneLoadJob)
JobsSettle == []<>(save = None) /\ []<>(load = NoLoad)

\* "The file the editor scene was last opened from or saved to": a save without a
\* name goes to the file the scene is from.  (application.hxx)
PlainSavesGoHome == save # None /\ save.plain => save.path = save.from
=============================================================================
