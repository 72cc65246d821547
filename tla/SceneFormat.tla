---------------------------- MODULE SceneFormat ----------------------------
(***************************************************************************)
(* Scenes as data: the file container (serialisation/lbf_container.cxx),   *)
(* the sections of the SCEN chunk (scene_codec.cxx), what a save captures, *)
(* what it embeds (asset_pack.cxx) and the fingerprint that tells whether  *)
(* a scene changed (scene_serialisation.cxx).                              *)
(*                                                                         *)
(* A scene is a sequence of entities, in the order of their ids.  A model  *)
(* handle and a material handle are positions in the tables of live models *)
(* and materials, 0 the invalid handle; an index into a description is a   *)
(* position in one of its lists, 0 standing for scene_no_index.  Values    *)
(* (transforms, factors, lights, bodies) are opaque; Bad is one that is    *)
(* not finite or out of range, or names nothing.  The settings of a scene, *)
(* its environment and physics, are one such value.                        *)
(***************************************************************************)
EXTENDS Engine, FiniteSets, Sequences, SequencesExt

CONSTANTS
    EngineModels,   \* sources of the built-in models
    NoSource,       \* of a model or texture generated at run time
    Bad,            \* a value that validate_scene() refuses
    Odd,            \* a value that no enumeration of the format has
    Terrain,        \* a heightfield body
    Unregistered    \* a script without a name

Prefix(source) == source \in EngineModels

IndexOf(s, x) == IF x \in Range(s) THEN CHOOSE i \in DOMAIN s : s[i] = x ELSE 0

(***************************************************************************)
(* Capture.  models and mats are the renderer's tables.  The tables of a   *)
(* description list each thing once, in an order that nothing depends on.  *)
(***************************************************************************)
\* The reference a model is saved by, if it has one: a streamed model has a
\* source only once it is installed.
ModelReference(models, h) ==
    IF h # 0 /\ models[h].state = "ready" THEN models[h].source ELSE NoSource

\* A destroyed material, or one whose handle was never valid, has no index.
Saved(mats, m) == m # 0 /\ mats[m].refs > 0

\* texture_index(): each file once; a texture without one has no index and is saved
\* as the default of its slot.
TextureTable(mats, used) == SetToSeq({mats[m].texture : m \in used} \ {NoSource})
SavedMaterial(mat, textures) ==
    [name |-> mat.name, look |-> mat.look, texture |-> IndexOf(textures, mat.texture)]

EntityMaterials(models, e) ==
    {e.over} \cup {s.mat : s \in e.slots}
        \cup (IF ModelReference(models, e.field) # NoSource THEN {e.inst} ELSE {})

\* model_materials(): until its own are there, a model shows those of the engine
\* cube, the first of the table.
MaterialsOf(models, h) == IF h # 0 /\ models[h].state # "ready" THEN 1 ELSE h

\* The slots of an override that still name a material of the entity's model.
SlotMatches(models, mats, e, s) == s.of = MaterialsOf(models, e.model) /\ Saved(mats, s.mat)

\* The lights, bodies and scripts an entity is saved with: a terrain collider is
\* made again by the terrain, a script nobody registered has no name to save.
Kept(plain) ==
    {k \in DOMAIN plain : /\ plain[k] # None
                          /\ ~(k = "rigid_body" /\ plain[k] = Terrain)
                          /\ ~(k = "script" /\ plain[k] = Unregistered)}

\* What a capture lists: the models that have a reference, the materials there are.
SavedModels(scene, models) ==
    {h \in UNION {{scene[i].model, scene[i].field} : i \in DOMAIN scene} :
        ModelReference(models, h) # NoSource}
SavedMaterials(scene, models, mats) ==
    {m \in UNION {EntityMaterials(models, scene[i]) : i \in DOMAIN scene} : Saved(mats, m)}
KeptSlots(models, mats, e) == {s \in e.slots : SlotMatches(models, mats, e, s)}

\* capture_scene(): handles become references, entities become positions, and
\* what cannot be expressed is left out with a warning.
CaptureScene(scene, models, mats, settings) ==
    LET handles == SetToSeq(SavedModels(scene, models))
        used == SetToSeq(SavedMaterials(scene, models, mats))
        textures == TextureTable(mats, SavedMaterials(scene, models, mats))
    IN [settings |-> settings,
        models |-> [i \in DOMAIN handles |-> models[handles[i]].source],
        textures |-> textures,
        materials |-> [i \in DOMAIN used |-> SavedMaterial(mats[used[i]], textures)],
        entities |-> [i \in DOMAIN scene |->
                        [name |-> scene[i].name, place |-> scene[i].place,
                         parent |-> scene[i].parent, streamed |-> scene[i].streamed]],
        model_components |->
            {[entity |-> i, model |-> IndexOf(handles, scene[i].model)] :
                i \in {j \in DOMAIN scene : scene[j].model \in Range(handles)}},
        material_overrides |->
            {[entity |-> i, material |-> IndexOf(used, scene[i].over),
              slots |-> {[slot |-> s.slot, material |-> IndexOf(used, s.mat)] :
                            s \in KeptSlots(models, mats, scene[i])}] :
                i \in {j \in DOMAIN scene : \/ Saved(mats, scene[j].over)
                                            \/ KeptSlots(models, mats, scene[j]) # {}}},
        instanced_models |->
            {[entity |-> i, model |-> IndexOf(handles, scene[i].field),
              material |-> IndexOf(used, scene[i].inst)] :
                i \in {j \in DOMAIN scene : scene[j].field \in Range(handles)}},
        plain |-> UNION {{[entity |-> i, kind |-> k, value |-> scene[i].plain[k]] :
                k \in Kept(scene[i].plain)} : i \in DOMAIN scene},
        lifetimes |-> {[entity |-> i, value |-> scene[i].lifetime] :
                i \in {j \in DOMAIN scene : scene[j].lifetime # None}}]

(***************************************************************************)
(* The SCEN chunk: a list of sections, each with a type and a version of   *)
(* its own.                                                                *)
(***************************************************************************)
\* section_codecs.  "settings" stands for those of the physics and the environment,
\* "plain" for the lights, the bodies and the scripts: sections that refer to nothing
\* but entities.
SectionTypes == <<"settings", "models", "textures", "materials", "entities", "model_components",
                  "material_overrides", "instanced_models", "plain", "lifetimes">>
Version(type) == IF type = "instanced_models" THEN 2 ELSE 1
OldestReadable == 1

\* SceneDescription{}: a file without settings has the defaults.
Empty == [t \in Range(SectionTypes) |->
            IF t = "settings" THEN None
            ELSE IF t \in {"models", "textures", "materials", "entities"} THEN <<>> ELSE {}]

EncodeScene(description) ==
    [k \in DOMAIN SectionTypes |->
        [type |-> SectionTypes[k], version |-> Version(SectionTypes[k]),
         body |-> description[SectionTypes[k]]]]

\* Every parent is an entity, and no group of entities has all its parents within.
ParentsSound(entities) ==
    /\ \A e \in Range(entities) : e.parent \in DOMAIN entities \cup {0}
    /\ \A group \in SUBSET DOMAIN entities \ {{}} : \E i \in group : entities[i].parent \notin group

\* A number is finite and, where it has to be, not negative or within its limits.
Sane(value) == value # Bad

\* An entity has at most one component of a kind.
EntitiesUnique(components) == \A a, b \in components : a.entity = b.entity => a = b

\* Every index is in range, and nobody has a component twice.
ReferencesSound(d) ==
    LET entity == DOMAIN d.entities
        material == DOMAIN d.materials \cup {0}
    IN /\ ParentsSound(d.entities)
       /\ \A m \in Range(d.materials) : m.texture \in DOMAIN d.textures \cup {0}
       /\ \A c \in d.model_components : c.entity \in entity /\ c.model \in DOMAIN d.models
       /\ \A c \in d.material_overrides :
            /\ c.entity \in entity /\ c.material \in material
            /\ \A s \in c.slots : s.material \in material \ {0}
       /\ \A c \in d.instanced_models :
            c.entity \in entity /\ c.model \in DOMAIN d.models /\ c.material \in material
       /\ \A c \in d.plain \cup d.lifetimes : c.entity \in entity
       /\ EntitiesUnique(d.model_components) /\ EntitiesUnique(d.material_overrides)
       /\ EntitiesUnique(d.instanced_models) /\ EntitiesUnique(d.lifetimes)
       /\ \A k \in {c.kind : c \in d.plain} : EntitiesUnique({c \in d.plain : c.kind = k})

\* environment_problem() and the other value checks.
ValuesSane(d) ==
    /\ Sane(d.settings)
    /\ \A e \in Range(d.entities) : Sane(e.place)
    /\ \A m \in Range(d.materials) : Sane(m.look)
    /\ \A c \in d.plain \cup d.lifetimes : Sane(c.value)

ValidScene(d) == ReferencesSound(d) /\ ValuesSane(d)

\* What the readers refuse besides a list that does not fit into its section, which
\* is then without a body: a texture role, an alpha mode or sampler, an instance
\* encoding, a source of the environment, and a body shape that no enumeration has
\* or that is not saved.
ListsFit(section) == "body" \in DOMAIN section
TexturesReadable(textures) == Odd \notin Range(textures)
MaterialsReadable(materials) == \A m \in Range(materials) : m.look # Odd
InstancesReadable(instanced) == \A c \in instanced : c.material # Odd
BodiesReadable(plain) == \A c \in plain : c.kind = "rigid_body" => c.value \notin {Odd, Terrain}
EnvironmentReadable(settings) == settings # Odd

Readable(section) ==
    /\ ListsFit(section)
    /\ CASE section.type = "textures" -> TexturesReadable(section.body)
         [] section.type = "materials" -> MaterialsReadable(section.body)
         [] section.type = "instanced_models" -> InstancesReadable(section.body)
         [] section.type = "plain" -> BodiesReadable(section.body)
         [] section.type = "settings" -> EnvironmentReadable(section.body)
         [] OTHER -> TRUE

\* decode_scene(): a section of a type or version from a newer engine is skipped,
\* the first one too old or damaged ends the read, and what is left must be valid.
Known(section) == section.type \in Range(SectionTypes) /\ section.version <= Version(section.type)
TooOld(section) == section.version < OldestReadable

Decoded(payload) ==
    [type \in Range(SectionTypes) |->
        LET of == {k \in DOMAIN payload : payload[k].type = type /\ Known(payload[k])}
        IN IF of = {} THEN Empty[type] ELSE payload[Max(of)].body]

DecodeError(payload, scene) ==
    LET refused == {k \in DOMAIN payload : Known(payload[k]) /\ (TooOld(payload[k]) \/ ~Readable(payload[k]))}
    IN IF refused # {} THEN IF TooOld(payload[Min(refused)]) THEN "unsupported_version" ELSE "malformed_payload"
       ELSE IF ValidScene(scene) THEN None ELSE "malformed_payload"

(***************************************************************************)
(* Fingerprint: every entity as a scene of its own, with copies of what it *)
(* refers to, counted and not ordered, and the settings.                   *)
(***************************************************************************)
Single(d, i) ==
    LET alone(e) == [name |-> e.name, place |-> e.place, streamed |-> e.streamed]
        texture(t) == IF t = 0 THEN None ELSE d.textures[t]
        material(m) == IF m = 0 THEN <<>>
                       ELSE <<d.materials[m].name, d.materials[m].look, texture(d.materials[m].texture)>>
        of(cs) == {c \in cs : c.entity = i}
        e == d.entities[i]
    IN <<alone(e),
         IF e.parent = 0 THEN <<>> ELSE <<alone(d.entities[e.parent])>>,
         {d.models[c.model] : c \in of(d.model_components)},
         {<<material(c.material), {<<s.slot, material(s.material)>> : s \in c.slots}>> :
            c \in of(d.material_overrides)},
         {<<d.models[c.model], material(c.material)>> : c \in of(d.instanced_models)},
         {<<c.kind, c.value>> : c \in of(d.plain)},
         {c.value : c \in of(d.lifetimes)}>>

SceneFingerprint(d) ==
    <<d.settings,
      {<<s, Cardinality({i \in DOMAIN d.entities : Single(d, i) = s})>> :
          s \in {Single(d, i) : i \in DOMAIN d.entities}}>>

(***************************************************************************)
(* What a save embeds.  A job is a texture with the file to cook it from,  *)
(* or NoSource when it can only be copied; the first job of a texture is   *)
(* the one that counts.  imports[m] are the textures of the model file m,  *)
(* pack the chunks of the pack the scene came from.                        *)
(***************************************************************************)
FirstJobs(queued) ==
    FoldLeft(LAMBDA jobs, job : IF \E j \in jobs : j.id = job.id THEN jobs ELSE jobs \cup {job},
             {}, queued)

\* A model that a pack has is copied as it is, any other is parsed if it is there.
CopiedModels(description, pack) == {m \in Range(description.models) : ~Prefix(m)} \cap pack
ParsedModels(description, pack, sources) ==
    ({m \in Range(description.models) : ~Prefix(m)} \ CopiedModels(description, pack)) \cap sources

\* The textures of copied models can only be copied, those of parsed models and of
\* materials can be cooked; what a pack has already is no job.
TextureJobs(description, pack, sources, imports) ==
    LET jobs(set, known) == SetToSeq({[id |-> t, source |-> IF known THEN t ELSE NoSource] : t \in set})
    IN FirstJobs(SelectSeq(
            jobs(UNION {imports[m] : m \in CopiedModels(description, pack)}, FALSE)
                \o jobs(UNION {imports[m] : m \in ParsedModels(description, pack, sources)}, TRUE)
                \o jobs(Range(description.textures), TRUE),
            LAMBDA job : job.id \notin pack))

CookAssets(description, pack, sources, imports) ==
    LET models == CopiedModels(description, pack) \cup ParsedModels(description, pack, sources)
        needed == UNION {imports[m] : m \in models} \cup Range(description.textures)
    IN models \cup (needed \cap pack)
         \cup {job.id : job \in {j \in TextureJobs(description, pack, sources, imports) : j.source \in sources}}

(***************************************************************************)
(* The container.  A writer gathers chunks, the file is written to a       *)
(* temporary, its header last; a reader checks the header, the size and    *)
(* the table before it trusts an entry, and a chunk's checksum before it   *)
(* hands it out.                                                           *)
(***************************************************************************)
\* Chunk tables are sorted by type and id, and of two chunks with one key the
\* first is kept.
Container(kind, payload, assets) ==
    [kind |-> kind, header |-> TRUE, scene |-> payload, assets |-> assets]

\* A file of which only a part was written has no header yet.
HalfWritten(file) == [file EXCEPT !.header = FALSE]

\* LbfReader::open(): the table of contents, or why there is none.
OpenError(file) ==
    IF file = None THEN "file_not_found"
    ELSE IF ~file.header THEN "not_an_lbf_file"
    ELSE None

\* read_scene_file(): why the scene of a file cannot be used.
ReadError(file, scene) ==
    IF OpenError(file) # None THEN OpenError(file)
    ELSE IF file.kind # "scene" THEN "wrong_file_kind"
    ELSE IF "scene" \notin DOMAIN file THEN "chunk_not_found"
    ELSE DecodeError(file.scene, scene)

\* A reader holds the table of the file it opened and opens the path again for
\* every chunk: what it finds there must have the checksum its table gives, so a
\* file with other contents is as good as none.
ReadsChunk(table, file, asset) == asset \in table.assets /\ file = table
=============================================================================
