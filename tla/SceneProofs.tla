---------------------------- MODULE SceneProofs ----------------------------
(***************************************************************************)
(* Every scene file can be read back: whatever is edited, opened and       *)
(* saved, whatever fails and whenever the program dies (FilesAreWhole), and *)
(* no load frees a material that is shown, or keeps one that nothing holds *)
(* (MaterialsAreAccountedFor).                                             *)
(* And whatever is done in the editor, what its entities show is referred  *)
(* to, once for each use (RefsAreHeld), and stopping leaves nothing of     *)
(* what was played (PlayLeavesNothing).                                    *)
(***************************************************************************)
EXTENDS SceneFiles, Editor, FiniteSetTheorems, TLAPS

(* No list of overrides is without end.                                       *)
FewOverrides(d) ==
  IsFiniteSet(d.material_overrides) /\ \A c \in d.material_overrides : IsFiniteSet(c.slots)

(* A description whose references are sound and that the readers of its      *)
(* sections take.  Its numbers may be any.                                   *)
WholeScene(d) ==
  /\ ReferencesSound(d)
  /\ d.models \in Seq(Range(d.models)) /\ d.textures \in Seq(Range(d.textures))
  /\ d.materials \in Seq(Range(d.materials)) /\ d.entities \in Seq(Range(d.entities))
  /\ TexturesReadable(d.textures) /\ MaterialsReadable(d.materials)
  /\ InstancesReadable(d.instanced_models)
  /\ BodiesReadable(d.plain) /\ EnvironmentReadable(d.settings)
  /\ FewOverrides(d)

WholeFile(file) ==
  /\ file = Container("scene", EncodeScene(Decoded(file.scene)), file.assets)
  /\ WholeScene(Decoded(file.scene))

TablesKept ==
  /\ SoundMaterials(mats) /\ Len(GameMaterials) <= Len(mats)
  /\ models \in Seq(Range(models)) /\ 1 <= Len(models)

SceneKept == SoundScene(scene, Len(models), Len(mats))

SettingsKept == settings # Odd

EditorKept ==
  /\ editor = [path |-> editor.path, pack |-> editor.pack, next |-> editor.next,
               pending |-> editor.pending, naming |-> editor.naming, clean |-> editor.clean]
  /\ {editor.next, editor.pending} \subseteq Files \cup {None}
  /\ count = [edits |-> count.edits, opens |-> count.opens, saves |-> count.saves]
  /\ count.edits \in Nat

(* What a save captured, and what it is about to put in place.               *)
SaveKept ==
  save # None =>
    /\ save = [path |-> save.path, stage |-> save.stage, scene |-> save.scene,
               clean |-> save.clean, pack |-> save.pack, file |-> save.file,
               plain |-> save.plain, from |-> save.from]
    /\ WholeScene(save.scene)
    /\ save.stage = "writing" => WholeFile(save.file)

FewSlots(deferred) == IsFiniteSet(deferred) /\ \A x \in deferred : IsFiniteSet(x.slots)

(* The table a load goes by, what it decoded, and the slots it holds back.   *)
LoadKept ==
  load # NoLoad =>
    /\ load = [path |-> load.path, stage |-> load.stage, table |-> load.table,
               read |-> load.read, streaming |-> load.streaming, deferred |-> load.deferred]
    /\ load.path \in Files
    /\ load.stage = "reading" => WholeFile(load.table)
    /\ load.stage = "read" /\ load.read.error = None => WholeScene(load.read.scene)
    /\ \A x \in load.deferred : \A s \in x.slots : s.mat \in 0 .. Len(mats)
    /\ FewSlots(load.deferred)

DiskKept ==
  /\ DOMAIN disk = Files
  /\ \A f \in Files : disk[f] # None => WholeFile(disk[f])

FilesInv == TablesKept /\ SceneKept /\ EditorKept /\ SaveKept /\ LoadKept /\ DiskKept

-----------------------------------------------------------------------------
(* Lists and files.                                                          *)

LEMMA ListOf ==
  ASSUME NEW S, IsFiniteSet(S)
  PROVE  /\ SetToSeq(S) \in Seq(S) /\ Range(SetToSeq(S)) = S
         /\ \A i, j \in DOMAIN SetToSeq(S) : SetToSeq(S)[i] = SetToSeq(S)[j] => i = j
<1>1. PICK n \in Nat : n = Cardinality(S)
  BY FS_CardinalityType
<1>2. \E f \in [1 .. n -> S] : IsInjective(f)
  BY <1>1, FS_CardinalityType DEF ExistsBijection, Bijection, Injection
<1>3. PICK f \in [1 .. n -> S] : f = SetToSeq(S) /\ IsInjective(f)
  BY <1>1, <1>2 DEF SetToSeq
<1>4. f \in Surjection(1 .. n, S)
  <2>1. Cardinality(1 .. n) = n /\ f \in Injection(1 .. n, S)
    BY <1>3, FS_Interval DEF Injection
  <2>. QED
    BY <1>1, <2>1, FS_Injection
<1>5. Range(f) = S
  BY <1>4 DEF Surjection, Range
<1>. QED
  BY <1>3, <1>5 DEF IsInjective

LEMMA IndexIn ==
  ASSUME NEW s, NEW x
  PROVE  /\ x \in Range(s) => IndexOf(s, x) \in DOMAIN s /\ s[IndexOf(s, x)] = x
         /\ x \notin Range(s) => IndexOf(s, x) = 0
BY DEF IndexOf, Range

LEMMA TypesDiffer ==
  /\ DOMAIN SectionTypes = 1 .. 10
  /\ \A k, l \in 1 .. 10 : SectionTypes[k] = SectionTypes[l] => k = l
BY DEF SectionTypes

LEMMA VersionsRead ==
  ASSUME NEW type
  PROVE  Version(type) \in Nat /\ OldestReadable <= Version(type)
BY DEF Version, OldestReadable

LEMMA DecodedIs ==
  ASSUME NEW d
  PROVE  /\ Decoded(EncodeScene(d)).settings = d.settings
         /\ Decoded(EncodeScene(d)).models = d.models
         /\ Decoded(EncodeScene(d)).textures = d.textures
         /\ Decoded(EncodeScene(d)).materials = d.materials
         /\ Decoded(EncodeScene(d)).entities = d.entities
         /\ Decoded(EncodeScene(d)).model_components = d.model_components
         /\ Decoded(EncodeScene(d)).material_overrides = d.material_overrides
         /\ Decoded(EncodeScene(d)).instanced_models = d.instanced_models
         /\ Decoded(EncodeScene(d)).plain = d.plain
         /\ Decoded(EncodeScene(d)).lifetimes = d.lifetimes
<1> DEFINE payload == EncodeScene(d)
<1>1. /\ DOMAIN payload = 1 .. 10
      /\ \A k \in 1 .. 10 : payload[k] = [type |-> SectionTypes[k], version |-> Version(SectionTypes[k]),
                                        body |-> d[SectionTypes[k]]]
  BY TypesDiffer DEF EncodeScene
<1>2. ASSUME NEW k \in 1 .. 10 PROVE Decoded(payload)[SectionTypes[k]] = d[SectionTypes[k]]
  <2> DEFINE these == { l \in DOMAIN payload : payload[l].type = SectionTypes[k] /\ Known(payload[l]) }
  <2> HIDE DEF payload
  <2>1. SectionTypes[k] \in Range(SectionTypes)
    BY TypesDiffer DEF Range
  <2>2. these = {k}
    <3>1. Known(payload[k])
      BY <1>1, <2>1, VersionsRead DEF Known
    <3>. QED
      BY <1>1, <3>1, TypesDiffer
  <2>3. Max(these) = k
    BY <2>2 DEF Max
  <2>4. Decoded(payload)[SectionTypes[k]] = payload[Max(these)].body
    BY <2>1, <2>2 DEF Decoded
  <2>. QED
    BY <1>1, <2>3, <2>4
<1> HIDE DEF payload
<1>3. /\ Decoded(payload)["settings"] = d["settings"]
      /\ Decoded(payload)["models"] = d["models"]
      /\ Decoded(payload)["textures"] = d["textures"]
      /\ Decoded(payload)["materials"] = d["materials"]
      /\ Decoded(payload)["entities"] = d["entities"]
      /\ Decoded(payload)["model_components"] = d["model_components"]
      /\ Decoded(payload)["material_overrides"] = d["material_overrides"]
      /\ Decoded(payload)["instanced_models"] = d["instanced_models"]
      /\ Decoded(payload)["plain"] = d["plain"]
      /\ Decoded(payload)["lifetimes"] = d["lifetimes"]
  <2>1. /\ SectionTypes[1] = "settings" /\ SectionTypes[2] = "models" /\ SectionTypes[3] = "textures"
        /\ SectionTypes[4] = "materials" /\ SectionTypes[5] = "entities"
        /\ SectionTypes[6] = "model_components" /\ SectionTypes[7] = "material_overrides"
        /\ SectionTypes[8] = "instanced_models" /\ SectionTypes[9] = "plain"
        /\ SectionTypes[10] = "lifetimes"
    BY DEF SectionTypes
  <2>. QED
    BY <1>2, <2>1
<1>. QED
  BY <1>3 DEF payload

LEMMA EncodedAgain ==
  ASSUME NEW d
  PROVE  EncodeScene(Decoded(EncodeScene(d))) = EncodeScene(d)
<1> DEFINE e == Decoded(EncodeScene(d))
<1> SUFFICES ASSUME NEW k \in DOMAIN SectionTypes PROVE e[SectionTypes[k]] = d[SectionTypes[k]]
  BY DEF EncodeScene
<1>. QED
  BY DecodedIs, TypesDiffer DEF SectionTypes

LEMMA DecodedWhole ==
  ASSUME NEW d, WholeScene(d)
  PROVE  WholeScene(Decoded(EncodeScene(d)))
<1>1. PICK e : e = Decoded(EncodeScene(d))
  OBVIOUS
<1>2. /\ e.settings = d.settings
      /\ e.models = d.models /\ e.textures = d.textures /\ e.materials = d.materials
      /\ e.entities = d.entities /\ e.model_components = d.model_components
      /\ e.material_overrides = d.material_overrides
      /\ e.instanced_models = d.instanced_models /\ e.plain = d.plain /\ e.lifetimes = d.lifetimes
  BY <1>1, DecodedIs
<1>3. ReferencesSound(e) = ReferencesSound(d)
  BY <1>2 DEF ReferencesSound
<1>4. FewOverrides(e) = FewOverrides(d)
  BY <1>2 DEF FewOverrides
<1>. QED
  BY <1>1, <1>2, <1>3, <1>4 DEF WholeScene

LEMMA WrittenWhole ==
  ASSUME NEW d, NEW assets, WholeScene(d)
  PROVE  WholeFile(Container("scene", EncodeScene(d), assets))
BY EncodedAgain, DecodedWhole DEF WholeFile, Container

(* A whole file opens, no section is refused, and only its numbers can make  *)
(* the scene one that validation refuses.                                    *)
LEMMA WholeIsRead ==
  ASSUME NEW file, file # None, WholeFile(file), NEW d, d = Decoded(file.scene)
  PROVE  /\ ReferencesSound(d)
         /\ ReadError(file, d) = IF ValuesSane(d) THEN None ELSE "malformed_payload"
<1>2. WholeScene(d) /\ file.scene = EncodeScene(d)
  BY DEF WholeFile, Container
<1>3. OpenError(file) = None /\ file.kind = "scene" /\ "scene" \in DOMAIN file
  <2>1. PICK payload, assets : file = [kind |-> "scene", header |-> TRUE, scene |-> payload, assets |-> assets]
    BY DEF WholeFile, Container
  <2>2. file.header = TRUE /\ file.kind = "scene"
    BY <2>1
  <2>3. DOMAIN file = {"kind", "header", "scene", "assets"}
    BY <2>1
  <2>. QED
    BY <2>2, <2>3 DEF OpenError
<1>4. ASSUME NEW k \in DOMAIN file.scene PROVE ~ TooOld(file.scene[k]) /\ Readable(file.scene[k])
  <2>1. k \in 1 .. 10 /\ file.scene[k] = [type |-> SectionTypes[k], version |-> Version(SectionTypes[k]),
                                        body |-> d[SectionTypes[k]]]
    BY <1>2, <1>4, TypesDiffer DEF EncodeScene
  <2>2. ~ TooOld(file.scene[k])
    BY <2>1, VersionsRead DEF TooOld, OldestReadable
  <2>3. ListsFit(file.scene[k])
    BY <2>1 DEF ListsFit
  <2>4. file.scene[k].type = SectionTypes[k] /\ file.scene[k].body = d[SectionTypes[k]]
    BY <2>1
  <2>5. /\ TexturesReadable(d["textures"]) /\ MaterialsReadable(d["materials"])
        /\ InstancesReadable(d["instanced_models"]) /\ BodiesReadable(d["plain"])
        /\ EnvironmentReadable(d["settings"])
    BY <1>2 DEF WholeScene
  <2>6. Readable(file.scene[k])
    <3>1. CASE SectionTypes[k] = "textures"
      BY <2>3, <2>4, <2>5, <3>1 DEF Readable
    <3>2. CASE SectionTypes[k] = "materials"
      BY <2>3, <2>4, <2>5, <3>2 DEF Readable
    <3>3. CASE SectionTypes[k] = "instanced_models"
      BY <2>3, <2>4, <2>5, <3>3 DEF Readable
    <3>4. CASE SectionTypes[k] = "plain"
      BY <2>3, <2>4, <2>5, <3>4 DEF Readable
    <3>5. CASE SectionTypes[k] = "settings"
      BY <2>3, <2>4, <2>5, <3>5 DEF Readable
    <3>6. CASE SectionTypes[k] \notin {"textures", "materials", "instanced_models", "plain", "settings"}
      BY <2>3, <2>4, <3>6 DEF Readable
    <3>. QED
      BY <3>1, <3>2, <3>3, <3>4, <3>5, <3>6
  <2>. QED
    BY <2>2, <2>6
<1>5. ReferencesSound(d)
  BY <1>2 DEF WholeScene
<1>6. DecodeError(file.scene, d) = IF ValuesSane(d) THEN None ELSE "malformed_payload"
  BY <1>4, <1>5 DEF DecodeError, ValidScene
<1>. QED
  BY <1>3, <1>5, <1>6 DEF ReadError

-----------------------------------------------------------------------------
(* What is captured is valid and readable.                                   *)

LEMMA SavedIsThere ==
  ASSUME NEW s, NEW ms, NEW mt, ms \in Seq(Range(ms)), SoundMaterials(mt),
         SoundScene(s, Len(ms), Len(mt))
  PROVE  /\ SavedModels(s, ms) \subseteq 1 .. Len(ms) /\ IsFiniteSet(SavedModels(s, ms))
         /\ SavedMaterials(s, ms, mt) \subseteq 1 .. Len(mt)
         /\ IsFiniteSet(SavedMaterials(s, ms, mt))
<1>1. Len(ms) \in Nat /\ Len(mt) \in Nat
  BY DEF SoundMaterials
<1>2. SavedModels(s, ms) \subseteq 1 .. Len(ms)
  <2> SUFFICES ASSUME NEW h \in SavedModels(s, ms) PROVE h \in 1 .. Len(ms)
    OBVIOUS
  <2>1. h # 0
    BY DEF SavedModels, ModelReference
  <2>2. PICK i \in DOMAIN s : h \in {s[i].model, s[i].field}
    BY DEF SavedModels
  <2>3. h \in 0 .. Len(ms)
    BY <2>2 DEF SoundScene, SoundEntity
  <2>. QED
    BY <1>1, <2>1, <2>3
<1>3. SavedMaterials(s, ms, mt) \subseteq 1 .. Len(mt)
  <2> SUFFICES ASSUME NEW m \in SavedMaterials(s, ms, mt) PROVE m \in 1 .. Len(mt)
    OBVIOUS
  <2>1. m # 0
    BY DEF SavedMaterials, Saved
  <2>2. PICK i \in DOMAIN s : m \in EntityMaterials(ms, s[i])
    BY DEF SavedMaterials
  <2>3. m \in {s[i].over, s[i].inst} \cup {x.mat : x \in s[i].slots}
    BY <2>2 DEF EntityMaterials
  <2>4. m \in 0 .. Len(mt)
    BY <2>3 DEF SoundScene, SoundEntity
  <2>. QED
    BY <1>1, <2>1, <2>4
<1>4. IsFiniteSet(1 .. Len(ms)) /\ IsFiniteSet(1 .. Len(mt))
  BY <1>1, FS_Interval
<1>. QED
  BY <1>2, <1>3, <1>4, FS_Subset

LEMMA TexturesListed ==
  ASSUME NEW mt, SoundMaterials(mt), NEW S \in SUBSET (1 .. Len(mt)), IsFiniteSet(S)
  PROVE  /\ TextureTable(mt, S) \in Seq(Range(TextureTable(mt, S)))
         /\ TexturesReadable(TextureTable(mt, S))
<1> DEFINE T == {mt[m].texture : m \in S} \ {NoSource}
           f == [m \in S |-> mt[m].texture]
<1>1. IsFiniteSet({mt[m].texture : m \in S})
  <2>1. f \in Surjection(S, {mt[m].texture : m \in S})
    BY DEF Surjection
  <2>. QED
    BY <2>1, FS_Surjection
<1>2. IsFiniteSet(T)
  BY <1>1, FS_Subset
<1>3. PICK t : t = TextureTable(mt, S) /\ t \in Seq(T) /\ Range(t) = T
  BY <1>2, ListOf DEF TextureTable
<1>4. Odd \notin T
  BY DEF SoundMaterials, SoundMaterial
<1>. QED
  BY <1>3, <1>4 DEF TexturesReadable

LEMMA ListIs ==
  ASSUME NEW n \in Nat, NEW f, f = [i \in 1 .. n |-> f[i]]
  PROVE  f \in Seq(Range(f)) /\ Len(f) = n
<1>1. f \in [1 .. n -> Range(f)]
  BY DEF Range
<1>. QED
  BY <1>1

LEMMA ImageFinite ==
  ASSUME NEW S, IsFiniteSet(S), NEW f, DOMAIN f = S
  PROVE  IsFiniteSet({f[x] : x \in S})
<1>1. PICK g : g = [x \in S |-> f[x]]
  OBVIOUS
<1>2. g \in Surjection(S, {f[x] : x \in S})
  BY <1>1 DEF Surjection
<1>. QED
  BY <1>2, FS_Surjection

LEMMA CapturedWhole ==
  ASSUME NEW s, NEW ms, NEW mt, ms \in Seq(Range(ms)), SoundMaterials(mt),
         SoundScene(s, Len(ms), Len(mt)), NEW set, set # Odd
  PROVE  WholeScene(CaptureScene(s, ms, mt, set))
<1> DEFINE H == SavedModels(s, ms)
           U == SavedMaterials(s, ms, mt)
<1>1. /\ H \subseteq 1 .. Len(ms) /\ IsFiniteSet(H)
      /\ U \subseteq 1 .. Len(mt) /\ IsFiniteSet(U)
  BY SavedIsThere
<1>2. PICK handles : handles = SetToSeq(H) /\ handles \in Seq(H) /\ Range(handles) = H
  BY <1>1, ListOf
<1>3. PICK used : used = SetToSeq(U) /\ used \in Seq(U) /\ Range(used) = U
  BY <1>1, ListOf
<1>4. PICK textures : /\ textures = TextureTable(mt, U)
                      /\ textures \in Seq(Range(textures)) /\ TexturesReadable(textures)
  BY <1>1, TexturesListed
<1>5. PICK d : d = CaptureScene(s, ms, mt, set)
  OBVIOUS
<1>6. /\ d.models = [i \in DOMAIN handles |-> ms[handles[i]].source]
      /\ d.textures = textures
      /\ d.materials = [i \in DOMAIN used |-> SavedMaterial(mt[used[i]], textures)]
      /\ d.entities = [i \in DOMAIN s |-> [name |-> s[i].name, place |-> s[i].place,
                                          parent |-> s[i].parent, streamed |-> s[i].streamed]]
  BY <1>2, <1>3, <1>4, <1>5 DEF CaptureScene
<1>7. d.model_components =
        {[entity |-> i, model |-> IndexOf(handles, s[i].model)] :
           i \in {j \in DOMAIN s : s[j].model \in Range(handles)}}
  BY <1>2, <1>5 DEF CaptureScene
<1>8. d.material_overrides =
        {[entity |-> i, material |-> IndexOf(used, s[i].over),
          slots |-> {[slot |-> x.slot, material |-> IndexOf(used, x.mat)] :
                       x \in KeptSlots(ms, mt, s[i])}] :
           i \in {j \in DOMAIN s : Saved(mt, s[j].over) \/ KeptSlots(ms, mt, s[j]) # {}}}
  BY <1>3, <1>5 DEF CaptureScene
<1>9. d.instanced_models =
        {[entity |-> i, model |-> IndexOf(handles, s[i].field),
          material |-> IndexOf(used, s[i].inst)] :
           i \in {j \in DOMAIN s : s[j].field \in Range(handles)}}
  BY <1>2, <1>3, <1>5 DEF CaptureScene
<1>10. /\ d.plain = UNION {{[entity |-> i, kind |-> k, value |-> s[i].plain[k]] :
                              k \in Kept(s[i].plain)} : i \in DOMAIN s}
       /\ d.lifetimes = {[entity |-> i, value |-> s[i].lifetime] :
                           i \in {j \in DOMAIN s : s[j].lifetime # None}}
       /\ d.settings = set
  BY <1>5 DEF CaptureScene
<1> HIDE DEF H, U
<1>11. /\ DOMAIN d.models = DOMAIN handles /\ DOMAIN d.materials = DOMAIN used
       /\ DOMAIN d.entities = DOMAIN s /\ DOMAIN d.textures = DOMAIN textures
  BY <1>6
<1>12. /\ d.models \in Seq(Range(d.models)) /\ d.textures \in Seq(Range(d.textures))
       /\ d.materials \in Seq(Range(d.materials)) /\ d.entities \in Seq(Range(d.entities))
  <2>1. s \in Seq(Range(s))
    BY DEF SoundScene
  <2>2. /\ DOMAIN handles = 1 .. Len(handles) /\ Len(handles) \in Nat
        /\ DOMAIN used = 1 .. Len(used) /\ Len(used) \in Nat
        /\ DOMAIN s = 1 .. Len(s) /\ Len(s) \in Nat
    BY <1>2, <1>3, <2>1
  <2>3. d.models \in Seq(Range(d.models))
    BY <1>6, <2>2, ListIs
  <2>4. d.materials \in Seq(Range(d.materials))
    BY <1>6, <2>2, ListIs
  <2>5. d.entities \in Seq(Range(d.entities))
    BY <1>6, <2>2, ListIs
  <2>. QED
    BY <1>4, <1>6, <2>3, <2>4, <2>5
<1>13. \A x : IndexOf(handles, x) \in DOMAIN handles \cup {0} /\ IndexOf(used, x) \in DOMAIN used \cup {0}
  BY IndexIn
<1>14. \A x \in Range(handles) : IndexOf(handles, x) \in DOMAIN handles
  BY IndexIn
<1>15. ParentsSound(d.entities)
  <2>1. ParentsSound(s)
    BY DEF SoundScene
  <2>2. \A i \in DOMAIN s : d.entities[i].parent = s[i].parent
    BY <1>6
  <2>. QED
    BY <1>11, <2>1, <2>2 DEF ParentsSound, Range
<1>16. \A m \in Range(d.materials) :
         m.texture \in DOMAIN d.textures \cup {0} /\ m.look # Odd
  <2> SUFFICES ASSUME NEW i \in DOMAIN used
               PROVE  /\ d.materials[i].texture \in DOMAIN d.textures \cup {0}
                      /\ d.materials[i].look # Odd
    BY <1>11 DEF Range
  <2>1. used[i] \in DOMAIN mt
    BY <1>1, <1>3 DEF SoundMaterials, H, U
  <2>2. SoundMaterial(mt[used[i]])
    BY <2>1 DEF SoundMaterials
  <2>3. d.materials[i].look = mt[used[i]].look
    BY <1>6 DEF SavedMaterial
  <2>4. d.materials[i].texture = IndexOf(textures, mt[used[i]].texture)
    BY <1>6 DEF SavedMaterial
  <2>. QED
    BY <1>11, <2>2, <2>3, <2>4, IndexIn DEF SoundMaterial
<1>17. \A c \in d.model_components : c.entity \in DOMAIN d.entities /\ c.model \in DOMAIN d.models
  BY <1>7, <1>11, <1>14
<1>18. ASSUME NEW c \in d.material_overrides
       PROVE  /\ c.entity \in DOMAIN d.entities /\ c.material \in DOMAIN d.materials \cup {0}
              /\ \A x \in c.slots : x.material \in DOMAIN d.materials
  <2>1. PICK i \in DOMAIN s :
          c = [entity |-> i, material |-> IndexOf(used, s[i].over),
               slots |-> {[slot |-> x.slot, material |-> IndexOf(used, x.mat)] :
                            x \in KeptSlots(ms, mt, s[i])}]
    BY <1>8
  <2>2. ASSUME NEW x \in KeptSlots(ms, mt, s[i]) PROVE x.mat \in Range(used)
    <3>1. x \in s[i].slots /\ Saved(mt, x.mat)
      BY DEF KeptSlots, SlotMatches
    <3>2. x.mat \in EntityMaterials(ms, s[i])
      BY <3>1 DEF EntityMaterials
    <3>. QED
      BY <1>3, <3>1, <3>2 DEF U, SavedMaterials
  <2>3. \A x \in c.slots : x.material \in DOMAIN used
    BY <2>1, <2>2, IndexIn
  <2>. QED
    BY <1>11, <1>13, <2>1, <2>3
<1>19. \A c \in d.instanced_models :
         /\ c.entity \in DOMAIN d.entities /\ c.model \in DOMAIN d.models
         /\ c.material \in DOMAIN d.materials \cup {0}
  BY <1>9, <1>11, <1>13, <1>14
<1>20. ASSUME NEW c \in d.plain
       PROVE  \E i \in DOMAIN s : \E k \in Kept(s[i].plain) :
                c = [entity |-> i, kind |-> k, value |-> s[i].plain[k]]
  BY <1>10
<1>21. \A c \in d.plain : /\ c.entity \in DOMAIN d.entities
                          /\ c.kind = "rigid_body" => c.value \notin {Odd, Terrain}
  <2> SUFFICES ASSUME NEW c \in d.plain
               PROVE  /\ c.entity \in DOMAIN d.entities
                      /\ c.kind = "rigid_body" => c.value \notin {Odd, Terrain}
    OBVIOUS
  <2>1. PICK i, k : /\ i \in DOMAIN s /\ k \in Kept(s[i].plain)
                   /\ c = [entity |-> i, kind |-> k, value |-> s[i].plain[k]]
    BY <1>20
  <2>2. c.entity = i /\ c.kind = k /\ c.value = s[i].plain[k]
    BY <2>1
  <2>3. k \in DOMAIN s[i].plain /\ ~ (k = "rigid_body" /\ s[i].plain[k] = Terrain)
    BY <2>1 DEF Kept
  <2>4. i \in DOMAIN s /\ SoundEntity(s[i], Len(ms), Len(mt))
    BY <2>1 DEF SoundScene
  <2>. QED
    BY <1>11, <2>2, <2>3, <2>4 DEF SoundEntity
<1>22. \A c \in d.lifetimes : c.entity \in DOMAIN d.entities
  BY <1>10, <1>11
<1>23. /\ EntitiesUnique(d.model_components) /\ EntitiesUnique(d.material_overrides)
       /\ EntitiesUnique(d.instanced_models) /\ EntitiesUnique(d.lifetimes)
  <2>1. EntitiesUnique(d.model_components)
    BY <1>7 DEF EntitiesUnique
  <2>2. EntitiesUnique(d.material_overrides)
    <3> SUFFICES ASSUME NEW a \in d.material_overrides, NEW b \in d.material_overrides,
                        a.entity = b.entity
                 PROVE  a = b
      BY DEF EntitiesUnique
    <3> DEFINE saved(i) == [entity |-> i, material |-> IndexOf(used, s[i].over),
                            slots |-> {[slot |-> x.slot, material |-> IndexOf(used, x.mat)] :
                                         x \in KeptSlots(ms, mt, s[i])}]
    <3>1. PICK i : a = saved(i)
      BY <1>8
    <3>2. PICK j : b = saved(j)
      BY <1>8
    <3>3. i = j
      BY <3>1, <3>2
    <3>. QED
      BY <3>1, <3>2, <3>3
  <2>3. EntitiesUnique(d.instanced_models)
    BY <1>9 DEF EntitiesUnique
  <2>4. EntitiesUnique(d.lifetimes)
    BY <1>10 DEF EntitiesUnique
  <2>. QED
    BY <2>1, <2>2, <2>3, <2>4
<1>24. \A k \in {c.kind : c \in d.plain} : EntitiesUnique({c \in d.plain : c.kind = k})
  <2> SUFFICES ASSUME NEW a \in d.plain, NEW b \in d.plain, a.kind = b.kind, a.entity = b.entity
               PROVE  a = b
    BY DEF EntitiesUnique
  <2>1. PICK i, k : a = [entity |-> i, kind |-> k, value |-> s[i].plain[k]]
    BY <1>20
  <2>2. PICK j, l : b = [entity |-> j, kind |-> l, value |-> s[j].plain[l]]
    BY <1>20
  <2>. QED
    BY <2>1, <2>2
<1>27. ReferencesSound(d)
  <2>1. \A m \in Range(d.materials) : m.texture \in DOMAIN d.textures \cup {0}
    BY <1>16
  <2>2. \A c \in d.material_overrides :
          /\ c.entity \in DOMAIN d.entities /\ c.material \in DOMAIN d.materials \cup {0}
          /\ \A x \in c.slots : x.material \in (DOMAIN d.materials \cup {0}) \ {0}
    <3>1. 0 \notin DOMAIN d.materials
      BY <1>3, <1>11
    <3>. QED
      BY <1>18, <3>1
  <2>3. \A c \in d.plain \cup d.lifetimes : c.entity \in DOMAIN d.entities
    BY <1>21, <1>22
  <2>. QED
    BY <1>15, <1>17, <1>19, <1>23, <1>24, <2>1, <2>2, <2>3 DEF ReferencesSound
<1>28. InstancesReadable(d.instanced_models)
  <2>1. DOMAIN d.materials \cup {0} \subseteq Int
    BY <1>3, <1>11
  <2>. QED
    BY <1>19, <2>1, SceneAssumption DEF InstancesReadable
<1>29. /\ TexturesReadable(d.textures) /\ MaterialsReadable(d.materials)
       /\ BodiesReadable(d.plain) /\ EnvironmentReadable(d.settings)
  BY <1>4, <1>6, <1>10, <1>16, <1>21 DEF MaterialsReadable, BodiesReadable, EnvironmentReadable
<1>30. FewOverrides(d)
  <2> DEFINE saved(i) == [entity |-> i, material |-> IndexOf(used, s[i].over),
                          slots |-> {[slot |-> x.slot, material |-> IndexOf(used, x.mat)] :
                                       x \in KeptSlots(ms, mt, s[i])}]
  <2>1. IsFiniteSet(d.material_overrides)
    <3>1. PICK I : /\ I = {j \in DOMAIN s : Saved(mt, s[j].over) \/ KeptSlots(ms, mt, s[j]) # {}}
                   /\ IsFiniteSet(I)
      <4>1. DOMAIN s = 1 .. Len(s) /\ Len(s) \in Nat
        BY DEF SoundScene
      <4>2. IsFiniteSet(DOMAIN s)
        BY <4>1, FS_Interval
      <4>. QED
        BY <4>2, FS_Subset
    <3>2. PICK f : f = [i \in I |-> saved(i)]
      OBVIOUS
    <3>3. d.material_overrides = {f[i] : i \in I} /\ DOMAIN f = I
      BY <1>8, <3>1, <3>2
    <3>4. IsFiniteSet(I)
      BY <3>1
    <3>. QED
      BY <3>3, <3>4, ImageFinite
  <2>2. ASSUME NEW c \in d.material_overrides PROVE IsFiniteSet(c.slots)
    <3>1. PICK i \in DOMAIN s : c = saved(i)
      BY <1>8
    <3>2. PICK K : K = KeptSlots(ms, mt, s[i]) /\ IsFiniteSet(K)
      <4>1. IsFiniteSet(s[i].slots)
        BY DEF SoundScene, SoundEntity
      <4>2. KeptSlots(ms, mt, s[i]) \in SUBSET s[i].slots
        BY DEF KeptSlots
      <4>. QED
        BY <4>1, <4>2, FS_Subset
    <3>3. PICK f : f = [x \in K |-> [slot |-> x.slot, material |-> IndexOf(used, x.mat)]]
      OBVIOUS
    <3>4. c.slots = {f[x] : x \in K} /\ DOMAIN f = K
      BY <3>1, <3>2, <3>3
    <3>5. IsFiniteSet(K)
      BY <3>2
    <3>. QED
      BY <3>4, <3>5, ImageFinite
  <2>. QED
    BY <2>1, <2>2 DEF FewOverrides
<1>. QED
  BY <1>5, <1>12, <1>27, <1>28, <1>29, <1>30 DEF WholeScene

-----------------------------------------------------------------------------
(* Tables and scenes as the operations leave them.                           *)

LEMMA Ranged ==
  ASSUME NEW X, NEW f \in Seq(X)
  PROVE  /\ f \in Seq(Range(f)) /\ DOMAIN f = 1 .. Len(f) /\ Len(f) \in Nat
         /\ \A i \in DOMAIN f : f[i] \in X
<1>1. DOMAIN f = 1 .. Len(f) /\ Len(f) \in Nat /\ f = [i \in 1 .. Len(f) |-> f[i]]
  OBVIOUS
<1>. QED
  BY <1>1, ListIs

LEMMA RefsOnly ==
  ASSUME NEW t, SoundMaterials(t), NEW by
  PROVE  /\ SoundMaterials(Retained(t, by)) /\ Len(Retained(t, by)) = Len(t)
         /\ SoundMaterials(Released(t, by)) /\ Len(Released(t, by)) = Len(t)
<1>1. Len(t) \in Nat /\ DOMAIN t = 1 .. Len(t)
  BY DEF SoundMaterials
<1>2. ASSUME NEW f, NEW m, SoundMaterial(f), \/ m = f
                                            \/ \E n : m = [f EXCEPT !.refs = n]
                                            \/ \E c : m = [f EXCEPT !.refs = c, !.name = None]
      PROVE  SoundMaterial(m)
  <2>1. PICK a, b, l, x : f = [name |-> a, refs |-> b, look |-> l, texture |-> x]
    BY <1>2 DEF SoundMaterial
  <2>2. l # Odd /\ x # Odd
    BY <1>2, <2>1 DEF SoundMaterial
  <2>3. CASE m = f
    BY <1>2, <2>3
  <2>4. ASSUME NEW n, m = [f EXCEPT !.refs = n] PROVE SoundMaterial(m)
    <3>1. m = [name |-> a, refs |-> n, look |-> l, texture |-> x]
      BY <2>1, <2>4
    <3>. QED
      BY <2>2, <3>1 DEF SoundMaterial
  <2>5. ASSUME NEW n, m = [f EXCEPT !.refs = n, !.name = None] PROVE SoundMaterial(m)
    <3>1. m = [name |-> None, refs |-> n, look |-> l, texture |-> x]
      BY <2>1, <2>5
    <3>. QED
      BY <2>2, <3>1 DEF SoundMaterial
  <2>. QED
    BY <1>2, <2>3, <2>4, <2>5
<1>3. \A r : /\ r = [i \in 1 .. Len(t) |-> r[i]]
             /\ \A i \in 1 .. Len(t) : SoundMaterial(r[i])
             => SoundMaterials(r) /\ Len(r) = Len(t)
  <2> SUFFICES ASSUME NEW r, r = [i \in 1 .. Len(t) |-> r[i]],
                      \A i \in 1 .. Len(t) : SoundMaterial(r[i])
               PROVE  SoundMaterials(r) /\ Len(r) = Len(t)
    OBVIOUS
  <2>1. r \in Seq(Range(r)) /\ Len(r) = Len(t)
    BY <1>1, ListIs
  <2>. QED
    BY <1>1, <2>1 DEF SoundMaterials
<1>4. \A i \in 1 .. Len(t) : SoundMaterial(t[i])
  BY <1>1 DEF SoundMaterials
<1>5. PICK r : r = Retained(t, by)
  OBVIOUS
<1>6. /\ r = [i \in 1 .. Len(t) |-> r[i]]
      /\ \A i \in 1 .. Len(t) : r[i] = t[i] \/ \E n : r[i] = [t[i] EXCEPT !.refs = n]
  BY <1>1, <1>5 DEF Retained
<1>7. \A i \in 1 .. Len(t) : SoundMaterial(r[i])
  BY <1>2, <1>4, <1>6
<1>8. PICK q : q = Released(t, by)
  OBVIOUS
<1>9. /\ q = [i \in 1 .. Len(t) |-> q[i]]
      /\ \A i \in 1 .. Len(t) : \/ \E n : q[i] = [t[i] EXCEPT !.refs = n]
                                \/ \E n : q[i] = [t[i] EXCEPT !.refs = n, !.name = None]
  BY <1>1, <1>8 DEF Released
<1>10. \A i \in 1 .. Len(t) : SoundMaterial(q[i])
  BY <1>2, <1>4, <1>9
<1>. QED
  BY <1>3, <1>5, <1>6, <1>7, <1>8, <1>9, <1>10

LEMMA OverriddenSound ==
  ASSUME NEW t, SoundMaterials(t), NEW old, NEW new
  PROVE  SoundMaterials(Overridden(t, old, new)) /\ Len(Overridden(t, old, new)) = Len(t)
BY RefsOnly DEF Overridden

LEMMA StillSound ==
  ASSUME NEW s, NEW n \in Nat, NEW k \in Nat, SoundScene(s, n, k),
         NEW m \in Nat, n <= m, NEW l \in Nat, k <= l
  PROVE  SoundScene(s, m, l)
<1>1. 0 .. n \subseteq 0 .. m /\ 0 .. k \subseteq 0 .. l
  OBVIOUS
<1>2. ASSUME NEW i \in DOMAIN s PROVE SoundEntity(s[i], m, l)
  <2>1. SoundEntity(s[i], n, k)
    BY DEF SoundScene
  <2>. QED
    BY <1>1, <2>1 DEF SoundEntity
<1>. QED
  BY <1>2 DEF SoundScene

LEMMA TablesTyped ==
  ASSUME TablesKept
  PROVE  /\ Len(mats) \in Nat /\ DOMAIN mats = 1 .. Len(mats)
         /\ Len(models) \in Nat /\ DOMAIN models = 1 .. Len(models)
         /\ Len(GameMaterials) \in Nat
BY SceneAssumption DEF TablesKept, SoundMaterials

-----------------------------------------------------------------------------
(* instantiate_scene().                                                      *)

LEMMA ModelsResolved ==
  ASSUME TablesKept, NEW files, files \in Seq(Range(files)), NEW r, r = ResolvedModels(files)
  PROVE  /\ r.models \in Seq(Range(r.models)) /\ Len(models) <= Len(r.models)
         /\ \A k \in DOMAIN files : r.handles[k] \in 1 .. Len(r.models)
         /\ \A h \in DOMAIN models : r.models[h] = models[h]
         /\ \A k \in DOMAIN files : r.handles[k] # Cube /\ r.handles[k] <= Len(models) =>
               models[r.handles[k]].state = "ready"
<1> DEFINE S == {f \in Range(files) : ~ Prefix(f) /\ CachedModel(models, f) = 0}
           pack(f) == IF f \in load.table.assets
                      THEN [path |-> load.path, table |-> load.table] ELSE None
<1>1. IsFiniteSet(Range(files))
  <2>1. files \in Surjection(1 .. Len(files), Range(files)) /\ Len(files) \in Nat
    BY DEF Surjection, Range
  <2>2. IsFiniteSet(1 .. Len(files))
    BY <2>1, FS_Interval
  <2>. QED
    BY <2>1, <2>2, FS_Surjection
<1>2. PICK streaming : streaming = SetToSeq(S) /\ streaming \in Seq(S) /\ Range(streaming) = S
  BY <1>1, FS_Subset, ListOf
<1>3. PICK new : new = [k \in DOMAIN streaming |-> [source |-> streaming[k], state |-> "loading",
                                                    pack |-> pack(streaming[k])]]
  OBVIOUS
<1>4. /\ r.models = models \o new
      /\ r.handles = [k \in DOMAIN files |->
                        CASE Prefix(files[k]) -> Cube
                          [] files[k] \in Range(streaming) -> Len(models) + IndexOf(streaming, files[k])
                          [] OTHER -> CachedModel(models, files[k])]
  BY <1>2, <1>3 DEF ResolvedModels
<1>5. new \in Seq(Range(new)) /\ Len(new) = Len(streaming) /\ Len(streaming) \in Nat
  BY <1>2, <1>3, ListIs
<1>6. /\ r.models \in Seq(Range(r.models)) /\ Len(r.models) = Len(models) + Len(streaming)
      /\ \A h \in DOMAIN models : r.models[h] = models[h]
  <2>1. models \in Seq(Range(models) \cup Range(new)) /\ new \in Seq(Range(models) \cup Range(new))
    BY <1>5, TablesTyped DEF TablesKept
  <2>2. /\ models \o new \in Seq(Range(models) \cup Range(new))
        /\ Len(models \o new) = Len(models) + Len(new)
        /\ \A h \in DOMAIN models : (models \o new)[h] = models[h]
    BY <2>1
  <2>. QED
    <3>1. r.models \in Seq(Range(models) \cup Range(new)) /\ Len(r.models) = Len(models) + Len(new)
      BY <1>4, <2>2
    <3>2. r.models \in Seq(Range(r.models))
      BY <3>1, Ranged
    <3>. QED
      BY <1>4, <1>5, <2>2, <3>1, <3>2
<1>7. ASSUME NEW k \in DOMAIN files
      PROVE  /\ r.handles[k] \in 1 .. Len(r.models)
             /\ r.handles[k] # Cube /\ r.handles[k] <= Len(models) => models[r.handles[k]].state = "ready"
  <2>1. CASE Prefix(files[k])
    <3>1. files[k] \notin Range(streaming)
      BY <1>2, <2>1
    <3>2. r.handles = [i \in DOMAIN files |->
                         CASE Prefix(files[i]) -> Cube
                           [] files[i] \in Range(streaming) -> Len(models) + IndexOf(streaming, files[i])
                           [] OTHER -> CachedModel(models, files[i])]
      BY <1>4
    <3>3. r.handles[k] = 1
      BY <2>1, <3>1, <3>2 DEF Cube
    <3>. QED
      BY <1>5, <1>6, <3>3, TablesTyped DEF TablesKept, Cube
  <2>2. CASE ~ Prefix(files[k]) /\ files[k] \in Range(streaming)
    <3>1. IndexOf(streaming, files[k]) \in 1 .. Len(streaming)
      BY <1>2, <2>2, IndexIn
    <3>. QED
      BY <1>4, <1>5, <1>6, <2>2, <3>1, TablesTyped
  <2>3. CASE ~ Prefix(files[k]) /\ files[k] \notin Range(streaming)
    <3>1. CachedModel(models, files[k]) # 0
      BY <1>2, <2>3 DEF Range
    <3>2. PICK h : h = CachedModel(models, files[k]) /\ h \in DOMAIN models /\ models[h].state = "ready"
      BY <3>1 DEF CachedModel
    <3>3. r.handles[k] = h
      BY <1>4, <2>3, <3>2
    <3>. QED
      BY <1>5, <1>6, <3>2, <3>3, TablesTyped
  <2>. QED
    BY <2>1, <2>2, <2>3
<1>8. r.models \in Seq(Range(r.models)) /\ Len(models) <= Len(r.models)
  BY <1>5, <1>6, TablesTyped
<1>. QED
  BY <1>6, <1>7, <1>8

LEMMA MaterialsAreMade ==
  ASSUME TablesKept, NEW d, WholeScene(d), NEW made, made = MadeMaterials(d)
  PROVE  /\ SoundMaterials(made.mats) /\ Len(mats) <= Len(made.mats)
         /\ \A k \in DOMAIN d.materials : made.handles[k] \in 1 .. Len(made.mats)
         /\ \A m \in DOMAIN mats : made.mats[m].refs = mats[m].refs /\ made.mats[m].name = mats[m].name
         /\ \A m \in DOMAIN made.mats : m \notin DOMAIN mats => made.mats[m].refs = 1
         /\ \A k \in DOMAIN d.materials :
               made.handles[k] \in DOMAIN mats => mats[made.handles[k]].name # None
<1> DEFINE N == {k \in DOMAIN d.materials : Namesakes(d, k) = {}}
<1>1. PICK new : /\ new = SetToSeq(N) /\ new \in Seq(N) /\ Range(new) = N
                 /\ \A i, j \in DOMAIN new : new[i] = new[j] => i = j
  <2>1. DOMAIN d.materials = 1 .. Len(d.materials) /\ Len(d.materials) \in Nat
    BY DEF WholeScene
  <2>2. IsFiniteSet(N)
    <3>1. N \in SUBSET (1 .. Len(d.materials)) /\ IsFiniteSet(1 .. Len(d.materials))
      BY <2>1, FS_Interval
    <3> HIDE DEF N
    <3>. QED
      BY <3>1, FS_Subset
  <2>. QED
    BY <2>2, ListOf
<1>. /\ Len(new) \in Nat /\ DOMAIN new = 1 .. Len(new)
     /\ Len(mats) \in Nat /\ DOMAIN mats = 1 .. Len(mats)
  <2> HIDE DEF N
  <2>. QED
    BY <1>1, Ranged, TablesTyped
<1>2. PICK total \in Nat : total = Len(mats) + Len(new)
  OBVIOUS
<1>3. PICK handles : handles = [k \in DOMAIN d.materials |->
                                  IF Namesakes(d, k) = {} THEN Len(mats) + IndexOf(new, k)
                                  ELSE CHOOSE m \in Namesakes(d, k) : TRUE]
  OBVIOUS
<1> DEFINE of(m) == {k \in DOMAIN d.materials : handles[k] = m}
<1>4. made = [handles |-> handles,
              mats |-> [m \in 1 .. Len(mats) + Len(new) |->
                          IF of(m) = {} THEN mats[m]
                          ELSE LET k == CHOOSE x \in of(m) : TRUE
                               IN  [name |-> d.materials[k].name, look |-> d.materials[k].look,
                                    texture |-> TextureOf(d, k),
                                    refs |-> IF Namesakes(d, k) = {} THEN 1 ELSE mats[m].refs]]]
  BY <1>1, <1>3 DEF MadeMaterials
<1>5. ASSUME NEW k \in DOMAIN d.materials PROVE handles[k] \in 1 .. total
  <2>1. CASE Namesakes(d, k) = {}
    <3>1. IndexOf(new, k) \in 1 .. Len(new)
      <4>1. k \in Range(new)
        BY <1>1, <2>1
      <4>. QED
        BY <4>1, IndexIn
    <3>. QED
      BY <1>1, <1>2, <1>3, <2>1, <3>1, TablesTyped
  <2>2. CASE Namesakes(d, k) # {}
    <3>1. handles[k] \in Namesakes(d, k)
      BY <1>3, <2>2
    <3>2. handles[k] \in DOMAIN mats
      BY <3>1 DEF Namesakes
    <3>. QED
      BY <1>1, <1>2, <3>2, TablesTyped
  <2>. QED
    BY <2>1, <2>2
(* Whoever has no namesake gets a place of his own, and all places are taken. *)
<1>6. ASSUME NEW m \in 1 .. total, of(m) = {} PROVE m \in 1 .. Len(mats)
  <2> SUFFICES ASSUME m \notin 1 .. Len(mats) PROVE FALSE
    OBVIOUS
  <2>1. PICK j \in 1 .. Len(new) : m = Len(mats) + j
    <3>1. m - Len(mats) \in 1 .. Len(new) /\ m = Len(mats) + (m - Len(mats))
      BY <1>1, <1>2, TablesTyped
    <3>. QED
      BY <3>1
  <2>2. new[j] \in Range(new) /\ new[j] \in N
    BY <1>1 DEF Range
  <2>3. IndexOf(new, new[j]) = j
    <3>1. IndexOf(new, new[j]) \in DOMAIN new /\ new[IndexOf(new, new[j])] = new[j]
      BY <2>2, IndexIn
    <3>. QED
      BY <1>1, <3>1
  <2>4. handles[new[j]] = m
    BY <1>3, <2>1, <2>2, <2>3
  <2>. QED
    BY <1>6, <2>2, <2>4
<1>7. PICK t : t = made.mats /\ t = [m \in 1 .. total |-> t[m]]
  <2>1. made.mats = [m \in 1 .. total |-> made.mats[m]]
    BY <1>2, <1>4
  <2>. QED
    BY <2>1
<1>8. ASSUME NEW m \in 1 .. total PROVE SoundMaterial(t[m])
  <2>1. CASE of(m) = {}
    <3>1. m \in DOMAIN mats /\ t[m] = mats[m]
      BY <1>2, <1>4, <1>6, <1>7, <2>1, TablesTyped
    <3>. QED
      BY <3>1 DEF TablesKept, SoundMaterials
  <2>2. CASE of(m) # {}
    <3>1. PICK k : k = (CHOOSE x \in of(m) : TRUE) /\ k \in DOMAIN d.materials
      BY <2>2
    <3>2. t[m] = [name |-> d.materials[k].name, look |-> d.materials[k].look,
                  texture |-> TextureOf(d, k),
                  refs |-> IF Namesakes(d, k) = {} THEN 1 ELSE mats[m].refs]
      BY <1>2, <1>4, <1>7, <2>2, <3>1
    <3>3. d.materials[k] \in Range(d.materials)
      BY <3>1 DEF Range
    <3>4. d.materials[k].look # Odd /\ d.materials[k].texture \in DOMAIN d.textures \cup {0}
      BY <3>3 DEF WholeScene, ReferencesSound, MaterialsReadable
    <3>5. TextureOf(d, k) # Odd
      BY <3>4, SceneAssumption DEF TextureOf, WholeScene, TexturesReadable, Range
    <3>. QED
      BY <3>2, <3>4, <3>5 DEF SoundMaterial
  <2>. QED
    BY <2>1, <2>2
<1>9. SoundMaterials(t) /\ Len(t) = total
  <2>1. t \in Seq(Range(t)) /\ Len(t) = total
    BY <1>7, ListIs
  <2>. QED
    BY <1>7, <1>8, <2>1 DEF SoundMaterials
<1>10. made.handles = handles
  BY <1>4
<1>11. ASSUME NEW k \in DOMAIN d.materials, handles[k] \in DOMAIN mats
       PROVE  /\ Namesakes(d, k) # {} /\ d.materials[k].name # None
              /\ mats[handles[k]].name = d.materials[k].name
  <2>1. Namesakes(d, k) # {}
    <3>1. ASSUME Namesakes(d, k) = {} PROVE FALSE
      <4>1. k \in Range(new)
        BY <1>1, <3>1
      <4>2. IndexOf(new, k) \in 1 .. Len(new) /\ handles[k] = Len(mats) + IndexOf(new, k)
        BY <1>3, <3>1, <4>1, IndexIn
      <4>. QED
        BY <1>11, <4>2
    <3>. QED
      BY <3>1
  <2>2. handles[k] \in Namesakes(d, k)
    BY <1>3, <2>1
  <2>. QED
    BY <2>1, <2>2 DEF Namesakes
<1>12. ASSUME NEW k \in DOMAIN d.materials, handles[k] \notin DOMAIN mats
       PROVE  Namesakes(d, k) = {}
  BY <1>3, <1>12 DEF Namesakes
<1>13. ASSUME NEW m \in 1 .. total, of(m) # {}
       PROVE  \E k \in DOMAIN d.materials :
                /\ handles[k] = m /\ t[m].name = d.materials[k].name
                /\ t[m].refs = IF Namesakes(d, k) = {} THEN 1 ELSE mats[m].refs
  <2>1. PICK k : k = (CHOOSE x \in of(m) : TRUE) /\ k \in DOMAIN d.materials /\ handles[k] = m
    BY <1>13
  <2>2. t[m] = [name |-> d.materials[k].name, look |-> d.materials[k].look,
                texture |-> TextureOf(d, k),
                refs |-> IF Namesakes(d, k) = {} THEN 1 ELSE mats[m].refs]
    BY <1>2, <1>4, <1>7, <1>13, <2>1
  <2>3. PICK f, a, l, x, c : /\ f = t[m] /\ f = [name |-> a, look |-> l, texture |-> x, refs |-> c]
                             /\ a = d.materials[k].name
                             /\ c = IF Namesakes(d, k) = {} THEN 1 ELSE mats[m].refs
    BY <2>2
  <2>4. f.name = a /\ f.refs = c
    BY <2>3
  <2>. QED
    BY <2>1, <2>3, <2>4
<1>14. ASSUME NEW m \in DOMAIN mats PROVE t[m].refs = mats[m].refs /\ t[m].name = mats[m].name
  <2>1. m \in 1 .. total
    BY <1>2
  <2>2. CASE of(m) = {}
    <3>1. t[m] = mats[m]
      BY <1>2, <1>4, <1>7, <2>1, <2>2
    <3>. QED
      BY <3>1
  <2>3. CASE of(m) # {}
    <3>1. PICK k \in DOMAIN d.materials :
            /\ handles[k] = m /\ t[m].name = d.materials[k].name
            /\ t[m].refs = IF Namesakes(d, k) = {} THEN 1 ELSE mats[m].refs
      BY <1>13, <2>1, <2>3
    <3>. QED
      BY <1>11, <3>1
  <2>. QED
    BY <2>2, <2>3
<1>15. ASSUME NEW m \in 1 .. total, m \notin DOMAIN mats PROVE t[m].refs = 1
  <2>1. of(m) # {}
    BY <1>6, <1>15
  <2>. QED
    BY <1>12, <1>13, <1>15, <2>1
<1>16. \A k \in DOMAIN d.materials : made.handles[k] \in DOMAIN mats => mats[made.handles[k]].name # None
  BY <1>10, <1>11
<1>17. DOMAIN made.mats = 1 .. total
  BY <1>7
<1>18. \A k \in DOMAIN d.materials : made.handles[k] \in 1 .. Len(made.mats)
  BY <1>5, <1>7, <1>9, <1>10
<1> HIDE DEF of
<1>19. /\ \A m \in DOMAIN mats : made.mats[m].refs = mats[m].refs /\ made.mats[m].name = mats[m].name
       /\ \A m \in DOMAIN made.mats : m \notin DOMAIN mats => made.mats[m].refs = 1
  BY <1>7, <1>14, <1>15, <1>17
<1>20. SoundMaterials(made.mats) /\ Len(mats) <= Len(made.mats)
  BY <1>2, <1>7, <1>9
<1>. QED
  BY <1>16, <1>18, <1>19, <1>20

LEMMA SlotsThere ==
  ASSUME NEW d, WholeScene(d), NEW k \in Nat, NEW made,
         \A j \in DOMAIN d.materials : made.handles[j] \in 1 .. k, NEW i
  PROVE  \A s \in SlotsOf(d, made, i) : s.mat \in 0 .. k
<1> SUFFICES ASSUME NEW s \in SlotsOf(d, made, i) PROVE s.mat \in 0 .. k
  OBVIOUS
<1>1. PICK c \in d.material_overrides : \E x \in c.slots :
        s = [slot |-> x.slot, mat |-> made.handles[x.material]]
  BY DEF SlotsOf
<1>2. PICK x \in c.slots : s = [slot |-> x.slot, mat |-> made.handles[x.material]]
  BY <1>1
<1>3. x.material \in DOMAIN d.materials
  BY DEF WholeScene, ReferencesSound
<1>. QED
  BY <1>2, <1>3

LEMMA SlotsFinite ==
  ASSUME NEW d, FewOverrides(d), NEW made, NEW i
  PROVE  IsFiniteSet(SlotsOf(d, made, i))
<1> DEFINE named(c) == {[slot |-> s.slot, mat |-> made.handles[s.material]] : s \in c.slots}
<1>1. PICK O : O = {x \in d.material_overrides : x.entity = i} /\ IsFiniteSet(O)
  BY FS_Subset DEF FewOverrides
<1>2. PICK f : f = [c \in O |-> named(c)]
  OBVIOUS
<1>7. DOMAIN f = O /\ IsFiniteSet(O)
  BY <1>1, <1>2
<1>3. IsFiniteSet({f[c] : c \in O})
  BY <1>7, ImageFinite
<1>4. ASSUME NEW c \in O PROVE IsFiniteSet(f[c])
  <2>1. PICK S : S = c.slots /\ IsFiniteSet(S)
    BY <1>1 DEF FewOverrides
  <2>2. PICK g : g = [s \in S |-> [slot |-> s.slot, mat |-> made.handles[s.material]]]
    OBVIOUS
  <2>3. f[c] = {g[s] : s \in S} /\ DOMAIN g = S
    BY <1>2, <2>1, <2>2
  <2>4. IsFiniteSet(S)
    BY <2>1
  <2>. QED
    BY <2>3, <2>4, ImageFinite
<1>5. SlotsOf(d, made, i) = UNION {f[c] : c \in O}
  BY <1>1, <1>2 DEF SlotsOf
<1>6. IsFiniteSet(UNION {f[c] : c \in O})
  BY <1>3, <1>4, FS_UNION
<1>. QED
  BY <1>5, <1>6

LEMMA MadeThere ==
  ASSUME NEW d, NEW k \in Nat, NEW made,
         \A j \in DOMAIN d.materials : made.handles[j] \in 1 .. k,
         NEW x \in DOMAIN d.materials \cup {0}
  PROVE  MaterialMade(made, x) \in 0 .. k
BY DEF MaterialMade

(* So many models and materials, and whatever a description names is there.  *)
NamesThere(d, resolved, made, n, k) ==
  /\ n \in Nat /\ k \in Nat
  /\ \A j \in DOMAIN d.models : resolved.handles[j] \in 1 .. n
  /\ \A j \in DOMAIN d.materials : made.handles[j] \in 1 .. k

LEMMA EntitySound ==
  ASSUME NEW d, WholeScene(d), NEW resolved, NEW made, NEW n, NEW k,
         NamesThere(d, resolved, made, n, k), NEW i \in DOMAIN d.entities
  PROVE  /\ SoundEntity(EntityMade(d, resolved, made, i), n, k)
         /\ EntityMade(d, resolved, made, i).parent = d.entities[i].parent
<1>. /\ n \in Nat /\ k \in Nat
     /\ \A j \in DOMAIN d.models : resolved.handles[j] \in 1 .. n
     /\ \A j \in DOMAIN d.materials : made.handles[j] \in 1 .. k
  BY DEF NamesThere
<1> DEFINE plains == {c \in d.plain : c.entity = i}
<1>1. PICK model : model = ModelMade(d, resolved, i)
  OBVIOUS
<1>2. PICK streamed : streamed = (d.entities[i].streamed /\ model # 0)
  OBVIOUS
<1>3. PICK over : over = IF Has(d.material_overrides, i)
                         THEN MaterialMade(made, The(d.material_overrides, i).material) ELSE 0
  OBVIOUS
<1>4. PICK slots : slots = IF model = 0 \/ Loading(resolved.models, model) THEN {}
                           ELSE {[of |-> MaterialsOf(resolved.models, model), slot |-> s.slot, mat |-> s.mat] :
                                   s \in SlotsOf(d, made, i)}
  OBVIOUS
<1>5. PICK field : field = IF Has(d.instanced_models, i)
                           THEN resolved.handles[The(d.instanced_models, i).model] ELSE 0
  OBVIOUS
<1>6. PICK inst : inst = IF Has(d.instanced_models, i)
                         THEN MaterialMade(made, The(d.instanced_models, i).material) ELSE 0
  OBVIOUS
<1>7. PICK plain : plain = [x \in {c.kind : c \in plains} |-> (CHOOSE c \in plains : c.kind = x).value]
  OBVIOUS
<1>8. PICK lifetime : lifetime = IF Has(d.lifetimes, i) THEN The(d.lifetimes, i).value ELSE None
  OBVIOUS
<1>9. PICK e : e = EntityMade(d, resolved, made, i)
  OBVIOUS
<1>10. e = [name |-> d.entities[i].name, place |-> d.entities[i].place,
            parent |-> d.entities[i].parent, streamed |-> streamed, model |-> model,
            over |-> over, slots |-> slots, field |-> field, inst |-> inst, plain |-> plain,
            lifetime |-> lifetime]
  BY <1>1, <1>2, <1>3, <1>4, <1>5, <1>6, <1>7, <1>8, <1>9 DEF EntityMade
<1>11. \A cs : Has(cs, i) => The(cs, i) \in cs
  BY DEF Has, The
<1>12. model \in 0 .. n
  BY <1>1, <1>11 DEF ModelMade, WholeScene, ReferencesSound
<1>13. over \in 0 .. k
  <2>1. CASE Has(d.material_overrides, i)
    <3>1. PICK m : m = The(d.material_overrides, i).material /\ m \in DOMAIN d.materials \cup {0}
      BY <1>11, <2>1 DEF WholeScene, ReferencesSound
    <3>. QED
      BY <1>3, <2>1, <3>1, MadeThere
  <2>. QED
    BY <1>3, <2>1
<1>14. field \in 0 .. n
  BY <1>5, <1>11 DEF WholeScene, ReferencesSound
<1>15. inst \in 0 .. k
  <2>1. CASE Has(d.instanced_models, i)
    <3>1. PICK m : m = The(d.instanced_models, i).material /\ m \in DOMAIN d.materials \cup {0}
      BY <1>11, <2>1 DEF WholeScene, ReferencesSound
    <3>. QED
      BY <1>6, <2>1, <3>1, MadeThere
  <2>. QED
    BY <1>6, <2>1
<1>16. \A s \in slots : s.mat \in 0 .. k
  <2>1. \A s \in SlotsOf(d, made, i) : s.mat \in 0 .. k
    BY SlotsThere
  <2>. QED
    BY <1>4, <2>1
<1>23. IsFiniteSet(slots)
  <2>1. CASE model = 0 \/ Loading(resolved.models, model)
    BY <1>4, <2>1, FS_EmptySet
  <2>2. CASE ~ (model = 0 \/ Loading(resolved.models, model))
    <3>1. PICK S : S = SlotsOf(d, made, i) /\ IsFiniteSet(S)
      BY SlotsFinite DEF WholeScene
    <3>2. PICK f : f = [s \in S |-> [of |-> MaterialsOf(resolved.models, model), slot |-> s.slot, mat |-> s.mat]]
      OBVIOUS
    <3>3. slots = {f[s] : s \in S} /\ DOMAIN f = S
      BY <1>4, <2>2, <3>1, <3>2
    <3>4. IsFiniteSet(S)
      BY <3>1
    <3>. QED
      BY <3>3, <3>4, ImageFinite
  <2>. QED
    BY <2>1, <2>2
<1>18. ASSUME "rigid_body" \in DOMAIN plain PROVE plain["rigid_body"] # Odd
  <2>1. \E c \in plains : c.kind = "rigid_body"
    BY <1>7, <1>18
  <2>2. PICK c : c = (CHOOSE b \in plains : b.kind = "rigid_body")
    OBVIOUS
  <2>3. c \in plains /\ c.kind = "rigid_body" /\ plain["rigid_body"] = c.value
    BY <1>7, <1>18, <2>1, <2>2
  <2>. QED
    BY <2>3 DEF WholeScene, BodiesReadable
<1>20. /\ e.name = d.entities[i].name /\ e.place = d.entities[i].place
       /\ e.parent = d.entities[i].parent /\ e.streamed = streamed /\ e.model = model
       /\ e.over = over /\ e.slots = slots /\ e.field = field /\ e.inst = inst
       /\ e.plain = plain /\ e.lifetime = lifetime
  BY <1>10
<1>21. e = [name |-> e.name, place |-> e.place, parent |-> e.parent, streamed |-> e.streamed,
            model |-> e.model, over |-> e.over, slots |-> e.slots, field |-> e.field,
            inst |-> e.inst, plain |-> e.plain, lifetime |-> e.lifetime]
  BY <1>10, <1>20
<1>22. SoundEntity(e, n, k)
  <2>1. IsFiniteSet(e.slots)
    BY <1>20, <1>23
  <2>2. {e.model, e.field} \subseteq 0 .. n
    BY <1>12, <1>14, <1>20
  <2>3. {e.over, e.inst} \cup {s.mat : s \in e.slots} \subseteq 0 .. k
    BY <1>13, <1>15, <1>16, <1>20
  <2>4. "rigid_body" \in DOMAIN e.plain => e.plain["rigid_body"] # Odd
    BY <1>18, <1>20
  <2>. QED
    BY <1>21, <2>1, <2>2, <2>3, <2>4 DEF SoundEntity
<1>. QED
  BY <1>9, <1>20, <1>22

LEMMA EntitiesSound ==
  ASSUME NEW d, WholeScene(d), NEW resolved, NEW made, NEW n, NEW k,
         NamesThere(d, resolved, made, n, k)
  PROVE  SoundScene(EntitiesMade(d, resolved, made), n, k)
<1>1. PICK s : s = EntitiesMade(d, resolved, made)
  OBVIOUS
<1>2. DOMAIN d.entities = 1 .. Len(d.entities) /\ Len(d.entities) \in Nat
  BY DEF WholeScene
<1>3. /\ s = [i \in 1 .. Len(d.entities) |-> s[i]]
      /\ \A i \in DOMAIN d.entities : s[i] = EntityMade(d, resolved, made, i)
  BY <1>1, <1>2 DEF EntitiesMade
<1>4. s \in Seq(Range(s)) /\ DOMAIN s = DOMAIN d.entities
  BY <1>2, <1>3, ListIs
<1>5. \A i \in DOMAIN s : SoundEntity(s[i], n, k) /\ s[i].parent = d.entities[i].parent
  <2> SUFFICES ASSUME NEW i \in DOMAIN d.entities
               PROVE  SoundEntity(s[i], n, k) /\ s[i].parent = d.entities[i].parent
    BY <1>4
  <2>1. s[i] = EntityMade(d, resolved, made, i)
    BY <1>3
  <2>2. /\ SoundEntity(EntityMade(d, resolved, made, i), n, k)
        /\ EntityMade(d, resolved, made, i).parent = d.entities[i].parent
    BY EntitySound
  <2>. QED
    BY <2>1, <2>2
<1>6. ParentsSound(s)
  <2>1. ParentsSound(d.entities)
    BY DEF WholeScene, ReferencesSound
  <2>. QED
    BY <1>4, <1>5, <2>1 DEF ParentsSound, Range
<1>. QED
  BY <1>1, <1>4, <1>5, <1>6 DEF SoundScene

(* What a load is about to leave: the scene with its tables, and itself.     *)
SoundNow(now) ==
  /\ now.models \in Seq(Range(now.models)) /\ 1 <= Len(now.models)
  /\ SoundMaterials(now.mats) /\ Len(GameMaterials) <= Len(now.mats)
  /\ SoundScene(now.scene, Len(now.models), Len(now.mats))
  /\ now.load = [path |-> now.load.path, stage |-> now.load.stage, table |-> now.load.table,
                 read |-> now.load.read, streaming |-> now.load.streaming,
                 deferred |-> now.load.deferred]
  /\ now.load.path \in Files /\ now.load.stage = "streaming"
  /\ \A x \in now.load.deferred : \A s \in x.slots : s.mat \in 0 .. Len(now.mats)
  /\ FewSlots(now.load.deferred)

LEMMA OverridesArrive ==
  ASSUME NEW now, SoundNow(now)
  PROVE  SoundNow(Applied(now))
<1> DEFINE ready == {d \in now.load.deferred : ~ Loading(now.models, d.model)}
           there(d) == d.entity \in DOMAIN now.scene /\ now.scene[d.entity].model = d.model
           more(i) == UNION {{[of |-> MaterialsOf(now.models, d.model), slot |-> s.slot, mat |-> s.mat] :
                                s \in d.slots} : d \in {x \in ready : x.entity = i /\ there(x)}}
<1>1. PICK edited : edited = [i \in DOMAIN now.scene |->
                                [now.scene[i] EXCEPT !.slots = @ \cup more(i)]]
  OBVIOUS
<1>2. PICK held : held = [m \in DOMAIN now.mats |-> Held(ready, m)]
  OBVIOUS
<1>3. Applied(now) = [scene |-> edited, models |-> now.models,
                      mats |-> Released(Overridden(now.mats, now.scene, edited), held),
                      load |-> [now.load EXCEPT !.deferred = @ \ ready]]
  BY <1>1, <1>2 DEF Applied
<1>4. PICK n, k : n = Len(now.models) /\ k = Len(now.mats)
  OBVIOUS
<1>5. now.scene \in Seq(Range(now.scene)) /\ ParentsSound(now.scene)
  BY DEF SoundNow, SoundScene
<1>6. \A i : \A s \in more(i) : s.mat \in 0 .. k
  BY <1>4 DEF SoundNow
<1>20. ASSUME NEW i PROVE IsFiniteSet(more(i))
  <2>1. PICK R : R = {x \in ready : x.entity = i /\ there(x)} /\ IsFiniteSet(R)
    <3>1. PICK R : R = {x \in ready : x.entity = i /\ there(x)} /\ R \in SUBSET now.load.deferred
      OBVIOUS
    <3>2. IsFiniteSet(now.load.deferred)
      BY DEF SoundNow, FewSlots
    <3>3. IsFiniteSet(R)
      BY <3>1, <3>2, FS_Subset
    <3>. QED
      BY <3>1, <3>3
  <2>2. PICK f : f = [d \in R |-> {[of |-> MaterialsOf(now.models, d.model), slot |-> s.slot, mat |-> s.mat] :
                                      s \in d.slots}]
    OBVIOUS
  <2>7. DOMAIN f = R /\ IsFiniteSet(R)
    BY <2>1, <2>2
  <2>3. IsFiniteSet({f[d] : d \in R})
    BY <2>7, ImageFinite
  <2>4. ASSUME NEW d \in R PROVE IsFiniteSet(f[d])
    <3>1. PICK S : S = d.slots /\ IsFiniteSet(S)
      BY <2>1 DEF SoundNow, FewSlots
    <3>2. PICK g : g = [s \in S |-> [of |-> MaterialsOf(now.models, d.model), slot |-> s.slot, mat |-> s.mat]]
      OBVIOUS
    <3>3. f[d] = {g[s] : s \in S} /\ DOMAIN g = S
      BY <2>2, <3>1, <3>2
    <3>4. IsFiniteSet(S)
      BY <3>1
    <3>. QED
      BY <3>3, <3>4, ImageFinite
  <2>5. more(i) = UNION {f[d] : d \in R}
    BY <2>1, <2>2
  <2>6. IsFiniteSet(UNION {f[d] : d \in R})
    BY <2>3, <2>4, FS_UNION
  <2>. QED
    BY <2>5, <2>6
<1>7. ASSUME NEW i \in DOMAIN now.scene
      PROVE  SoundEntity(edited[i], n, k) /\ edited[i].parent = now.scene[i].parent
  <2>1. PICK e : e = now.scene[i] /\ SoundEntity(e, n, k)
    BY <1>4 DEF SoundNow, SoundScene
  <2>2. PICK slots : slots = e.slots \cup more(i)
    OBVIOUS
  <2> HIDE DEF more
  <2>3. edited[i] = [e EXCEPT !.slots = e.slots \cup more(i)]
    BY <1>1, <2>1
  <2>4. edited[i] = [name |-> e.name, place |-> e.place, parent |-> e.parent, streamed |-> e.streamed,
                     model |-> e.model, over |-> e.over, slots |-> slots, field |-> e.field,
                     inst |-> e.inst, plain |-> e.plain, lifetime |-> e.lifetime]
    BY <2>1, <2>2, <2>3 DEF SoundEntity
  <2>5. {e.over, e.inst} \cup {s.mat : s \in slots} \subseteq 0 .. k
    BY <1>6, <2>1, <2>2 DEF SoundEntity
  <2>7. IsFiniteSet(slots)
    BY <1>20, <2>1, <2>2, FS_Union DEF SoundEntity
  <2>6. SoundEntity(edited[i], n, k)
    BY <2>1, <2>4, <2>5, <2>7 DEF SoundEntity
  <2>. QED
    BY <2>1, <2>4, <2>6
<1>8. edited \in Seq(Range(edited)) /\ DOMAIN edited = DOMAIN now.scene
  <2>1. DOMAIN now.scene = 1 .. Len(now.scene) /\ Len(now.scene) \in Nat
    BY <1>5
  <2>2. edited = [i \in 1 .. Len(now.scene) |-> edited[i]]
    BY <1>1, <2>1
  <2>. QED
    BY <2>1, <2>2, ListIs
<1>9. ParentsSound(edited)
  BY <1>5, <1>7, <1>8 DEF ParentsSound, Range
<1>10. SoundScene(edited, n, k)
  BY <1>7, <1>8, <1>9 DEF SoundScene
<1>11. PICK mt : /\ mt = Released(Overridden(now.mats, now.scene, edited), held)
                 /\ SoundMaterials(mt) /\ Len(mt) = Len(now.mats)
  <2>1. SoundMaterials(now.mats)
    BY DEF SoundNow
  <2>2. PICK t : /\ t = Overridden(now.mats, now.scene, edited)
                 /\ SoundMaterials(t) /\ Len(t) = Len(now.mats)
    BY <2>1, OverriddenSound
  <2>. QED
    BY <2>2, RefsOnly
<1>12. PICK left : left = now.load.deferred \ ready
  OBVIOUS
<1>13. PICK l : /\ l = [now.load EXCEPT !.deferred = left]
                /\ l = [path |-> now.load.path, stage |-> now.load.stage, table |-> now.load.table,
                        read |-> now.load.read, streaming |-> now.load.streaming, deferred |-> left]
  <2>1. PICK p, s, t, r, m, q : now.load = [path |-> p, stage |-> s, table |-> t, read |-> r,
                                            streaming |-> m, deferred |-> q]
    BY DEF SoundNow
  <2>2. [now.load EXCEPT !.deferred = left]
          = [path |-> p, stage |-> s, table |-> t, read |-> r, streaming |-> m, deferred |-> left]
    BY <2>1
  <2>3. /\ now.load.path = p /\ now.load.stage = s /\ now.load.table = t
        /\ now.load.read = r /\ now.load.streaming = m
    BY <2>1
  <2>. QED
    BY <2>2, <2>3
<1>14. PICK then : then = Applied(now) /\ then = [scene |-> edited, models |-> now.models, mats |-> mt, load |-> l]
  BY <1>3, <1>11, <1>12, <1>13
<1>15. /\ then.scene = edited /\ then.models = now.models /\ then.mats = mt /\ then.load = l
       /\ l.path = now.load.path /\ l.stage = now.load.stage /\ l.table = now.load.table
       /\ l.read = now.load.read /\ l.streaming = now.load.streaming /\ l.deferred = left
  BY <1>13, <1>14
<1>16. \A x \in left : \A s \in x.slots : s.mat \in 0 .. Len(mt)
  BY <1>11, <1>12 DEF SoundNow
<1>17. l = [path |-> l.path, stage |-> l.stage, table |-> l.table, read |-> l.read,
            streaming |-> l.streaming, deferred |-> l.deferred]
  BY <1>13, <1>15
<1>18. SoundNow(then)
  <2>1. SoundScene(then.scene, Len(then.models), Len(then.mats))
    BY <1>4, <1>10, <1>11, <1>15
  <2>2. then.models \in Seq(Range(then.models)) /\ 1 <= Len(then.models)
    BY <1>15 DEF SoundNow
  <2>3. SoundMaterials(then.mats) /\ Len(GameMaterials) <= Len(then.mats)
    BY <1>11, <1>15 DEF SoundNow
  <2>4. then.load.path \in Files /\ then.load.stage = "streaming"
    BY <1>15 DEF SoundNow
  <2>5. \A x \in then.load.deferred : \A s \in x.slots : s.mat \in 0 .. Len(then.mats)
    BY <1>15, <1>16
  <2>6. FewSlots(then.load.deferred)
    <3>1. left \in SUBSET now.load.deferred
      BY <1>12
    <3>2. FewSlots(left)
      BY <3>1, FS_Subset DEF SoundNow, FewSlots
    <3>. QED
      BY <1>15, <3>2
  <2>. QED
    BY <1>15, <1>17, <2>1, <2>2, <2>3, <2>4, <2>5, <2>6 DEF SoundNow
<1>. QED
  BY <1>14, <1>18

(* The load is done, or goes on.                                             *)
LEMMA ProgressKeeps ==
  ASSUME FilesInv, load # NoLoad, NEW now, SoundNow(now), Progressed(now),
         UNCHANGED << save, disk, leaked, count >>
  PROVE  FilesInv'
<1>1. scene' = now.scene /\ models' = now.models /\ mats' = now.mats
  BY DEF Progressed
<1>2. TablesKept' /\ SceneKept'
  BY <1>1 DEF SoundNow, TablesKept, SceneKept
<1>3. load' = NoLoad \/ load' = now.load
  BY DEF Progressed
<1>4. LoadKept'
  <2>1. ASSUME load' = now.load PROVE LoadKept'
    BY <1>1, <2>1 DEF SoundNow, LoadKept
  <2>2. ASSUME load' = NoLoad PROVE LoadKept'
    BY <2>2 DEF LoadKept
  <2>. QED
    BY <1>3, <2>1, <2>2
<1>5. EditorKept'
  <2>1. \/ editor' = editor
        \/ \E c, p, q : editor' = [editor EXCEPT !.path = p, !.clean = c, !.pack = q]
    BY DEF Progressed
  <2>2. ASSUME NEW c, NEW p, NEW q, editor' = [editor EXCEPT !.path = p, !.clean = c, !.pack = q]
        PROVE  EditorKept'
    <3>1. editor' = [path |-> p, pack |-> q, next |-> editor.next, pending |-> editor.pending,
                     naming |-> editor.naming, clean |-> c]
      BY <2>2 DEF FilesInv, EditorKept
    <3>. QED
      BY <3>1 DEF FilesInv, EditorKept
  <2>3. ASSUME editor' = editor PROVE EditorKept'
    BY <2>3 DEF FilesInv, EditorKept
  <2>. QED
    BY <2>1, <2>2, <2>3
<1>6. SaveKept' /\ DiskKept'
  BY DEF FilesInv, SaveKept, DiskKept
<1>. QED
  BY <1>2, <1>4, <1>5, <1>6 DEF FilesInv

-----------------------------------------------------------------------------
(* Edits.                                                                    *)

LEMMA ChangedSound ==
  ASSUME NEW s, NEW n, NEW k, s \in Seq(Range(s)), ParentsSound(s), NEW t,
         t = [i \in DOMAIN s |-> t[i]],
         \A i \in DOMAIN s : SoundEntity(t[i], n, k) /\ t[i].parent = s[i].parent
  PROVE  SoundScene(t, n, k)
<1>1. DOMAIN s = 1 .. Len(s) /\ Len(s) \in Nat
  OBVIOUS
<1>2. t \in Seq(Range(t)) /\ DOMAIN t = DOMAIN s
  BY <1>1, ListIs
<1>3. ParentsSound(t)
  BY <1>2 DEF ParentsSound, Range
<1>. QED
  BY <1>2, <1>3 DEF SoundScene

LEMMA LoadStays ==
  ASSUME TablesKept, LoadKept, load' = load, Len(mats') \in Nat, Len(mats) <= Len(mats')
  PROVE  LoadKept'
<1>1. Len(mats) \in Nat
  BY TablesTyped
<1>. QED
  BY <1>1 DEF LoadKept

LEMMA EditKeeps ==
  ASSUME FilesInv, EditScene, UNCHANGED << editor, save >>,
         TablesKept', SceneKept', Len(mats) <= Len(mats')
  PROVE  FilesInv'
<1>1. Len(mats') \in Nat
  BY DEF TablesKept, SoundMaterials
<1>2. EditorKept'
  <2>1. count' = [edits |-> count.edits + 1, opens |-> count.opens, saves |-> count.saves]
    BY DEF FilesInv, EditorKept, EditScene
  <2>. QED
    BY <2>1 DEF FilesInv, EditorKept
<1>3. SaveKept' /\ DiskKept'
  BY DEF FilesInv, SaveKept, DiskKept, EditScene
<1>4. LoadKept'
  BY <1>1, LoadStays DEF FilesInv, EditScene
<1>. QED
  BY <1>2, <1>3, <1>4 DEF FilesInv

(* An entity with the references it had, whatever its numbers are.           *)
OnlyValues(e, f) ==
  /\ f = [name |-> e.name, place |-> f.place, parent |-> e.parent, streamed |-> e.streamed,
          model |-> e.model, over |-> e.over, slots |-> e.slots, field |-> e.field,
          inst |-> e.inst, plain |-> f.plain, lifetime |-> f.lifetime]
  /\ "rigid_body" \in DOMAIN f.plain => f.plain["rigid_body"] # Odd

OneChanged(s, t, i, f) ==
  /\ t = [j \in DOMAIN s |-> t[j]]
  /\ t[i] = f /\ \A j \in DOMAIN s \ {i} : t[j] = s[j]

LEMMA ValuesEdited ==
  ASSUME FilesInv, NEW i \in DOMAIN scene, Move(i) \/ EditComponent(i)
  PROVE  /\ EditScene /\ UNCHANGED << models, mats, editor, save >>
         /\ \E f : OnlyValues(scene[i], f) /\ OneChanged(scene, scene', i, f)
<1>1. EditScene /\ UNCHANGED << models, mats, editor, save >>
  BY DEF Move, EditComponent, EditValues
<1>2. PICK e : /\ e = scene[i]
               /\ e = [name |-> e.name, place |-> e.place, parent |-> e.parent, streamed |-> e.streamed,
                       model |-> e.model, over |-> e.over, slots |-> e.slots, field |-> e.field,
                       inst |-> e.inst, plain |-> e.plain, lifetime |-> e.lifetime]
               /\ "rigid_body" \in DOMAIN e.plain => e.plain["rigid_body"] # Odd
  BY DEF FilesInv, SceneKept, SoundScene, SoundEntity
<1>3. ASSUME NEW p, NEW q, NEW l, NEW f,
             f = [name |-> e.name, place |-> p, parent |-> e.parent, streamed |-> e.streamed,
                  model |-> e.model, over |-> e.over, slots |-> e.slots, field |-> e.field,
                  inst |-> e.inst, plain |-> q, lifetime |-> l],
             "rigid_body" \in DOMAIN q => q["rigid_body"] # Odd
      PROVE  OnlyValues(e, f)
  <2>1. f.place = p /\ f.plain = q /\ f.lifetime = l
    BY <1>3
  <2>. QED
    BY <1>3, <2>1 DEF OnlyValues
<1>4. ASSUME NEW v, scene' = [scene EXCEPT ![i].place = v]
      PROVE  \E f : OnlyValues(scene[i], f) /\ OneChanged(scene, scene', i, f)
  <2>1. PICK f : f = [e EXCEPT !.place = v]
    OBVIOUS
  <2>2. f = [name |-> e.name, place |-> v, parent |-> e.parent, streamed |-> e.streamed,
             model |-> e.model, over |-> e.over, slots |-> e.slots, field |-> e.field,
             inst |-> e.inst, plain |-> e.plain, lifetime |-> e.lifetime]
    BY <1>2, <2>1
  <2>3. OnlyValues(e, f)
    BY <1>2, <1>3, <2>2
  <2>4. OneChanged(scene, scene', i, f)
    BY <1>2, <1>4, <2>1 DEF OneChanged
  <2>. QED
    BY <1>2, <2>3, <2>4
<1>5. ASSUME NEW v, scene' = [scene EXCEPT ![i].lifetime = v]
      PROVE  \E f : OnlyValues(scene[i], f) /\ OneChanged(scene, scene', i, f)
  <2>1. PICK f : f = [e EXCEPT !.lifetime = v]
    OBVIOUS
  <2>2. f = [name |-> e.name, place |-> e.place, parent |-> e.parent, streamed |-> e.streamed,
             model |-> e.model, over |-> e.over, slots |-> e.slots, field |-> e.field,
             inst |-> e.inst, plain |-> e.plain, lifetime |-> v]
    BY <1>2, <2>1
  <2>3. OnlyValues(e, f)
    BY <1>2, <1>3, <2>2
  <2>4. OneChanged(scene, scene', i, f)
    BY <1>2, <1>5, <2>1 DEF OneChanged
  <2>. QED
    BY <1>2, <2>3, <2>4
<1>6. ASSUME NEW k, NEW v \in Edited.value, NEW q, q = [scene[i].plain EXCEPT ![k] = v],
             scene' = [scene EXCEPT ![i].plain = q]
      PROVE  \E f : OnlyValues(scene[i], f) /\ OneChanged(scene, scene', i, f)
  <2>1. PICK f : f = [e EXCEPT !.plain = q]
    OBVIOUS
  <2>2. f = [name |-> e.name, place |-> e.place, parent |-> e.parent, streamed |-> e.streamed,
             model |-> e.model, over |-> e.over, slots |-> e.slots, field |-> e.field,
             inst |-> e.inst, plain |-> q, lifetime |-> e.lifetime]
    BY <1>2, <2>1
  <2>3. "rigid_body" \in DOMAIN q => q["rigid_body"] # Odd
    <3>1. v # Odd
      BY SceneAssumption
    <3>. QED
      BY <1>2, <1>6, <3>1
  <2>4. OnlyValues(e, f)
    BY <1>3, <2>2, <2>3
  <2>5. OneChanged(scene, scene', i, f)
    BY <1>2, <1>6, <2>1 DEF OneChanged
  <2>. QED
    BY <1>2, <2>4, <2>5
<1>7. \/ \E v : scene' = [scene EXCEPT ![i].place = v]
      \/ \E v : scene' = [scene EXCEPT ![i].lifetime = v]
      \/ \E k, q : \E v \in Edited.value :
           q = [scene[i].plain EXCEPT ![k] = v] /\ scene' = [scene EXCEPT ![i].plain = q]
  BY DEF Move, EditComponent
<1>. QED
  BY <1>1, <1>4, <1>5, <1>6, <1>7

LEMMA ValuesKeep ==
  ASSUME FilesInv, NEW i \in DOMAIN scene, Move(i) \/ EditComponent(i)
  PROVE  FilesInv'
<1>1. PICK n, k : n = Len(models) /\ k = Len(mats)
  OBVIOUS
<1>2. SoundScene(scene, n, k)
  BY <1>1 DEF FilesInv, SceneKept
<1>3. PICK f : OnlyValues(scene[i], f) /\ OneChanged(scene, scene', i, f)
  BY ValuesEdited
<1>4. PICK t : t = scene' /\ OneChanged(scene, t, i, f)
  BY <1>3
<1>5. ASSUME NEW j \in DOMAIN scene
      PROVE  SoundEntity(t[j], n, k) /\ t[j].parent = scene[j].parent
  <2>1. PICK e : e = scene[j] /\ SoundEntity(e, n, k)
    BY <1>2 DEF SoundScene
  <2>2. CASE j = i
    <3>1. /\ f.name = e.name /\ f.parent = e.parent /\ f.streamed = e.streamed /\ f.model = e.model
          /\ f.over = e.over /\ f.slots = e.slots /\ f.field = e.field /\ f.inst = e.inst
      BY <1>3, <2>1, <2>2 DEF OnlyValues
    <3>2. t[j] = f
      BY <1>4, <2>2 DEF OneChanged
    <3>3. f = [name |-> f.name, place |-> f.place, parent |-> f.parent, streamed |-> f.streamed,
               model |-> f.model, over |-> f.over, slots |-> f.slots, field |-> f.field,
               inst |-> f.inst, plain |-> f.plain, lifetime |-> f.lifetime]
      BY <1>3, <2>1, <2>2, <3>1 DEF OnlyValues
    <3>4. SoundEntity(f, n, k)
      BY <1>3, <2>1, <3>1, <3>3 DEF OnlyValues, SoundEntity
    <3>. QED
      BY <2>1, <3>1, <3>2, <3>4
  <2>3. CASE j # i
    BY <1>4, <2>1, <2>3 DEF OneChanged
  <2>. QED
    BY <2>2, <2>3
<1>6. t = [j \in DOMAIN scene |-> t[j]]
  BY <1>4 DEF OneChanged
<1>7. SoundScene(t, n, k)
  BY <1>2, <1>5, <1>6, ChangedSound DEF SoundScene
<1>8. UNCHANGED << models, mats, editor, save >> /\ EditScene
  BY ValuesEdited
<1>9. TablesKept' /\ SceneKept' /\ Len(mats) <= Len(mats')
  BY <1>1, <1>4, <1>7, <1>8, TablesTyped DEF FilesInv, TablesKept, SceneKept
<1>. QED
  BY <1>8, <1>9, EditKeeps

LEMMA EditSettingsKeeps ==
  ASSUME FilesInv, EditSettings
  PROVE  FilesInv'
<1>1. UNCHANGED << scene, models, mats, editor, save >> /\ EditScene
  BY DEF EditSettings, EditValues
<1>2. TablesKept' /\ SceneKept' /\ Len(mats) <= Len(mats')
  BY <1>1, TablesTyped DEF FilesInv, TablesKept, SceneKept
<1>. QED
  BY <1>1, <1>2, EditKeeps

(* A material looks different, and is otherwise what it was.                 *)
LEMMA Painted ==
  ASSUME FilesInv, NEW m \in DOMAIN mats, EditMaterial(m)
  PROVE  /\ EditScene /\ UNCHANGED << scene, models, editor, save >>
         /\ SoundMaterials(mats') /\ Len(mats') = Len(mats) /\ DOMAIN mats' = DOMAIN mats
         /\ \A j \in DOMAIN mats : mats'[j].refs = mats[j].refs /\ mats'[j].name = mats[j].name
<1>1. EditScene /\ UNCHANGED << scene, models, editor, save >>
  BY DEF EditMaterial, EditValues
<1>2. PICK v : v # Odd /\ mats' = [mats EXCEPT ![m].look = v]
  BY SceneAssumption DEF EditMaterial
<1>3. PICK t : t = mats' /\ t = [mats EXCEPT ![m].look = v]
  BY <1>2
<1>4. /\ SoundMaterials(mats) /\ Len(mats) \in Nat /\ DOMAIN mats = 1 .. Len(mats)
  BY TablesTyped DEF FilesInv, TablesKept
<1>5. ASSUME NEW j \in DOMAIN mats
      PROVE  SoundMaterial(t[j]) /\ t[j].refs = mats[j].refs /\ t[j].name = mats[j].name
  <2>1. PICK f : f = mats[j] /\ SoundMaterial(f)
    BY <1>4 DEF SoundMaterials
  <2>2. PICK a, b, l, x : f = [name |-> a, refs |-> b, look |-> l, texture |-> x]
    BY <2>1 DEF SoundMaterial
  <2>3. x # Odd
    BY <2>1, <2>2 DEF SoundMaterial
  <2>4. CASE j = m
    <3>1. t[j] = [f EXCEPT !.look = v]
      BY <1>3, <2>1, <2>4
    <3>2. t[j] = [name |-> a, refs |-> b, look |-> v, texture |-> x]
      BY <2>2, <3>1
    <3>. QED
      BY <1>2, <2>1, <2>2, <2>3, <3>2 DEF SoundMaterial
  <2>5. CASE j # m
    BY <1>3, <2>1, <2>5
  <2>. QED
    BY <2>4, <2>5
<1>6. t = [j \in 1 .. Len(mats) |-> t[j]] /\ DOMAIN t = DOMAIN mats
  BY <1>3, <1>4
<1>7. t \in Seq(Range(t)) /\ Len(t) = Len(mats)
  BY <1>4, <1>6, ListIs
<1>8. SoundMaterials(t)
  BY <1>5, <1>6, <1>7 DEF SoundMaterials
<1>. QED
  BY <1>1, <1>3, <1>5, <1>6, <1>7, <1>8

LEMMA EditMaterialKeeps ==
  ASSUME FilesInv, NEW m \in DOMAIN mats, EditMaterial(m)
  PROVE  FilesInv'
<1>1. UNCHANGED << scene, models, editor, save >> /\ EditScene
  BY Painted
<1>2. SoundMaterials(mats') /\ Len(mats') = Len(mats)
  BY Painted
<1>3. TablesKept' /\ SceneKept' /\ Len(mats) <= Len(mats')
  BY <1>1, <1>2, TablesTyped DEF FilesInv, TablesKept, SceneKept
<1>. QED
  BY <1>1, <1>3, EditKeeps

(* A new entity refers to no other, so it closes no circle of parents.       *)
LEMMA DropModelKeeps ==
  ASSUME FilesInv, NEW source, DropModel(source)
  PROVE  FilesInv'
<1>1. /\ Len(mats) \in Nat /\ Len(models) \in Nat /\ DOMAIN models = 1 .. Len(models)
      /\ models \in Seq(Range(models)) /\ 1 <= Len(models)
  BY TablesTyped DEF FilesInv, TablesKept
<1>2. SoundScene(scene, Len(models), Len(mats))
  BY DEF FilesInv, SceneKept
<1>3. PICK cached : cached = CachedModel(models, source)
  OBVIOUS
<1>4. cached \in 0 .. Len(models)
  BY <1>1, <1>3 DEF CachedModel
<1>5. PICK handle : /\ handle = IF cached # 0 THEN cached ELSE Len(models) + 1
                    /\ scene' = Append(scene, NewEntity(source, handle, TRUE))
  BY <1>3 DEF DropModel
<1>6. /\ models' \in Seq(Range(models')) /\ Len(models') \in Nat
      /\ Len(models) <= Len(models') /\ handle \in 0 .. Len(models')
  <2>1. CASE cached # 0
    <3>1. models' = models
      BY <1>3, <2>1 DEF DropModel
    <3>. QED
      BY <1>1, <1>4, <1>5, <2>1, <3>1
  <2>2. CASE cached = 0
    <3>1. PICK m : models' = Append(models, m)
      BY <1>3, <2>2 DEF DropModel
    <3>2. /\ Append(models, m) \in Seq(Range(models) \cup {m})
          /\ Len(Append(models, m)) = Len(models) + 1
      <4>1. models \in Seq(Range(models) \cup {m})
        BY <1>1
      <4>. QED
        BY <4>1
    <3>3. models' \in Seq(Range(models'))
      BY <3>1, <3>2, Ranged
    <3>. QED
      BY <1>1, <1>5, <2>2, <3>1, <3>2, <3>3
  <2>. QED
    BY <2>1, <2>2
<1>7. PICK e : e = NewEntity(source, handle, TRUE)
  OBVIOUS
<1>8. SoundScene(scene, Len(models'), Len(mats))
  BY <1>1, <1>2, <1>6, StillSound
<1>9. SoundEntity(e, Len(models'), Len(mats)) /\ e.parent = 0
  <2>1. 0 \in 0 .. Len(models') /\ 0 \in 0 .. Len(mats)
    BY <1>1, <1>6
  <2>2. e = [name |-> source, place |-> 0, parent |-> 0, streamed |-> TRUE, model |-> handle,
             over |-> 0, slots |-> {}, field |-> 0, inst |-> 0, plain |-> << >>, lifetime |-> None]
    BY <1>7 DEF NewEntity
  <2>3. /\ e.name = source /\ e.place = 0 /\ e.parent = 0 /\ e.streamed = TRUE /\ e.model = handle
        /\ e.over = 0 /\ e.slots = {} /\ e.field = 0 /\ e.inst = 0 /\ e.plain = << >>
        /\ e.lifetime = None
    BY <2>2
  <2>4. DOMAIN e.plain = {}
    BY <2>3
  <2>. QED
    BY <1>6, <2>1, <2>2, <2>3, <2>4, FS_EmptySet DEF SoundEntity
<1>10. PICK t : t = scene' /\ t = Append(scene, e)
  BY <1>5, <1>7
<1>11. /\ Len(scene) \in Nat /\ DOMAIN scene = 1 .. Len(scene)
       /\ t \in Seq(Range(t)) /\ DOMAIN t = 1 .. Len(scene) + 1
       /\ t[Len(scene) + 1] = e /\ \A i \in DOMAIN scene : t[i] = scene[i]
  <2>1. scene \in Seq(Range(scene) \cup {e})
    BY <1>2 DEF SoundScene
  <2>2. Append(scene, e) \in Seq(Range(scene) \cup {e})
    BY <2>1
  <2>. QED
    <3>1. /\ Len(scene) \in Nat /\ DOMAIN scene = 1 .. Len(scene)
          /\ DOMAIN Append(scene, e) = 1 .. Len(scene) + 1
          /\ Append(scene, e)[Len(scene) + 1] = e
          /\ \A i \in DOMAIN scene : Append(scene, e)[i] = scene[i]
      BY <2>1
    <3>2. t \in Seq(Range(t))
      BY <1>10, <2>2, Ranged
    <3>. QED
      BY <1>10, <3>1, <3>2
<1>12. \A i \in DOMAIN t : i \in DOMAIN scene \/ i = Len(scene) + 1
  BY <1>11
<1>13. ParentsSound(t)
  <2>1. \A x \in Range(t) : x.parent \in DOMAIN t \cup {0}
    <3>1. \A i \in DOMAIN scene : scene[i].parent \in DOMAIN scene \cup {0}
      BY <1>2 DEF SoundScene, ParentsSound, Range
    <3>2. DOMAIN scene \subseteq DOMAIN t
      BY <1>11
    <3>. QED
      BY <1>9, <1>11, <1>12, <3>1, <3>2 DEF Range
  <2>2. ASSUME NEW group \in SUBSET DOMAIN t \ {{}}
        PROVE  \E i \in group : t[i].parent \notin group
    <3>1. CASE Len(scene) + 1 \in group
      <4>1. 0 \notin group
        BY <1>11
      <4>. QED
        BY <1>9, <1>11, <3>1, <4>1
    <3>2. CASE Len(scene) + 1 \notin group
      <4>1. group \in SUBSET DOMAIN scene \ {{}}
        BY <1>12, <3>2
      <4>2. PICK i \in group : scene[i].parent \notin group
        BY <1>2, <4>1 DEF SoundScene, ParentsSound
      <4>. QED
        BY <1>11, <4>1, <4>2
    <3>. QED
      BY <3>1, <3>2
  <2>. QED
    BY <2>1, <2>2 DEF ParentsSound
<1>14. SoundScene(t, Len(models'), Len(mats))
  <2>1. \A i \in DOMAIN t : SoundEntity(t[i], Len(models'), Len(mats))
    BY <1>8, <1>9, <1>11, <1>12 DEF SoundScene
  <2>. QED
    BY <1>11, <1>13, <2>1 DEF SoundScene
<1>15. UNCHANGED << mats, editor, save >> /\ EditScene
  BY DEF DropModel
<1>16. TablesKept' /\ SceneKept'
  BY <1>1, <1>6, <1>10, <1>14, <1>15 DEF FilesInv, TablesKept, SceneKept
<1>. QED
  BY <1>1, <1>15, <1>16, EditKeeps

(* The copy's reference is the override's in the end, its entity otherwise as *)
(* it was.                                                                   *)
LEMMA OverrideSlotKeeps ==
  ASSUME FilesInv, NEW i \in DOMAIN scene, OverrideSlot(i)
  PROVE  FilesInv'
<1>1. /\ Len(mats) \in Nat /\ DOMAIN mats = 1 .. Len(mats) /\ Len(models) \in Nat
      /\ mats \in Seq(Range(mats)) /\ SoundMaterials(mats)
  BY TablesTyped DEF FilesInv, TablesKept, SoundMaterials
<1>2. SoundScene(scene, Len(models), Len(mats))
  BY DEF FilesInv, SceneKept
<1>3. PICK of, copy : of = MaterialsOf(models, scene[i].model) /\ copy = Len(mats) + 1
  OBVIOUS
<1>4. PICK slots : slots = {s \in scene[i].slots : s.of # of} \cup {[of |-> of, slot |-> 1, mat |-> copy]}
  OBVIOUS
<1>5. PICK edited : edited = [scene EXCEPT ![i].slots = slots]
  OBVIOUS
<1>6. PICK m : m = [name |-> None, refs |-> 1, look |-> count.edits, texture |-> NoSource]
  OBVIOUS
<1>7. PICK made : made = Append(mats, m)
  OBVIOUS
<1>8. /\ scene' = edited
      /\ mats' = Released(Overridden(made, scene, edited), OneOf(made, {copy}))
  BY <1>3, <1>4, <1>5, <1>6, <1>7 DEF OverrideSlot
<1>9. SoundMaterial(m)
  <2>1. count.edits \in Nat
    BY DEF FilesInv, EditorKept
  <2>2. m.name = None /\ m.refs = 1 /\ m.look = count.edits /\ m.texture = NoSource
    BY <1>6
  <2>3. m.look # Odd /\ m.texture # Odd
    BY <2>1, <2>2, SceneAssumption
  <2>. QED
    BY <1>6, <2>2, <2>3 DEF SoundMaterial
<1>10. SoundMaterials(made) /\ Len(made) = Len(mats) + 1
  <2>1. mats \in Seq(Range(mats) \cup {m})
    BY <1>1
  <2>2. /\ Append(mats, m) \in Seq(Range(mats) \cup {m}) /\ DOMAIN Append(mats, m) = 1 .. Len(mats) + 1
        /\ Append(mats, m)[Len(mats) + 1] = m /\ Len(Append(mats, m)) = Len(mats) + 1
        /\ \A j \in DOMAIN mats : Append(mats, m)[j] = mats[j]
    BY <2>1
  <2>3. made \in Seq(Range(made))
    BY <1>7, <2>2, Ranged
  <2>4. \A j \in 1 .. Len(mats) + 1 : j \in DOMAIN mats \/ j = Len(mats) + 1
    BY <1>1
  <2>5. \A j \in DOMAIN made : SoundMaterial(made[j])
    BY <1>1, <1>7, <1>9, <2>2, <2>4 DEF SoundMaterials
  <2>. QED
    BY <1>7, <2>2, <2>3, <2>5 DEF SoundMaterials
<1>11. SoundMaterials(mats') /\ Len(mats') = Len(mats) + 1
  <2>1. PICK t : t = Overridden(made, scene, edited) /\ SoundMaterials(t) /\ Len(t) = Len(mats) + 1
    BY <1>10, OverriddenSound
  <2>. QED
    BY <1>8, <2>1, RefsOnly
<1>12. SoundScene(scene, Len(models), Len(mats) + 1)
  BY <1>1, <1>2, StillSound
<1>13. ASSUME NEW j \in DOMAIN scene
       PROVE  /\ SoundEntity(edited[j], Len(models), Len(mats) + 1)
              /\ edited[j].parent = scene[j].parent
  <2>1. PICK e : e = scene[j] /\ SoundEntity(e, Len(models), Len(mats) + 1)
    BY <1>12 DEF SoundScene
  <2>2. CASE j = i
    <3>1. edited[j] = [e EXCEPT !.slots = slots]
      BY <1>5, <2>1, <2>2
    <3>2. edited[j] = [name |-> e.name, place |-> e.place, parent |-> e.parent, streamed |-> e.streamed,
                       model |-> e.model, over |-> e.over, slots |-> slots, field |-> e.field,
                       inst |-> e.inst, plain |-> e.plain, lifetime |-> e.lifetime]
      BY <2>1, <3>1 DEF SoundEntity
    <3>3. copy \in 0 .. Len(mats) + 1
      BY <1>1, <1>3
    <3>4. \A s \in slots : s \in e.slots \/ s.mat = copy
      BY <1>4, <2>1, <2>2
    <3>5. {e.over, e.inst} \cup {s.mat : s \in slots} \subseteq 0 .. Len(mats) + 1
      BY <2>1, <3>3, <3>4 DEF SoundEntity
    <3>7. IsFiniteSet(slots)
      <4>1. PICK S : S = {s \in e.slots : s.of # of} /\ IsFiniteSet(S)
        BY <2>1, FS_Subset DEF SoundEntity
      <4>2. PICK x : x = [of |-> of, slot |-> 1, mat |-> copy]
        OBVIOUS
      <4>3. slots = S \cup {x}
        BY <1>4, <2>1, <2>2, <4>1, <4>2
      <4>. QED
        BY <4>1, <4>3, FS_AddElement
    <3>6. SoundEntity(edited[j], Len(models), Len(mats) + 1)
      BY <2>1, <3>2, <3>5, <3>7 DEF SoundEntity
    <3>. QED
      BY <2>1, <3>2, <3>6
  <2>3. CASE j # i
    BY <1>5, <2>1, <2>3
  <2>. QED
    BY <2>2, <2>3
<1>14. SoundScene(edited, Len(models), Len(mats) + 1)
  <2>1. edited = [j \in DOMAIN scene |-> edited[j]]
    BY <1>5
  <2>2. scene \in Seq(Range(scene)) /\ ParentsSound(scene)
    BY <1>2 DEF SoundScene
  <2>. QED
    BY <1>13, <2>1, <2>2, ChangedSound
<1>15. EditScene /\ UNCHANGED << models, editor, save >>
  BY DEF OverrideSlot
<1>16. TablesKept' /\ SceneKept' /\ Len(mats) <= Len(mats')
  <2>1. Len(GameMaterials) \in Nat /\ Len(GameMaterials) <= Len(mats)
    BY TablesTyped DEF FilesInv, TablesKept
  <2>. QED
    BY <1>1, <1>8, <1>11, <1>14, <1>15, <2>1 DEF FilesInv, TablesKept, SceneKept
<1>. QED
  BY <1>15, <1>16, EditKeeps

(* Nobody is under the entity that goes, so parents stay within the scene.   *)
LEMMA DeleteKeeps ==
  ASSUME FilesInv, Delete
  PROVE  FilesInv'
<1>1. SoundScene(scene, Len(models), Len(mats))
  BY DEF FilesInv, SceneKept
<1>2. scene \in Seq(Range(scene)) /\ Len(scene) \in Nat /\ DOMAIN scene = 1 .. Len(scene)
  BY <1>1 DEF SoundScene
<1>3. PICK t : t = scene' /\ t = Front(scene)
  BY DEF Delete
<1>4. /\ t = [i \in 1 .. Len(scene) - 1 |-> t[i]] /\ Len(scene) - 1 \in Nat
      /\ \A i \in 1 .. Len(scene) - 1 : t[i] = scene[i]
  <2>1. Len(scene) > 1
    BY DEF Delete
  <2>2. PICK s : s = scene /\ s \in Seq(Range(scene)) /\ Len(s) > 1 /\ t = SubSeq(s, 1, Len(s) - 1)
    BY <1>2, <1>3, <2>1 DEF Front
  <2>3. /\ SubSeq(s, 1, Len(s) - 1) \in Seq(Range(scene)) /\ Len(SubSeq(s, 1, Len(s) - 1)) = Len(s) - 1
        /\ \A i \in 1 .. Len(s) - 1 : SubSeq(s, 1, Len(s) - 1)[i] = s[i]
    BY <2>2
  <2>. QED
    BY <2>2, <2>3
<1>5. t \in Seq(Range(t)) /\ DOMAIN t = 1 .. Len(scene) - 1
  BY <1>4, ListIs
<1>6. ParentsSound(t)
  <2>1. ASSUME NEW i \in DOMAIN t PROVE t[i].parent \in DOMAIN t \cup {0}
    <3>1. i \in DOMAIN scene /\ t[i] = scene[i]
      BY <1>2, <1>4, <1>5
    <3>2. scene[i].parent \in DOMAIN scene \cup {0} /\ scene[i].parent # Len(scene)
      BY <1>1, <3>1 DEF SoundScene, ParentsSound, Range, Delete
    <3>. QED
      BY <1>2, <1>5, <3>1, <3>2
  <2>2. \A group \in SUBSET DOMAIN t \ {{}} : \E i \in group : t[i].parent \notin group
    <3>1. DOMAIN t \subseteq DOMAIN scene
      BY <1>2, <1>4, <1>5
    <3>. QED
      BY <1>1, <1>4, <1>5, <3>1 DEF SoundScene, ParentsSound
  <2>. QED
    BY <2>1, <2>2 DEF ParentsSound, Range
<1>7. SoundScene(t, Len(models), Len(mats))
  <2>1. \A i \in DOMAIN t : i \in DOMAIN scene /\ t[i] = scene[i]
    BY <1>2, <1>4, <1>5
  <2>. QED
    BY <1>1, <1>5, <1>6, <2>1 DEF SoundScene
<1>8. SoundMaterials(mats') /\ Len(mats') = Len(mats)
  BY OverriddenSound DEF FilesInv, TablesKept, Delete
<1>9. EditScene /\ UNCHANGED << models, editor, save >>
  BY DEF Delete
<1>10. TablesKept' /\ SceneKept' /\ Len(mats) <= Len(mats')
  BY <1>3, <1>7, <1>8, <1>9, TablesTyped DEF FilesInv, TablesKept, SceneKept
<1>. QED
  BY <1>9, <1>10, EditKeeps

LEMMA FirstTables ==
  /\ FirstModels \in Seq(Range(FirstModels)) /\ Len(FirstModels) = 1
  /\ SoundMaterials(GameMaterials) /\ SoundScene(Populated, 1, Len(GameMaterials))
  /\ Len(GameMaterials) \in Nat
<1>1. FirstModels \in Seq({FirstModels[1]}) /\ Len(FirstModels) = 1
  BY DEF FirstModels
<1>. QED
  BY <1>1, Ranged, SceneAssumption DEF SoundMaterials

(* The materials without a name, each once, and where each is made again.    *)
LEMMA UnnamedOnce ==
  /\ Len(Unnamed) \in Nat /\ DOMAIN Unnamed = 1 .. Len(Unnamed)
  /\ Range(Unnamed) = {m \in DOMAIN GameMaterials : GameMaterials[m].name = None}
  /\ \A k \in DOMAIN Unnamed : Unnamed[k] \in Range(Unnamed)
  /\ \A i, j \in DOMAIN Unnamed : Unnamed[i] = Unnamed[j] => i = j
<1>1. PICK N : N = {m \in DOMAIN GameMaterials : GameMaterials[m].name = None}
  OBVIOUS
<1>2. IsFiniteSet(N)
  <2>1. DOMAIN GameMaterials = 1 .. Len(GameMaterials) /\ Len(GameMaterials) \in Nat
    BY FirstTables DEF SoundMaterials
  <2>2. IsFiniteSet(DOMAIN GameMaterials) /\ N \in SUBSET DOMAIN GameMaterials
    BY <1>1, <2>1, FS_Interval
  <2>. QED
    BY <2>2, FS_Subset
<1>3. /\ Unnamed \in Seq(N) /\ Range(Unnamed) = N
      /\ \A i, j \in DOMAIN Unnamed : Unnamed[i] = Unnamed[j] => i = j
  <2>1. Unnamed = SetToSeq(N)
    BY <1>1 DEF Unnamed
  <2>. QED
    BY <1>2, <2>1, ListOf
<1>4. Len(Unnamed) \in Nat /\ DOMAIN Unnamed = 1 .. Len(Unnamed)
  BY <1>3
<1>. QED
  BY <1>1, <1>3, <1>4 DEF Range

LEMMA AnewMade ==
  ASSUME TablesKept
  PROVE  /\ SoundMaterials(MadeAnew) /\ Len(MadeAnew) = Len(mats) + Len(Unnamed)
         /\ DOMAIN MadeAnew = 1 .. Len(mats) + Len(Unnamed)
         /\ \A m \in DOMAIN mats : /\ MadeAnew[m].name = mats[m].name
                                   /\ MadeAnew[m].refs = mats[m].refs
         /\ \A k \in DOMAIN Unnamed : /\ MadeAnew[Len(mats) + k].name = None
                                      /\ MadeAnew[Len(mats) + k].refs = 1
<1>1. /\ Len(mats) \in Nat /\ DOMAIN mats = 1 .. Len(mats) /\ SoundMaterials(mats)
      /\ Len(Unnamed) \in Nat /\ DOMAIN Unnamed = 1 .. Len(Unnamed)
      /\ SoundMaterials(GameMaterials)
  BY TablesTyped, UnnamedOnce, FirstTables DEF TablesKept
<1>2. PICK old : old = [m \in DOMAIN mats |->
                          IF m \in DOMAIN GameMaterials \ Range(Unnamed)
                          THEN [mats[m] EXCEPT !.look = GameMaterials[m].look, !.texture = GameMaterials[m].texture]
                          ELSE mats[m]]
  OBVIOUS
<1>3. PICK new : new = [k \in DOMAIN Unnamed |-> [GameMaterials[Unnamed[k]] EXCEPT !.refs = 1]]
  OBVIOUS
<1>4. MadeAnew = old \o new
  BY <1>2, <1>3 DEF MadeAnew
<1>5. ASSUME NEW m \in DOMAIN mats
      PROVE  /\ SoundMaterial(old[m]) /\ old[m].name = mats[m].name
             /\ old[m].refs = mats[m].refs
  <2>1. SoundMaterial(mats[m])
    BY <1>1 DEF SoundMaterials
  <2>2. CASE m \in DOMAIN GameMaterials \ Range(Unnamed)
    <3>1. SoundMaterial(GameMaterials[m])
      BY <1>1, <2>2 DEF SoundMaterials
    <3>2. PICK a, b, l, x : mats[m] = [name |-> a, refs |-> b, look |-> l, texture |-> x]
      BY <2>1 DEF SoundMaterial
    <3>3. PICK look, texture : /\ look = GameMaterials[m].look /\ texture = GameMaterials[m].texture
                               /\ look # Odd /\ texture # Odd
      BY <3>1 DEF SoundMaterial
    <3>4. old[m] = [mats[m] EXCEPT !.look = GameMaterials[m].look, !.texture = GameMaterials[m].texture]
      BY <1>2, <2>2
    <3>5. old[m] = [name |-> a, refs |-> b, look |-> look, texture |-> texture]
      <4>1. PICK f : f = mats[m]
        OBVIOUS
      <4>2. old[m] = [f EXCEPT !.look = look, !.texture = texture]
        BY <3>3, <3>4, <4>1
      <4>3. f = [name |-> a, refs |-> b, look |-> l, texture |-> x]
        BY <3>2, <4>1
      <4>. QED
        BY <4>2, <4>3
    <3>. QED
      BY <3>2, <3>3, <3>5 DEF SoundMaterial
  <2>3. CASE m \notin DOMAIN GameMaterials \ Range(Unnamed)
    BY <1>2, <2>1, <2>3
  <2>. QED
    BY <2>2, <2>3
<1>6. ASSUME NEW k \in DOMAIN Unnamed
      PROVE  SoundMaterial(new[k]) /\ new[k].name = None /\ new[k].refs = 1
  <2>1. PICK m : m = Unnamed[k] /\ m \in DOMAIN GameMaterials /\ GameMaterials[m].name = None
    BY UnnamedOnce
  <2>2. SoundMaterial(GameMaterials[m])
    BY <1>1, <2>1 DEF SoundMaterials
  <2>3. PICK b, l, x : GameMaterials[m] = [name |-> None, refs |-> b, look |-> l, texture |-> x]
    BY <2>1, <2>2 DEF SoundMaterial
  <2>4. l # Odd /\ x # Odd
    BY <2>2, <2>3 DEF SoundMaterial
  <2>5. new[k] = [GameMaterials[m] EXCEPT !.refs = 1]
    BY <1>3, <2>1
  <2>6. new[k] = [name |-> None, refs |-> 1, look |-> l, texture |-> x]
    BY <2>3, <2>5
  <2>. QED
    BY <2>4, <2>6 DEF SoundMaterial
<1>7. /\ old \in Seq(Range(old)) /\ Len(old) = Len(mats)
      /\ new \in Seq(Range(new)) /\ Len(new) = Len(Unnamed)
  <2>1. old = [m \in 1 .. Len(mats) |-> old[m]] /\ new = [k \in 1 .. Len(Unnamed) |-> new[k]]
    BY <1>1, <1>2, <1>3
  <2>. QED
    BY <1>1, <2>1, ListIs
<1>8. PICK made : made = MadeAnew
  OBVIOUS
<1>9. /\ made \in Seq(Range(made)) /\ Len(made) = Len(mats) + Len(Unnamed)
      /\ DOMAIN made = 1 .. Len(mats) + Len(Unnamed)
      /\ \A m \in DOMAIN mats : made[m] = old[m]
      /\ \A k \in DOMAIN Unnamed : made[Len(mats) + k] = new[k]
  <2>4. PICK X : X = Range(old) \cup Range(new)
    OBVIOUS
  <2>5. Range(old) \subseteq X /\ Range(new) \subseteq X
    BY <2>4
  <2>1. old \in Seq(X) /\ new \in Seq(X)
    BY <1>7, <2>5
  <2>2. /\ old \o new \in Seq(X) /\ Len(old \o new) = Len(old) + Len(new)
        /\ DOMAIN (old \o new) = 1 .. Len(old) + Len(new)
        /\ \A m \in 1 .. Len(old) : (old \o new)[m] = old[m]
        /\ \A k \in 1 .. Len(new) : (old \o new)[Len(old) + k] = new[k]
    BY <2>1
  <2>3. made \in Seq(Range(made))
    BY <1>4, <1>8, <2>2, Ranged
  <2>. QED
    BY <1>1, <1>4, <1>7, <1>8, <2>2, <2>3
<1>10. \A m \in DOMAIN made : m \in DOMAIN mats \/ \E k \in DOMAIN Unnamed : m = Len(mats) + k
  <2> SUFFICES ASSUME NEW m \in DOMAIN made, m \notin DOMAIN mats
               PROVE  \E k \in DOMAIN Unnamed : m = Len(mats) + k
    OBVIOUS
  <2>1. m - Len(mats) \in DOMAIN Unnamed /\ m = Len(mats) + (m - Len(mats))
    BY <1>1, <1>9
  <2>. QED
    BY <2>1
<1>11. \A m \in DOMAIN made : SoundMaterial(made[m])
  BY <1>5, <1>6, <1>9, <1>10
<1>. QED
  BY <1>5, <1>6, <1>8, <1>9, <1>11 DEF SoundMaterials

(* What an entity of the game shows now: no material, a named one that was there *)
(* from the start, or one that was made anew.                                *)
LEMMA ShownThere ==
  ASSUME TablesKept, NEW m \in 0 .. Len(GameMaterials)
  PROVE  \/ ShownNow(m) = 0
         \/ ShownNow(m) = m /\ m \in DOMAIN GameMaterials /\ GameMaterials[m].name # None
         \/ \E k \in DOMAIN Unnamed : ShownNow(m) = Len(mats) + k
<1>1. DOMAIN GameMaterials = 1 .. Len(GameMaterials) /\ Len(GameMaterials) \in Nat
  BY FirstTables DEF SoundMaterials
<1>2. CASE m \in Range(Unnamed)
  <2>1. IndexOf(Unnamed, m) \in DOMAIN Unnamed
    BY <1>2, IndexIn
  <2>. QED
    BY <1>2, <2>1 DEF ShownNow
<1>3. CASE m \notin Range(Unnamed)
  <2>1. ShownNow(m) = m
    BY <1>3 DEF ShownNow
  <2>2. m = 0 \/ m \in DOMAIN GameMaterials
    BY <1>1
  <2>. QED
    BY <1>3, <2>1, <2>2, UnnamedOnce
<1>. QED
  BY <1>2, <1>3

LEMMA EntitiesAnewSound ==
  ASSUME TablesKept
  PROVE  SoundScene(EntitiesAnew, Len(models), Len(mats) + Len(Unnamed))
<1>1. /\ Len(mats) \in Nat /\ Len(models) \in Nat /\ 1 <= Len(models) /\ Len(Unnamed) \in Nat
      /\ DOMAIN Unnamed = 1 .. Len(Unnamed)
      /\ Len(GameMaterials) \in Nat /\ Len(GameMaterials) <= Len(mats)
      /\ DOMAIN GameMaterials = 1 .. Len(GameMaterials)
  BY TablesTyped, UnnamedOnce, FirstTables DEF TablesKept, SoundMaterials
<1>2. PICK n, k : n = Len(models) /\ k = Len(mats) + Len(Unnamed) /\ n \in Nat /\ k \in Nat
  BY <1>1
<1>3. SoundScene(Populated, n, Len(GameMaterials)) /\ SoundScene(Populated, n, k)
  <2>1. SoundScene(Populated, n, Len(GameMaterials))
    BY <1>1, <1>2, FirstTables, StillSound
  <2>2. Len(GameMaterials) <= k
    BY <1>1, <1>2
  <2>3. SoundScene(Populated, n, k)
    BY <1>1, <1>2, <2>1, <2>2, StillSound
  <2>. QED
    BY <2>1, <2>3
<1>4. \A m \in 0 .. Len(GameMaterials) : ShownNow(m) \in 0 .. k
  <2> SUFFICES ASSUME NEW m \in 0 .. Len(GameMaterials) PROVE ShownNow(m) \in 0 .. k
    OBVIOUS
  <2>1. PICK x : x = ShownNow(m)
    OBVIOUS
  <2>2. x = 0 \/ (x = m /\ m \in DOMAIN GameMaterials) \/ \E j \in DOMAIN Unnamed : x = Len(mats) + j
    BY <2>1, ShownThere
  <2>3. x \in 0 .. k
    BY <1>1, <1>2, <2>2
  <2>. QED
    BY <2>1, <2>3
<1>5. PICK t : t = EntitiesAnew
  OBVIOUS
<1>6. /\ t = [i \in DOMAIN Populated |-> t[i]]
      /\ \A i \in DOMAIN Populated :
           t[i] = [Populated[i] EXCEPT !.over = ShownNow(@), !.inst = ShownNow(@)]
  BY <1>5 DEF EntitiesAnew
<1>7. ASSUME NEW i \in DOMAIN Populated
      PROVE  SoundEntity(t[i], n, k) /\ t[i].parent = Populated[i].parent
  <2>1. PICK e : e = Populated[i] /\ SoundEntity(e, n, k)
    BY <1>3 DEF SoundScene
  <2>2. {e.over, e.inst} \subseteq 0 .. Len(GameMaterials)
    BY <1>3, <2>1 DEF SoundScene, SoundEntity
  <2>3. PICK over, inst : /\ over = ShownNow(e.over) /\ inst = ShownNow(e.inst)
                          /\ over \in 0 .. k /\ inst \in 0 .. k
    BY <1>4, <2>2
  <2>4. t[i] = [e EXCEPT !.over = over, !.inst = inst]
    BY <1>6, <2>1, <2>3
  <2>5. t[i] = [name |-> e.name, place |-> e.place, parent |-> e.parent, streamed |-> e.streamed,
                model |-> e.model, over |-> over, slots |-> e.slots, field |-> e.field,
                inst |-> inst, plain |-> e.plain, lifetime |-> e.lifetime]
    BY <2>1, <2>4 DEF SoundEntity
  <2>6. {over, inst} \cup {s.mat : s \in e.slots} \subseteq 0 .. k
    BY <2>1, <2>3 DEF SoundEntity
  <2>7. SoundEntity(t[i], n, k)
    BY <2>1, <2>5, <2>6 DEF SoundEntity
  <2>. QED
    BY <2>1, <2>5, <2>7
<1>8. SoundScene(t, n, k)
  <2>1. Populated \in Seq(Range(Populated)) /\ ParentsSound(Populated)
    BY <1>3 DEF SoundScene
  <2>2. t = [i \in DOMAIN Populated |-> t[i]]
    BY <1>6
  <2>. QED
    BY <1>7, <2>1, <2>2, ChangedSound
<1>. QED
  BY <1>2, <1>5, <1>8

LEMMA MaterialsAnewSound ==
  ASSUME TablesKept
  PROVE  SoundMaterials(MaterialsAnew) /\ Len(MaterialsAnew) = Len(mats) + Len(Unnamed)
<1>1. PICK a : /\ a = Released(MadeAnew, UsesOf(MadeAnew, scene))
               /\ SoundMaterials(a) /\ Len(a) = Len(mats) + Len(Unnamed)
  BY AnewMade, RefsOnly
<1>2. PICK b : /\ b = Retained(a, UsesOf(MadeAnew, EntitiesAnew))
               /\ SoundMaterials(b) /\ Len(b) = Len(mats) + Len(Unnamed)
  BY <1>1, RefsOnly
<1>3. PICK c : /\ c = Released(b, OneOf(MadeAnew, Len(mats) + 1 .. Len(MadeAnew)))
               /\ SoundMaterials(c) /\ Len(c) = Len(mats) + Len(Unnamed)
  BY <1>2, RefsOnly
<1>4. c = MaterialsAnew
  BY <1>1, <1>2, <1>3 DEF MaterialsAnew
<1>. QED
  BY <1>3, <1>4

(* The game's own scene names only what there was from the start and what was made *)
(* for it.                                                                   *)
LEMMA PopulateAgainKeeps ==
  ASSUME FilesInv, PopulateAgain
  PROVE  FilesInv'
<1>1. /\ SoundMaterials(mats) /\ Len(mats) \in Nat /\ Len(models) \in Nat /\ 1 <= Len(models)
      /\ Len(GameMaterials) \in Nat /\ Len(GameMaterials) <= Len(mats)
  BY TablesTyped DEF FilesInv, TablesKept
<1>2. /\ SoundMaterials(mats') /\ Len(mats') = Len(mats) + Len(Unnamed)
      /\ Len(Unnamed) \in Nat /\ Len(mats') \in Nat /\ Len(mats) <= Len(mats')
  <2>1. mats' = MaterialsAnew /\ TablesKept
    BY DEF PopulateAgain, FilesInv
  <2>2. SoundMaterials(mats') /\ Len(mats') = Len(mats) + Len(Unnamed) /\ Len(Unnamed) \in Nat
    BY <2>1, MaterialsAnewSound, UnnamedOnce
  <2>. QED
    BY <1>1, <2>2
<1>3. TablesKept'
  <2>1. UNCHANGED models
    BY DEF PopulateAgain
  <2>. QED
    BY <1>1, <1>2, <2>1 DEF FilesInv, TablesKept
<1>4. SceneKept'
  <2>1. TablesKept
    BY DEF FilesInv
  <2>2. SoundScene(EntitiesAnew, Len(models), Len(mats) + Len(Unnamed))
    BY <2>1, EntitiesAnewSound
  <2>3. scene' = EntitiesAnew /\ models' = models
    BY DEF PopulateAgain
  <2>. QED
    BY <1>2, <2>2, <2>3 DEF SceneKept
<1>5. EditorKept'
  <2>1. PICK clean : editor' = [editor EXCEPT !.path = None, !.pack = None, !.clean = clean]
    BY DEF PopulateAgain
  <2>2. editor' = [path |-> None, pack |-> None, next |-> editor.next, pending |-> editor.pending,
                   naming |-> editor.naming, clean |-> clean]
    BY <2>1 DEF FilesInv, EditorKept
  <2>3. count' = [edits |-> count.edits + 1, opens |-> count.opens, saves |-> count.saves]
    BY DEF FilesInv, EditorKept, EditScene, PopulateAgain
  <2>4. /\ editor'.path = None /\ editor'.pack = None /\ editor'.next = editor.next
        /\ editor'.pending = editor.pending /\ editor'.naming = editor.naming /\ editor'.clean = clean
    BY <2>2
  <2>5. /\ count'.edits = count.edits + 1 /\ count'.opens = count.opens /\ count'.saves = count.saves
    BY <2>3
  <2>6. count.edits + 1 \in Nat /\ {editor.next, editor.pending} \subseteq Files \cup {None}
    BY DEF FilesInv, EditorKept
  <2>. QED
    BY <2>2, <2>3, <2>4, <2>5, <2>6 DEF EditorKept
<1>6. SaveKept'
  <2>1. CASE save = None
    BY <2>1 DEF SaveKept, PopulateAgain
  <2>2. CASE save # None
    <3>1. save' = [save EXCEPT !.from = NoSource]
      BY <2>2 DEF PopulateAgain
    <3>2. save' = [path |-> save.path, stage |-> save.stage, scene |-> save.scene,
                   clean |-> save.clean, pack |-> save.pack, file |-> save.file,
                   plain |-> save.plain, from |-> NoSource]
      BY <2>2, <3>1 DEF FilesInv, SaveKept
    <3>. QED
      BY <2>2, <3>2 DEF FilesInv, SaveKept
  <2>. QED
    BY <2>1, <2>2
<1>7. LoadKept'
  BY <1>1, <1>2, LoadStays DEF FilesInv, PopulateAgain, EditScene
<1>8. DiskKept'
  BY DEF FilesInv, DiskKept, PopulateAgain, EditScene
<1>. QED
  BY <1>3, <1>4, <1>5, <1>6, <1>7, <1>8 DEF FilesInv

-----------------------------------------------------------------------------
(* Opening and saving.                                                       *)

LEMMA EditorStays ==
  ASSUME EditorKept, count' = count, editor' = editor
  PROVE  EditorKept'
BY DEF EditorKept

(* An editor whose members are still there, with a path to open next or none. *)
EditorLike(e) ==
  /\ e = [path |-> e.path, pack |-> e.pack, next |-> e.next, pending |-> e.pending,
          naming |-> e.naming, clean |-> e.clean]
  /\ {e.next, e.pending} \subseteq Files \cup {None}

LEMMA EditorsLike ==
  ASSUME NEW e, EditorLike(e)
  PROVE  /\ \A x : EditorLike([e EXCEPT !.naming = x])
         /\ \A x \in Files \cup {None} : EditorLike([e EXCEPT !.pending = x])
         /\ \A x, y, z, f : f = [e EXCEPT !.path = x, !.clean = y, !.next = None, !.pack = z] => EditorLike(f)
         /\ EditorLike([e EXCEPT !.next = None])
         /\ \A f : f = [e EXCEPT !.next = e.pending, !.pending = None] => EditorLike(f)
<1>1. PICK p, q, n, g, m, c : e = [path |-> p, pack |-> q, next |-> n, pending |-> g,
                                   naming |-> m, clean |-> c]
  BY DEF EditorLike
<1>2. n \in Files \cup {None} /\ g \in Files \cup {None}
  BY <1>1 DEF EditorLike
<1>3. ASSUME NEW a, NEW b, NEW h, NEW i, NEW j, NEW k, {h, i} \subseteq Files \cup {None}
      PROVE  EditorLike([path |-> a, pack |-> b, next |-> h, pending |-> i, naming |-> j, clean |-> k])
  BY <1>3 DEF EditorLike
<1>4. ASSUME NEW x PROVE EditorLike([e EXCEPT !.naming = x])
  <2>1. [e EXCEPT !.naming = x] = [path |-> p, pack |-> q, next |-> n, pending |-> g, naming |-> x, clean |-> c]
    BY <1>1
  <2>. QED
    BY <1>2, <1>3, <2>1
<1>5. ASSUME NEW x \in Files \cup {None} PROVE EditorLike([e EXCEPT !.pending = x])
  <2>1. [e EXCEPT !.pending = x] = [path |-> p, pack |-> q, next |-> n, pending |-> x, naming |-> m, clean |-> c]
    BY <1>1
  <2>. QED
    BY <1>2, <1>3, <2>1
<1>6. ASSUME NEW x, NEW y, NEW z, NEW f,
             f = [e EXCEPT !.path = x, !.clean = y, !.next = None, !.pack = z]
      PROVE  EditorLike(f)
  <2>1. f = [path |-> x, pack |-> z, next |-> None, pending |-> g, naming |-> m, clean |-> y]
    BY <1>1, <1>6
  <2>. QED
    BY <1>2, <1>3, <2>1
<1>7. EditorLike([e EXCEPT !.next = None])
  <2>1. [e EXCEPT !.next = None] = [path |-> p, pack |-> q, next |-> None, pending |-> g, naming |-> m, clean |-> c]
    BY <1>1
  <2>. QED
    BY <1>2, <1>3, <2>1
<1>8. ASSUME NEW f, f = [e EXCEPT !.next = e.pending, !.pending = None]
      PROVE  EditorLike(f)
  <2>1. f = [path |-> p, pack |-> q, next |-> g, pending |-> None, naming |-> m, clean |-> c]
    BY <1>1, <1>8
  <2>. QED
    BY <1>2, <1>3, <2>1
<1>. QED
  BY <1>4, <1>5, <1>6, <1>7, <1>8

LEMMA CountsKeep ==
  ASSUME EditorKept, EditorLike(editor'),
         \/ count' = count
         \/ count' = [count EXCEPT !.opens = @ + 1]
         \/ count' = [count EXCEPT !.saves = @ + 1]
  PROVE  EditorKept'
<1>1. PICK e, o, s : count = [edits |-> e, opens |-> o, saves |-> s]
  BY DEF EditorKept
<1>2. e \in Nat
  BY <1>1 DEF EditorKept
<1>3. \E x, y : count' = [edits |-> e, opens |-> x, saves |-> y]
  BY <1>1
<1>4. count' = [edits |-> count'.edits, opens |-> count'.opens, saves |-> count'.saves] /\ count'.edits \in Nat
  BY <1>2, <1>3
<1>. QED
  BY <1>4 DEF EditorKept, EditorLike

LEMMA StartOpenKeeps ==
  ASSUME LoadKept, NEW f \in Files, StartOpen(f)
  PROVE  LoadKept'
<1>1. load' = [path |-> f, stage |-> "opening", table |-> None, read |-> None,
               streaming |-> {}, deferred |-> {}]
  BY DEF StartOpen
<1>2. /\ load'.path = f /\ load'.stage = "opening" /\ load'.table = None /\ load'.read = None
      /\ load'.streaming = {} /\ load'.deferred = {}
  BY <1>1
<1>. QED
  BY <1>1, <1>2, FS_EmptySet DEF LoadKept, FewSlots

LEMMA CapturedIsWhole ==
  ASSUME FilesInv, SettingsKept
  PROVE  WholeScene(Captured)
BY CapturedWhole DEF FilesInv, TablesKept, SceneKept, SettingsKept, Captured

LEMMA StartSaveKeeps ==
  ASSUME FilesInv, SettingsKept, NEW f, NEW e, EditorLike(e), NEW plain, StartSave(f, e, plain)
  PROVE  FilesInv'
<1>1. TablesKept' /\ SceneKept' /\ DiskKept' /\ LoadKept'
  BY DEF StartSave, FilesInv, TablesKept, SceneKept, DiskKept, LoadKept
<1>2. EditorLike(editor')
  BY EditorsLike DEF StartSave
<1>3. count' = count \/ count' = [count EXCEPT !.saves = @ + 1]
  BY DEF StartSave
<1>4. EditorKept'
  BY <1>2, <1>3, CountsKeep DEF FilesInv
<1>5. SaveKept'
  <2>1. CASE save' = save
    BY <2>1 DEF FilesInv, SaveKept
  <2>2. CASE save' # save
    <3>1. PICK captured : captured = Captured /\ WholeScene(captured)
      BY CapturedIsWhole
    <3>2. save' = [path |-> f, stage |-> "cooking", scene |-> captured, clean |-> Fingerprint,
                   pack |-> editor.pack, file |-> None, plain |-> plain, from |-> origin]
      BY <2>2, <3>1 DEF StartSave
    <3>3. /\ save'.path = f /\ save'.stage = "cooking" /\ save'.scene = captured
          /\ save'.clean = Fingerprint /\ save'.pack = editor.pack /\ save'.file = None
          /\ save'.plain = plain /\ save'.from = origin
      BY <3>2
    <3>. QED
      BY <3>1, <3>2, <3>3 DEF SaveKept
  <2>. QED
    BY <2>1, <2>2
<1>. QED
  BY <1>1, <1>4, <1>5 DEF FilesInv

LEMMA SavingKeeps ==
  ASSUME FilesInv, SettingsKept,
         \/ PressSave \/ PressSaveAs
         \/ \E f \in Files : ConfirmSaveAs(f)
         \/ \E name \in Files \cup {None} : PromptSave(name)
  PROVE  FilesInv'
<1>1. EditorLike(editor)
  BY DEF FilesInv, EditorKept, EditorLike
<1>2. ASSUME PressSave PROVE FilesInv'
  BY <1>1, <1>2, StartSaveKeeps DEF PressSave
<1>3. ASSUME PressSaveAs PROVE FilesInv'
  BY <1>1, <1>3, StartSaveKeeps DEF PressSaveAs
<1>4. ASSUME NEW f \in Files, ConfirmSaveAs(f) PROVE FilesInv'
  BY <1>1, <1>4, EditorsLike, StartSaveKeeps DEF ConfirmSaveAs
<1>5. ASSUME NEW name, PromptSave(name) PROVE FilesInv'
  BY <1>1, <1>5, EditorsLike, StartSaveKeeps DEF PromptSave
<1>. QED
  BY <1>2, <1>3, <1>4, <1>5

LEMMA ClosedKeeps ==
  ASSUME FilesInv, NEW e, EditorLike(e), Closed(e),
         \/ UNCHANGED << load, leaked, count >>
         \/ \E f \in Files : StartOpen(f)
  PROVE  FilesInv'
<1>1. TablesKept' /\ SceneKept' /\ DiskKept' /\ SaveKept'
  BY DEF Closed, FilesInv, TablesKept, SceneKept, DiskKept, SaveKept
<1>2. EditorKept'
  <2>1. EditorLike(editor') /\ (count' = count \/ count' = [count EXCEPT !.opens = @ + 1])
    BY DEF Closed, StartOpen
  <2>. QED
    BY <2>1, CountsKeep DEF FilesInv
<1>3. LoadKept'
  <2>1. ASSUME NEW f \in Files, StartOpen(f) PROVE LoadKept'
    <3>1. UNCHANGED mats
      BY DEF Closed
    <3>. QED
      BY <2>1, StartOpenKeeps DEF FilesInv
  <2>2. ASSUME UNCHANGED << load, leaked, count >> PROVE LoadKept'
    BY <2>2 DEF Closed, FilesInv, LoadKept
  <2>. QED
    BY <2>1, <2>2
<1>. QED
  BY <1>1, <1>2, <1>3 DEF FilesInv

LEMMA OpeningKeeps ==
  ASSUME FilesInv, \/ \E f \in Files : RequestOpen(f)
                   \/ CancelSaveAs \/ PromptDiscard \/ PromptCancel
  PROVE  FilesInv'
<1>1. EditorLike(editor)
  BY DEF FilesInv, EditorKept, EditorLike
<1>2. ASSUME NEW f \in Files, RequestOpen(f) PROVE FilesInv'
  <2>1. CASE Dirty
    BY <1>1, <1>2, <2>1, EditorsLike, ClosedKeeps DEF RequestOpen
  <2>2. CASE ~ Dirty
    BY <1>1, <1>2, <2>2, ClosedKeeps DEF RequestOpen
  <2>. QED
    BY <2>1, <2>2
<1>3. ASSUME CancelSaveAs PROVE FilesInv'
  BY <1>1, <1>3, EditorsLike, ClosedKeeps DEF CancelSaveAs
<1>4. ASSUME PromptDiscard PROVE FilesInv'
  <2>1. editor.pending \in Files
    BY <1>1, <1>4 DEF EditorLike, PromptDiscard
  <2>. QED
    BY <1>1, <1>4, <2>1, EditorsLike, ClosedKeeps DEF PromptDiscard
<1>5. ASSUME PromptCancel PROVE FilesInv'
  BY <1>1, <1>5, EditorsLike, ClosedKeeps DEF PromptCancel
<1>. QED
  BY <1>2, <1>3, <1>4, <1>5

-----------------------------------------------------------------------------
(* The two jobs, on their threads and on the render thread.                  *)

(* Nothing but the jobs and the files changes.                               *)
LEMMA BackgroundKeeps ==
  ASSUME FilesInv, Background
  PROVE  TablesKept' /\ SceneKept' /\ EditorKept'
BY DEF Background, FilesInv, TablesKept, SceneKept, EditorKept

LEMMA SaveCooksKeeps ==
  ASSUME FilesInv, SaveCooks
  PROVE  FilesInv'
<1>1. save # None
  BY DEF SaveCooks
<1>2. PICK assets : save' = [save EXCEPT !.stage = "writing",
                                         !.file = Container("scene", EncodeScene(save.scene), assets)]
  BY DEF SaveCooks, Cooked
<1>3. PICK file : file = Container("scene", EncodeScene(save.scene), assets) /\ WholeFile(file)
  BY <1>1, WrittenWhole DEF FilesInv, SaveKept
<1>4. save' = [save EXCEPT !.stage = "writing", !.file = file]
  BY <1>2, <1>3
<1>5. save' = [path |-> save.path, stage |-> "writing", scene |-> save.scene,
               clean |-> save.clean, pack |-> save.pack, file |-> file,
               plain |-> save.plain, from |-> save.from]
  BY <1>1, <1>4 DEF FilesInv, SaveKept
<1>6. /\ save'.path = save.path /\ save'.stage = "writing" /\ save'.scene = save.scene
      /\ save'.clean = save.clean /\ save'.pack = save.pack /\ save'.file = file
      /\ save'.plain = save.plain /\ save'.from = save.from
  BY <1>5
<1>7. SaveKept'
  BY <1>1, <1>3, <1>5, <1>6 DEF FilesInv, SaveKept
<1>8. TablesKept' /\ SceneKept' /\ EditorKept' /\ LoadKept' /\ DiskKept'
  BY BackgroundKeeps DEF SaveCooks, Background, FilesInv, LoadKept, DiskKept
<1>. QED
  BY <1>7, <1>8 DEF FilesInv

(* A file is what it was, or the whole temporary that took its place.        *)
LEMMA SaveReplacesKeeps ==
  ASSUME FilesInv, SaveReplaces
  PROVE  FilesInv'
<1>1. save # None /\ save.stage = "writing" /\ WholeFile(save.file)
  BY DEF SaveReplaces, FilesInv, SaveKept
<1>2. DiskKept'
  <2>1. disk' = [disk EXCEPT ![save.path] = save.file]
    BY DEF SaveReplaces
  <2>2. \A f \in Files : disk'[f] = disk[f] \/ disk'[f] = save.file
    BY <2>1 DEF FilesInv, DiskKept
  <2>. QED
    BY <1>1, <2>1, <2>2 DEF FilesInv, DiskKept
<1>3. SaveKept'
  <2>1. save' = [save EXCEPT !.stage = "saved"]
    BY DEF SaveReplaces
  <2>2. save' = [path |-> save.path, stage |-> "saved", scene |-> save.scene,
                 clean |-> save.clean, pack |-> save.pack, file |-> save.file,
                 plain |-> save.plain, from |-> save.from]
    BY <1>1, <2>1 DEF FilesInv, SaveKept
  <2>. QED
    BY <1>1, <2>2 DEF FilesInv, SaveKept
<1>4. TablesKept' /\ SceneKept' /\ EditorKept' /\ LoadKept'
  BY BackgroundKeeps DEF SaveReplaces, Background, FilesInv, LoadKept
<1>. QED
  BY <1>2, <1>3, <1>4 DEF FilesInv

LEMMA SaveFailsKeeps ==
  ASSUME FilesInv, SaveFails
  PROVE  FilesInv'
<1>1. save # None
  BY DEF SaveFails
<1>2. SaveKept'
  <2>1. save' = [save EXCEPT !.stage = "failed"]
    BY DEF SaveFails
  <2>2. save' = [path |-> save.path, stage |-> "failed", scene |-> save.scene,
                 clean |-> save.clean, pack |-> save.pack, file |-> save.file,
                 plain |-> save.plain, from |-> save.from]
    BY <1>1, <2>1 DEF FilesInv, SaveKept
  <2>. QED
    BY <1>1, <2>2 DEF FilesInv, SaveKept
<1>3. TablesKept' /\ SceneKept' /\ EditorKept' /\ LoadKept' /\ DiskKept'
  BY BackgroundKeeps DEF SaveFails, Background, FilesInv, LoadKept, DiskKept
<1>. QED
  BY <1>2, <1>3 DEF FilesInv

(* What a load becomes with another stage, table and result.                 *)
LEMMA LoadBecomes ==
  ASSUME FilesInv, load # NoLoad, UNCHANGED mats, NEW stage, NEW table, NEW read,
         load' = [path |-> load.path, stage |-> stage, table |-> table, read |-> read,
                  streaming |-> load.streaming, deferred |-> load.deferred],
         stage = "reading" => WholeFile(table),
         stage = "read" /\ read.error = None => WholeScene(read.scene)
  PROVE  LoadKept'
<1>1. /\ load'.path = load.path /\ load'.stage = stage /\ load'.table = table /\ load'.read = read
      /\ load'.streaming = load.streaming /\ load'.deferred = load.deferred
  OBVIOUS
<1>. QED
  BY <1>1 DEF FilesInv, LoadKept

LEMMA LoadOpensKeeps ==
  ASSUME FilesInv, LoadOpens
  PROVE  FilesInv'
<1>1. load # NoLoad /\ load.path \in Files
  BY DEF LoadOpens, FilesInv, LoadKept
<1>2. UNCHANGED mats
  BY DEF LoadOpens, Background
<1>3. LoadKept'
  <2>1. CASE OpenError(disk[load.path]) # None
    <3>1. PICK read : read = [error |-> OpenError(disk[load.path])]
      OBVIOUS
    <3>2. read.error # None
      BY <2>1, <3>1
    <3>3. load' = [load EXCEPT !.stage = "read", !.read = read]
      BY <2>1, <3>1 DEF LoadOpens
    <3>4. load' = [path |-> load.path, stage |-> "read", table |-> load.table, read |-> read,
                   streaming |-> load.streaming, deferred |-> load.deferred]
      BY <1>1, <3>3 DEF FilesInv, LoadKept
    <3>. QED
      BY <1>1, <1>2, <3>2, <3>4, LoadBecomes
  <2>2. CASE OpenError(disk[load.path]) = None
    <3>1. WholeFile(disk[load.path])
      BY <1>1, <2>2, SceneAssumption DEF OpenError, FilesInv, DiskKept
    <3>2. load' = [load EXCEPT !.stage = "reading", !.table = disk[load.path]]
      BY <2>2 DEF LoadOpens
    <3>3. load' = [path |-> load.path, stage |-> "reading", table |-> disk[load.path], read |-> load.read,
                   streaming |-> load.streaming, deferred |-> load.deferred]
      BY <1>1, <3>2 DEF FilesInv, LoadKept
    <3>. QED
      BY <1>1, <1>2, <3>1, <3>3, LoadBecomes
  <2>. QED
    BY <2>1, <2>2
<1>4. TablesKept' /\ SceneKept' /\ EditorKept' /\ SaveKept' /\ DiskKept'
  BY BackgroundKeeps DEF LoadOpens, Background, FilesInv, SaveKept, DiskKept
<1>. QED
  BY <1>3, <1>4 DEF FilesInv

LEMMA LoadReadsKeeps ==
  ASSUME FilesInv, LoadReads
  PROVE  FilesInv'
<1>1. load # NoLoad /\ load.stage = "reading" /\ WholeFile(load.table)
  BY DEF LoadReads, FilesInv, LoadKept
<1>2. UNCHANGED mats
  BY DEF LoadReads, Background
<1>3. PICK decoded : decoded = Decoded(load.table.scene) /\ WholeScene(decoded)
  BY <1>1 DEF WholeFile
<1>4. LoadKept'
  <2>1. PICK read : read = IF disk[load.path] # load.table THEN [error |-> "checksum_mismatch"]
                           ELSE [error |-> ReadError(load.table, decoded), scene |-> decoded]
    OBVIOUS
  <2>2. read.error = None => read.scene = decoded
    BY <2>1, SceneAssumption
  <2>3. load' = [load EXCEPT !.stage = "read", !.read = read]
    BY <1>3, <2>1 DEF LoadReads
  <2>4. load' = [path |-> load.path, stage |-> "read", table |-> load.table, read |-> read,
                 streaming |-> load.streaming, deferred |-> load.deferred]
    BY <1>1, <2>3 DEF FilesInv, LoadKept
  <2>. QED
    BY <1>1, <1>2, <1>3, <2>2, <2>4, LoadBecomes
<1>5. TablesKept' /\ SceneKept' /\ EditorKept' /\ SaveKept' /\ DiskKept'
  BY BackgroundKeeps DEF LoadReads, Background, FilesInv, SaveKept, DiskKept
<1>. QED
  BY <1>4, <1>5 DEF FilesInv

LEMMA ModelSettlesKeeps ==
  ASSUME FilesInv, NEW h \in DOMAIN models, ModelSettles(h)
  PROVE  FilesInv'
<1>1. PICK state : models' = [models EXCEPT ![h].state = state]
  BY DEF ModelSettles
<1>2. /\ models \in Seq(Range(models)) /\ Len(models) \in Nat /\ DOMAIN models = 1 .. Len(models)
      /\ 1 <= Len(models)
  BY TablesTyped DEF FilesInv, TablesKept
<1>3. models' \in Seq(Range(models')) /\ Len(models') = Len(models)
  <2>1. models' = [i \in 1 .. Len(models) |-> models'[i]]
    BY <1>1, <1>2
  <2>2. PICK t : t = models'
    OBVIOUS
  <2>. QED
    BY <1>2, <2>1, <2>2, ListIs
<1>4. UNCHANGED << scene, mats, editor, save, load, disk, count >>
  BY DEF ModelSettles
<1>5. TablesKept' /\ SceneKept'
  BY <1>2, <1>3, <1>4 DEF FilesInv, TablesKept, SceneKept
<1>6. EditorKept' /\ SaveKept' /\ LoadKept' /\ DiskKept'
  BY <1>4 DEF FilesInv, EditorKept, SaveKept, LoadKept, DiskKept
<1>. QED
  BY <1>5, <1>6 DEF FilesInv

LEMMA UpdateSaveKeeps ==
  ASSUME FilesInv, UpdateSave
  PROVE  FilesInv'
<1>1. EditorLike(editor)
  BY DEF FilesInv, EditorKept, EditorLike
<1>2. TablesKept' /\ SceneKept' /\ DiskKept' /\ SaveKept'
  BY DEF UpdateSave, FilesInv, TablesKept, SceneKept, DiskKept, SaveKept
<1>3. EditorKept'
  <2>1. EditorLike(editor')
    <3>1. PICK pack, clean : pack = [path |-> save.path, table |-> disk[save.path]] /\ clean = CleanSince
      OBVIOUS
    <3>2. \/ editor' = [editor EXCEPT !.next = None]
          \/ editor' = [editor EXCEPT !.path = save.path, !.clean = clean, !.next = None, !.pack = pack]
      BY <3>1 DEF UpdateSave
    <3>3. PICK path, f : path = save.path /\ f = editor'
      OBVIOUS
    <3>4. \/ f = [editor EXCEPT !.next = None]
          \/ f = [editor EXCEPT !.path = path, !.clean = clean, !.next = None, !.pack = pack]
      BY <3>2, <3>3
    <3>5. ASSUME f = [editor EXCEPT !.next = None] PROVE EditorLike(f)
      BY <1>1, <3>5, EditorsLike
    <3>6. ASSUME f = [editor EXCEPT !.path = path, !.clean = clean, !.next = None, !.pack = pack]
          PROVE  EditorLike(f)
      <4>1. PICK e : e = editor /\ EditorLike(e)
        BY <1>1
      <4>2. f = [e EXCEPT !.path = path, !.clean = clean, !.next = None, !.pack = pack]
        BY <3>6, <4>1
      <4>. QED
        BY <4>1, <4>2, EditorsLike
    <3>. QED
      BY <3>3, <3>4, <3>5, <3>6
  <2>2. count' = count \/ count' = [count EXCEPT !.opens = @ + 1]
    BY DEF UpdateSave, StartOpen
  <2>. QED
    BY <2>1, <2>2, CountsKeep DEF FilesInv
<1>4. LoadKept'
  <2>1. UNCHANGED load \/ \E f \in Files : StartOpen(f)
    BY <1>1 DEF UpdateSave, EditorLike
  <2>2. UNCHANGED mats
    BY DEF UpdateSave
  <2>3. ASSUME UNCHANGED load PROVE LoadKept'
    BY <2>2, <2>3 DEF FilesInv, LoadKept
  <2>. QED
    BY <2>1, <2>3, StartOpenKeeps DEF FilesInv
<1>. QED
  BY <1>2, <1>3, <1>4 DEF FilesInv

LEMMA LoadFailedKeeps ==
  ASSUME FilesInv, LoadFailed, UNCHANGED << save, disk, leaked, count >>
  PROVE  FilesInv'
BY DEF LoadFailed, FilesInv, TablesKept, SceneKept, EditorKept, SaveKept, LoadKept, DiskKept

LEMMA LoadStreamsKeeps ==
  ASSUME FilesInv, load # NoLoad, LoadStreams, UNCHANGED << save, disk, leaked, count >>
  PROVE  FilesInv'
<1>1. PICK now : /\ now = [scene |-> scene, models |-> models, mats |-> mats, load |-> load]
                 /\ Progressed(Applied(now))
  BY DEF LoadStreams
<1>2. now.scene = scene /\ now.models = models /\ now.mats = mats /\ now.load = load
  BY <1>1
<1>3. load.stage = "streaming"
  BY DEF LoadStreams
<1>4. SoundNow(now)
  BY <1>2, <1>3 DEF SoundNow, FilesInv, TablesKept, SceneKept, LoadKept
<1>5. SoundNow(Applied(now))
  BY <1>4, OverridesArrive
<1>6. PICK then : then = Applied(now) /\ SoundNow(then) /\ Progressed(then)
  BY <1>1, <1>5
<1>. QED
  BY <1>6, ProgressKeeps

(* A scene takes the place of the old one, with its models and materials.    *)
LEMMA ReplacedSound ==
  ASSUME FilesInv, load # NoLoad, NEW d, WholeScene(d), NEW resolved, resolved = ResolvedModels(d.models),
         NEW made, made = MadeMaterials(d),
         NEW entities, entities = EntitiesMade(d, resolved, made),
         NEW deferred, deferred = Deferred(d, resolved, made, entities),
         NEW now, now = Replaced(resolved, made, entities, deferred)
  PROVE  /\ SoundNow(now) /\ FewSlots(deferred)
         /\ SoundScene(entities, Len(resolved.models), Len(made.mats))
         /\ now.scene = entities /\ now.models = resolved.models /\ now.load.deferred = deferred
<1>3. PICK n, k : n = Len(resolved.models) /\ k = Len(made.mats)
  OBVIOUS
<1>4. /\ resolved.models \in Seq(Range(resolved.models)) /\ Len(models) <= n
      /\ \A j \in DOMAIN d.models : resolved.handles[j] \in 1 .. n
  <2>1. PICK files : files = d.models /\ files \in Seq(Range(files))
    BY DEF WholeScene
  <2>. QED
    BY <1>3, <2>1, ModelsResolved DEF FilesInv
<1>5. /\ SoundMaterials(made.mats) /\ Len(mats) <= k
      /\ \A j \in DOMAIN d.materials : made.handles[j] \in 1 .. k
  BY <1>3, MaterialsAreMade DEF FilesInv
<1>6. n \in Nat /\ k \in Nat
  BY <1>3, <1>4, <1>5 DEF SoundMaterials
<1>7. SoundScene(entities, n, k)
  <2>1. NamesThere(d, resolved, made, n, k)
    BY <1>4, <1>5, <1>6 DEF NamesThere
  <2>. QED
    BY <2>1, EntitiesSound
<1>8. \A x \in deferred : \A s \in x.slots : s.mat \in 0 .. k
  <2> SUFFICES ASSUME NEW x \in deferred PROVE \A s \in x.slots : s.mat \in 0 .. k
    OBVIOUS
  <2>1. PICK i \in DOMAIN entities :
          x = [entity |-> i, model |-> entities[i].model, slots |-> SlotsOf(d, made, i)]
    BY DEF Deferred
  <2>2. x.slots = SlotsOf(d, made, i)
    BY <2>1
  <2>. QED
    BY <1>5, <1>6, <2>2, SlotsThere
<1>16. FewSlots(deferred)
  <2> DEFINE of(i) == [entity |-> i, model |-> entities[i].model, slots |-> SlotsOf(d, made, i)]
  <2>1. DOMAIN entities = 1 .. Len(entities) /\ Len(entities) \in Nat
    BY <1>7 DEF SoundScene
  <2>2. IsFiniteSet(DOMAIN entities)
    BY <2>1, FS_Interval
  <2>3. PICK f : f = [i \in DOMAIN entities |-> of(i)]
    OBVIOUS
  <2>7. DOMAIN f = DOMAIN entities
    BY <2>3
  <2>4. IsFiniteSet({f[i] : i \in DOMAIN entities})
    BY <2>2, <2>7, ImageFinite
  <2>5. deferred \in SUBSET {f[i] : i \in DOMAIN entities}
    BY <2>3 DEF Deferred
  <2>6. ASSUME NEW x \in deferred PROVE IsFiniteSet(x.slots)
    <3>1. PICK i \in DOMAIN entities : x = of(i)
      BY <2>3, <2>5
    <3>2. x.slots = SlotsOf(d, made, i)
      BY <3>1
    <3>. QED
      BY <3>2, SlotsFinite DEF WholeScene
  <2>. QED
    BY <2>4, <2>5, <2>6, FS_Subset DEF FewSlots
<1>9. PICK left, by, these :
        /\ left = Released(made.mats, UsesOf(made.mats, scene))
        /\ by = [m \in DOMAIN made.mats |-> Uses(entities, m) + Held(deferred, m)]
        /\ these = OneOf(made.mats, {m \in DOMAIN made.mats : m > Len(mats) /\ made.mats[m].name = None})
  OBVIOUS
<1>10. now = [scene |-> entities, models |-> resolved.models,
              mats |-> Released(Retained(left, by), these),
              load |-> [load EXCEPT !.stage = "streaming", !.read = None,
                                    !.streaming = resolved.streaming, !.deferred = deferred]]
  BY <1>9 DEF Replaced
<1>11. PICK table, job : /\ table = Released(Retained(left, by), these)
                         /\ SoundMaterials(table) /\ Len(table) = k
                         /\ job = [load EXCEPT !.stage = "streaming", !.read = None,
                                               !.streaming = resolved.streaming, !.deferred = deferred]
  <2>1. SoundMaterials(left) /\ Len(left) = k
    BY <1>3, <1>5, <1>9, RefsOnly
  <2>2. SoundMaterials(Retained(left, by)) /\ Len(Retained(left, by)) = k
    BY <2>1, RefsOnly
  <2>3. PICK kept : kept = Retained(left, by)
    OBVIOUS
  <2>4. SoundMaterials(Released(kept, these)) /\ Len(Released(kept, these)) = k
    BY <2>2, <2>3, RefsOnly
  <2>. QED
    BY <2>3, <2>4
<1>12. now.scene = entities /\ now.models = resolved.models /\ now.mats = table /\ now.load = job
  BY <1>10, <1>11
<1>13. /\ job = [path |-> load.path, stage |-> "streaming", table |-> load.table, read |-> None,
                 streaming |-> resolved.streaming, deferred |-> deferred]
       /\ load.path \in Files
  <2>1. PICK streaming : streaming = resolved.streaming
    OBVIOUS
  <2>2. job = [load EXCEPT !.stage = "streaming", !.read = None, !.streaming = streaming, !.deferred = deferred]
    BY <1>11, <2>1
  <2>. QED
    BY <2>1, <2>2 DEF FilesInv, LoadKept
<1>14. SoundNow(now)
  <2>1. /\ job.path = load.path /\ job.stage = "streaming" /\ job.table = load.table
        /\ job.read = None /\ job.streaming = resolved.streaming /\ job.deferred = deferred
    BY <1>13
  <2>2. /\ 1 <= n /\ Len(GameMaterials) <= k
    BY <1>4, <1>5, <1>6, TablesTyped DEF FilesInv, TablesKept
  <2>. QED
    BY <1>3, <1>4, <1>7, <1>8, <1>11, <1>12, <1>13, <1>16, <2>1, <2>2 DEF SoundNow
<1>15. now.load.deferred = deferred
  BY <1>12, <1>13
<1>. QED
  BY <1>3, <1>7, <1>12, <1>14, <1>15, <1>16

LEMMA LoadInstantiatedKeeps ==
  ASSUME FilesInv, load # NoLoad, LoadInstantiated, UNCHANGED << save, disk, leaked, count >>
  PROVE  FilesInv'
<1>1. PICK d : d = load.read.scene /\ WholeScene(d)
  BY DEF LoadInstantiated, FilesInv, LoadKept
<1>2. PICK resolved, made, entities, deferred, now :
        /\ resolved = ResolvedModels(d.models) /\ made = MadeMaterials(d)
        /\ entities = EntitiesMade(d, resolved, made)
        /\ deferred = Deferred(d, resolved, made, entities)
        /\ now = Replaced(resolved, made, entities, deferred)
        /\ Progressed(Applied(now))
  BY <1>1 DEF LoadInstantiated
<1>3. SoundNow(now)
  BY <1>1, <1>2, ReplacedSound
<1>4. PICK then : then = Applied(now) /\ SoundNow(then) /\ Progressed(then)
  BY <1>2, <1>3, OverridesArrive
<1>. QED
  BY <1>4, ProgressKeeps

LEMMA UpdateLoadKeeps ==
  ASSUME FilesInv, UpdateLoad
  PROVE  FilesInv'
BY LoadFailedKeeps, LoadInstantiatedKeeps, LoadStreamsKeeps DEF UpdateLoad

-----------------------------------------------------------------------------
(* The beginning, and the beginning again.                                   *)

LEMMA FirstEditorKept ==
  ASSUME NEW e, e = FirstEditor
  PROVE  EditorLike(e)
<1>1. PICK clean : clean = SceneFingerprint(CaptureScene(Populated, FirstModels, GameMaterials, FirstSettings))
  OBVIOUS
<1>2. e = [path |-> None, pack |-> None, next |-> None, pending |-> None, naming |-> FALSE, clean |-> clean]
  BY <1>1 DEF FirstEditor
<1>. QED
  BY <1>2 DEF EditorLike

LEMMA FirstIsKept == FilesInit => FilesInv
<1> SUFFICES ASSUME FilesInit PROVE FilesInv
  OBVIOUS
<1>1. TablesKept /\ SceneKept
  BY FirstTables DEF FilesInit, TablesKept, SceneKept
<1>2. EditorKept
  <2>1. EditorLike(editor)
    BY FirstEditorKept DEF FilesInit
  <2>2. count = [edits |-> 0, opens |-> 0, saves |-> 0]
    BY DEF FilesInit
  <2>. QED
    BY <2>1, <2>2 DEF EditorLike, EditorKept
<1>3. SaveKept /\ LoadKept
  BY DEF FilesInit, SaveKept, LoadKept
<1>4. DiskKept
  <2>1. WholeFile(EarlierFile)
    <3>1. PICK captured : captured = CaptureScene(Populated, FirstModels, GameMaterials, FirstSettings)
      OBVIOUS
    <3>2. FirstSettings # Odd
      BY SceneAssumption
    <3>3. WholeScene(captured)
      BY <3>1, <3>2, FirstTables, CapturedWhole
    <3>. QED
      BY <3>1, <3>3, WrittenWhole DEF EarlierFile
  <2>. QED
    BY <2>1 DEF FilesInit, DiskKept
<1>. QED
  BY <1>1, <1>2, <1>3, <1>4 DEF FilesInv

LEMMA CrashKeeps ==
  ASSUME FilesInv, Crash
  PROVE  FilesInv'
<1>1. TablesKept' /\ SceneKept'
  BY FirstTables DEF Crash, TablesKept, SceneKept
<1>2. EditorKept'
  <2>1. EditorLike(editor') /\ count' = count
    BY FirstEditorKept DEF Crash
  <2>. QED
    BY <2>1, CountsKeep DEF FilesInv
<1>3. SaveKept' /\ LoadKept' /\ DiskKept'
  BY DEF Crash, FilesInv, SaveKept, LoadKept, DiskKept
<1>. QED
  BY <1>1, <1>2, <1>3 DEF FilesInv

LEMMA UntouchedKeeps ==
  ASSUME FilesInv, UNCHANGED << scene, models, mats, editor, save, load, disk, count >>
  PROVE  FilesInv'
BY DEF FilesInv, TablesKept, SceneKept, EditorKept, SaveKept, LoadKept, DiskKept

(* No panel offers settings that are none of an enumeration's, and no file   *)
(* that is read has such.                                                    *)
LEMMA SettingsStay ==
  ASSUME FilesInv, SettingsKept, [FilesNext]_filesVars
  PROVE  SettingsKept'
<1>1. CASE \/ \E i \in DOMAIN scene : Move(i) \/ EditComponent(i) \/ OverrideSlot(i)
           \/ \E m \in DOMAIN mats : EditMaterial(m)
           \/ \E m \in ModelFiles : DropModel(m)
           \/ Delete \/ PopulateAgain
  BY <1>1 DEF Move, EditComponent, OverrideSlot, EditMaterial, DropModel, Delete, PopulateAgain, SettingsKept
<1>2. CASE EditSettings
  BY <1>2, SceneAssumption DEF EditSettings, SettingsKept
<1>3. CASE \/ PressSave \/ PressSaveAs
           \/ \E f \in Files : ConfirmSaveAs(f)
           \/ \E name \in Files \cup {None} : PromptSave(name)
  <2>1. \E f, e, plain : StartSave(f, e, plain)
    BY <1>3 DEF PressSave, PressSaveAs, ConfirmSaveAs, PromptSave
  <2>. QED
    BY <2>1 DEF StartSave, SettingsKept
<1>4. CASE \/ \E f \in Files : RequestOpen(f)
           \/ CancelSaveAs \/ PromptDiscard \/ PromptCancel
  <2>1. \E e : Closed(e)
    BY <1>4 DEF RequestOpen, CancelSaveAs, PromptDiscard, PromptCancel
  <2>. QED
    BY <2>1 DEF Closed, SettingsKept
<1>5. CASE \/ SaveCooks \/ SaveReplaces \/ SaveFails \/ LoadOpens \/ LoadReads \/ UpdateSave
           \/ \E h \in DOMAIN models : ModelSettles(h)
           \/ UNCHANGED filesVars
  BY <1>5 DEF SaveCooks, SaveReplaces, SaveFails, LoadOpens, LoadReads, Background, UpdateSave,
              ModelSettles, filesVars, SettingsKept
<1>6. CASE UpdateLoad
  <2>1. CASE LoadFailed \/ LoadStreams
    BY <2>1 DEF LoadFailed, LoadStreams, SettingsKept
  <2>2. CASE LoadInstantiated
    <3>1. WholeScene(load.read.scene) /\ settings' = load.read.scene.settings
      BY <1>6, <2>2 DEF UpdateLoad, LoadInstantiated, FilesInv, LoadKept
    <3>. QED
      BY <3>1 DEF WholeScene, EnvironmentReadable, SettingsKept
  <2>. QED
    BY <1>6, <2>1, <2>2 DEF UpdateLoad
<1>7. CASE Crash
  BY <1>7, SceneAssumption DEF Crash, SettingsKept
<1>. QED
  BY <1>1, <1>2, <1>3, <1>4, <1>5, <1>6, <1>7 DEF FilesNext, User

LEMMA FilesInvariant == FilesSpec => [](FilesInv /\ SettingsKept)
<1>1. ASSUME FilesInv, SettingsKept, [FilesNext]_filesVars PROVE FilesInv'
  <2>1. CASE User
    <3>1. CASE \E i \in DOMAIN scene : Move(i) \/ EditComponent(i) \/ OverrideSlot(i)
      BY <1>1, <3>1, ValuesKeep, OverrideSlotKeeps
    <3>2. CASE EditSettings \/ \E m \in DOMAIN mats : EditMaterial(m)
      BY <1>1, <3>2, EditSettingsKeeps, EditMaterialKeeps
    <3>. QED
      BY <1>1, <2>1, <3>1, <3>2, DropModelKeeps, DeleteKeeps, PopulateAgainKeeps,
         SavingKeeps, OpeningKeeps DEF User
  <2>2. CASE SaveCooks \/ SaveReplaces \/ SaveFails
    BY <1>1, <2>2, SaveCooksKeeps, SaveReplacesKeeps, SaveFailsKeeps
  <2>3. CASE LoadOpens \/ LoadReads
    BY <1>1, <2>3, LoadOpensKeeps, LoadReadsKeeps
  <2>4. CASE \E h \in DOMAIN models : ModelSettles(h)
    BY <1>1, <2>4, ModelSettlesKeeps
  <2>5. CASE UpdateSave \/ UpdateLoad
    BY <1>1, <2>5, UpdateSaveKeeps, UpdateLoadKeeps
  <2>6. CASE Crash
    BY <1>1, <2>6, CrashKeeps
  <2>7. CASE UNCHANGED filesVars
    BY <1>1, <2>7, UntouchedKeeps DEF filesVars
  <2>. QED
    BY <1>1, <2>1, <2>2, <2>3, <2>4, <2>5, <2>6, <2>7 DEF FilesNext
<1>2. FilesInit => SettingsKept
  BY SceneAssumption DEF FilesInit, SettingsKept
<1>. QED
  BY <1>1, <1>2, FirstIsKept, SettingsStay, PTL DEF FilesSpec

(* FilesAreWhole for any files, models and edits: whatever was captured,     *)
(* whatever a load or a save met and whenever the program died, every scene  *)
(* file opens, no section of it is refused, every index in it is in range,   *)
(* and validation refuses it only for a number the editor left in the scene  *)
(* (LbfWriter::write_file(), capture_scene(), validate_scene()).             *)
THEOREM FilesStayWhole == FilesSpec => []FilesAreWhole
<1>1. FilesInv => FilesAreWhole
  BY WholeIsRead DEF FilesInv, DiskKept, FilesAreWhole
<1>. QED
  BY <1>1, FilesInvariant, PTL

-----------------------------------------------------------------------------
(* An account of a material: n references, and one more for its name.        *)
Owed(table, m, n) ==
  n \in Nat /\ table[m].refs = n + (IF table[m].name # None THEN 1 ELSE 0)

(* A scene of which every entity has so many slots.                          *)
FewUsed(s) == IsFiniteSet(DOMAIN s) /\ \A i \in DOMAIN s : IsFiniteSet(s[i].slots)

Shows(s, m) == \E i \in DOMAIN s : s[i].over = m \/ \E x \in s[i].slots : x.mat = m
HoldsOf(deferred, m) == \E d \in deferred : \E x \in d.slots : x.mat = m

LEMMA SoundIsFew ==
  ASSUME NEW s, NEW n, NEW k, SoundScene(s, n, k)
  PROVE  FewUsed(s)
<1>1. DOMAIN s = 1 .. Len(s) /\ Len(s) \in Nat
  BY DEF SoundScene
<1>2. IsFiniteSet(DOMAIN s)
  BY <1>1, FS_Interval
<1>. QED
  BY <1>2 DEF FewUsed, SoundScene, SoundEntity

LEMMA PairsFinite ==
  ASSUME NEW S, IsFiniteSet(S), NEW f, DOMAIN f = S, \A x \in S : IsFiniteSet(f[x])
  PROVE  IsFiniteSet(UNION {{x} \X f[x] : x \in S})
<1>1. PICK g : g = [x \in S |-> {x} \X f[x]]
  OBVIOUS
<1>2. IsFiniteSet({g[x] : x \in S})
  <2>1. DOMAIN g = S
    BY <1>1
  <2>. QED
    BY <2>1, ImageFinite
<1>3. \A x \in S : IsFiniteSet(g[x])
  <2> SUFFICES ASSUME NEW x \in S PROVE IsFiniteSet(g[x])
    OBVIOUS
  <2>1. IsFiniteSet({x}) /\ IsFiniteSet(f[x])
    BY FS_Singleton
  <2>2. g[x] = {x} \X f[x]
    BY <1>1
  <2>. QED
    BY <2>1, <2>2, FS_Product
<1>4. IsFiniteSet(UNION {g[x] : x \in S})
  BY <1>2, <1>3, FS_UNION
<1>5. UNION {g[x] : x \in S} = UNION {{x} \X f[x] : x \in S}
  BY <1>1
<1>. QED
  BY <1>4, <1>5

LEMMA UsesFacts ==
  ASSUME NEW s, FewUsed(s), NEW m
  PROVE  Uses(s, m) \in Nat /\ (Uses(s, m) = 0 <=> ~ Shows(s, m))
<1>1. PICK O : O = {i \in DOMAIN s : s[i].over = m} /\ IsFiniteSet(O)
  <2>1. PICK O : O = {i \in DOMAIN s : s[i].over = m} /\ O \in SUBSET DOMAIN s
    OBVIOUS
  <2>2. IsFiniteSet(O)
    BY <2>1, FS_Subset DEF FewUsed
  <2>. QED
    BY <2>1, <2>2
<1>2. PICK f : f = [i \in DOMAIN s |-> {x \in s[i].slots : x.mat = m}]
  OBVIOUS
<1>3. PICK P : P = SlotUses(s, m) /\ P = UNION {{i} \X f[i] : i \in DOMAIN s} /\ IsFiniteSet(P)
  <2>1. SlotUses(s, m) = UNION {{i} \X f[i] : i \in DOMAIN s}
    BY <1>2 DEF SlotUses
  <2>2. DOMAIN f = DOMAIN s /\ IsFiniteSet(DOMAIN s)
    BY <1>2 DEF FewUsed
  <2>3. ASSUME NEW i \in DOMAIN s PROVE IsFiniteSet(f[i])
    <3>1. f[i] \in SUBSET s[i].slots /\ IsFiniteSet(s[i].slots)
      BY <1>2 DEF FewUsed
    <3>. QED
      BY <3>1, FS_Subset
  <2>4. IsFiniteSet(UNION {{i} \X f[i] : i \in DOMAIN s})
    BY <2>2, <2>3, PairsFinite
  <2>. QED
    BY <2>1, <2>4
<1>4. Uses(s, m) = Cardinality(O) + Cardinality(P)
  BY <1>1, <1>3 DEF Uses
<1>5. Cardinality(O) \in Nat /\ Cardinality(P) \in Nat
  BY <1>1, <1>3, FS_CardinalityType
<1>6. (Cardinality(O) = 0 <=> O = {}) /\ (Cardinality(P) = 0 <=> P = {})
  BY <1>1, <1>3, FS_EmptySet
<1>7. O = {} /\ P = {} <=> ~ Shows(s, m)
  <2>1. ASSUME NEW i \in DOMAIN s, NEW x \in s[i].slots, x.mat = m PROVE << i, x >> \in P
    BY <1>2, <1>3, <2>1
  <2>2. ASSUME NEW p \in P PROVE Shows(s, m)
    <3>1. PICK i \in DOMAIN s : p \in {i} \X f[i]
      BY <1>3
    <3>2. p[2] \in s[i].slots /\ p[2].mat = m
      BY <1>2, <3>1
    <3>. QED
      BY <3>2 DEF Shows
  <2>3. ASSUME NEW i \in O PROVE Shows(s, m)
    BY <1>1 DEF Shows
  <2>4. ASSUME O = {}, P = {} PROVE ~ Shows(s, m)
    BY <1>1, <2>1, <2>4 DEF Shows
  <2>. QED
    BY <2>2, <2>3, <2>4
<1>. QED
  BY <1>4, <1>5, <1>6, <1>7

LEMMA UsesAlike ==
  ASSUME NEW s, NEW t, NEW m, DOMAIN s \subseteq DOMAIN t,
         \A i \in DOMAIN s : t[i].over = s[i].over /\ t[i].slots = s[i].slots,
         \A i \in DOMAIN t : i \in DOMAIN s \/ (t[i].over # m /\ t[i].slots = {})
  PROVE  Uses(t, m) = Uses(s, m)
<1>1. {i \in DOMAIN t : t[i].over = m} = {i \in DOMAIN s : s[i].over = m}
  OBVIOUS
<1>2. SlotUses(t, m) = SlotUses(s, m)
  <2>1. ASSUME NEW p \in SlotUses(t, m) PROVE p \in SlotUses(s, m)
    <3>1. PICK i \in DOMAIN t : p \in {i} \X {x \in t[i].slots : x.mat = m}
      BY DEF SlotUses
    <3>2. i \in DOMAIN s
      BY <3>1
    <3>3. p \in {i} \X {x \in s[i].slots : x.mat = m}
      BY <3>1, <3>2
    <3>. QED
      BY <3>2, <3>3 DEF SlotUses
  <2>2. ASSUME NEW p \in SlotUses(s, m) PROVE p \in SlotUses(t, m)
    <3>1. PICK i \in DOMAIN s : p \in {i} \X {x \in s[i].slots : x.mat = m}
      BY DEF SlotUses
    <3>2. i \in DOMAIN t /\ p \in {i} \X {x \in t[i].slots : x.mat = m}
      BY <3>1
    <3>. QED
      BY <3>2 DEF SlotUses
  <2>. QED
    BY <2>1, <2>2
<1>. QED
  BY <1>1, <1>2 DEF Uses

LEMMA HeldFacts ==
  ASSUME NEW D, FewSlots(D), NEW m
  PROVE  /\ IsFiniteSet(SlotsHeld(D, m)) /\ Held(D, m) \in Nat
         /\ Held(D, m) = 0 <=> ~ HoldsOf(D, m)
<1>1. PICK f : f = [d \in D |-> {x \in d.slots : x.mat = m}]
  OBVIOUS
<1>2. PICK P : P = SlotsHeld(D, m) /\ P = UNION {{d} \X f[d] : d \in D} /\ IsFiniteSet(P)
  <2>1. SlotsHeld(D, m) = UNION {{d} \X f[d] : d \in D}
    BY <1>1 DEF SlotsHeld
  <2>2. DOMAIN f = D /\ IsFiniteSet(D)
    BY <1>1 DEF FewSlots
  <2>3. ASSUME NEW d \in D PROVE IsFiniteSet(f[d])
    <3>1. f[d] \in SUBSET d.slots /\ IsFiniteSet(d.slots)
      BY <1>1 DEF FewSlots
    <3>. QED
      BY <3>1, FS_Subset
  <2>4. IsFiniteSet(UNION {{d} \X f[d] : d \in D})
    BY <2>2, <2>3, PairsFinite
  <2>. QED
    BY <2>1, <2>4
<1>3. Cardinality(P) \in Nat /\ (Cardinality(P) = 0 <=> P = {})
  BY <1>2, FS_CardinalityType, FS_EmptySet
<1>4. P = {} <=> ~ HoldsOf(D, m)
  <2>1. ASSUME NEW d \in D, NEW x \in d.slots, x.mat = m PROVE << d, x >> \in P
    BY <1>1, <1>2, <2>1
  <2>2. ASSUME NEW p \in P PROVE HoldsOf(D, m)
    <3>1. PICK d \in D : p \in {d} \X f[d]
      BY <1>2
    <3>2. p[2] \in d.slots /\ p[2].mat = m
      BY <1>1, <3>1
    <3>. QED
      BY <3>2 DEF HoldsOf
  <2>. QED
    BY <2>1, <2>2 DEF HoldsOf
<1>. QED
  BY <1>2, <1>3, <1>4 DEF Held

LEMMA HeldSplit ==
  ASSUME NEW D, NEW E, FewSlots(D), FewSlots(E), \A x \in D : x \notin E, NEW m
  PROVE  Held(D \cup E, m) = Held(D, m) + Held(E, m)
<1>1. PICK P, Q : /\ P = SlotsHeld(D, m) /\ Q = SlotsHeld(E, m)
                  /\ IsFiniteSet(P) /\ IsFiniteSet(Q)
  BY HeldFacts
<1>2. SlotsHeld(D \cup E, m) = P \cup Q
  <2>1. \A p : p \in SlotsHeld(D \cup E, m) <=> \E d \in D \cup E : p \in {d} \X {x \in d.slots : x.mat = m}
    BY DEF SlotsHeld
  <2>2. \A p : p \in P <=> \E d \in D : p \in {d} \X {x \in d.slots : x.mat = m}
    BY <1>1 DEF SlotsHeld
  <2>3. \A p : p \in Q <=> \E d \in E : p \in {d} \X {x \in d.slots : x.mat = m}
    BY <1>1 DEF SlotsHeld
  <2>4. \A p : p \in SlotsHeld(D \cup E, m) <=> p \in P \/ p \in Q
    BY <2>1, <2>2, <2>3, Zenon
  <2>. QED
    BY <2>4
<1>3. P \cap Q = {}
  <2> SUFFICES ASSUME NEW p \in P, p \in Q PROVE FALSE
    OBVIOUS
  <2>1. PICK d \in D : p \in {d} \X {x \in d.slots : x.mat = m}
    BY <1>1 DEF SlotsHeld
  <2>2. PICK e \in E : p \in {e} \X {x \in e.slots : x.mat = m}
    BY <1>1 DEF SlotsHeld
  <2>3. p[1] = d /\ p[1] = e
    BY <2>1, <2>2
  <2>. QED
    BY <2>3
<1>4. Cardinality(P \cup Q) = Cardinality(P) + Cardinality(Q) - Cardinality(P \cap Q)
  BY <1>1, FS_Union
<1>5. Cardinality(P) \in Nat /\ Cardinality(Q) \in Nat /\ Cardinality(P \cap Q) = 0
  BY <1>1, <1>3, FS_CardinalityType, FS_EmptySet
<1>6. /\ Held(D \cup E, m) = Cardinality(P \cup Q)
      /\ Held(D, m) = Cardinality(P) /\ Held(E, m) = Cardinality(Q)
  BY <1>1, <1>2 DEF Held
<1>. QED
  BY <1>4, <1>5, <1>6

(* A reference more: a material that is gone must not be wanted.             *)
LEMMA RetainedOwed ==
  ASSUME NEW t, NEW m \in DOMAIN t, SoundMaterial(t[m]), NEW n, Owed(t, m, n),
         NEW by, NEW k \in Nat, by[m] = k, t[m].refs = 0 => k = 0
  PROVE  /\ Owed(Retained(t, by), m, n + k)
         /\ Retained(t, by)[m].name = t[m].name /\ DOMAIN Retained(t, by) = DOMAIN t
<1>1. PICK a, b, l, x : t[m] = [name |-> a, refs |-> b, look |-> l, texture |-> x]
  BY DEF SoundMaterial
<1>2. n \in Nat /\ b = n + (IF a # None THEN 1 ELSE 0)
  BY <1>1 DEF Owed
<1>3. PICK r : r = Retained(t, by) /\ DOMAIN r = DOMAIN t
  BY DEF Retained
<1>4. CASE b = 0
  <2>1. r[m] = t[m] /\ k = 0
    BY <1>1, <1>3, <1>4 DEF Retained
  <2>. QED
    BY <1>1, <1>2, <1>3, <2>1 DEF Owed
<1>5. CASE b # 0
  <2>1. r[m] = [t[m] EXCEPT !.refs = t[m].refs + by[m]]
    BY <1>1, <1>3, <1>5 DEF Retained
  <2>2. r[m] = [name |-> a, refs |-> b + k, look |-> l, texture |-> x]
    BY <1>1, <2>1
  <2>. QED
    BY <1>1, <1>2, <1>3, <2>2 DEF Owed
<1>. QED
  BY <1>4, <1>5

(* A reference less: the name keeps its own.                                 *)
LEMMA ReleasedOwed ==
  ASSUME NEW t, NEW m \in DOMAIN t, SoundMaterial(t[m]), NEW n, Owed(t, m, n),
         NEW by, NEW k \in Nat, by[m] = k, k <= n
  PROVE  /\ Owed(Released(t, by), m, n - k)
         /\ Released(t, by)[m].name = t[m].name /\ DOMAIN Released(t, by) = DOMAIN t
<1>1. PICK a, b, l, x : t[m] = [name |-> a, refs |-> b, look |-> l, texture |-> x]
  BY DEF SoundMaterial
<1>2. n \in Nat /\ b = n + (IF a # None THEN 1 ELSE 0)
  BY <1>1 DEF Owed
<1>3. PICK r : r = Released(t, by)
  OBVIOUS
<1>6. DOMAIN r = DOMAIN t
  BY <1>3, Zenon DEF Released
<1>7. r[m] = IF t[m].refs > by[m] THEN [t[m] EXCEPT !.refs = t[m].refs - by[m]]
             ELSE [t[m] EXCEPT !.refs = 0, !.name = None]
  BY <1>3, Zenon DEF Released
<1>8. PICK f : f = t[m] /\ f = [name |-> a, refs |-> b, look |-> l, texture |-> x] /\ f.refs = b
  BY <1>1
<1>4. CASE b > k
  <2>1. r[m] = [f EXCEPT !.refs = b - k]
    BY <1>4, <1>7, <1>8
  <2>2. r[m] = [name |-> a, refs |-> b - k, look |-> l, texture |-> x]
    BY <1>8, <2>1
  <2>. QED
    BY <1>1, <1>2, <1>3, <1>4, <1>6, <2>2 DEF Owed
<1>5. CASE ~ (b > k)
  <2>1. r[m] = [f EXCEPT !.refs = 0, !.name = None]
    <3>1. ~ (t[m].refs > by[m])
      BY <1>5, <1>8
    <3>2. r[m] = [t[m] EXCEPT !.refs = 0, !.name = None]
      BY <1>7, <3>1, Zenon
    <3>. QED
      BY <1>8, <3>2, Zenon
  <2>2. r[m] = [name |-> None, refs |-> 0, look |-> l, texture |-> x]
    <3>1. PICK g, z : g = r[m] /\ z = 0
      OBVIOUS
    <3>2. g = [f EXCEPT !.refs = z, !.name = None]
      BY <2>1, <3>1
    <3>3. f = [name |-> a, refs |-> b, look |-> l, texture |-> x]
      BY <1>8
    <3>4. g = [name |-> None, refs |-> z, look |-> l, texture |-> x]
      BY <3>2, <3>3
    <3>. QED
      BY <3>1, <3>4
  <2>3. a = None /\ n = k
    BY <1>2, <1>5
  <2>. QED
    BY <1>1, <1>2, <1>3, <1>6, <2>2, <2>3 DEF Owed
<1>. QED
  BY <1>4, <1>5

(* set_material_override(): what the old scene used goes, what the new one uses *)
(* comes, and the rest stays as it is.                                       *)
LEMMA OverriddenOwed ==
  ASSUME NEW t, SoundMaterials(t), NEW m \in DOMAIN t, NEW old, NEW new, FewUsed(old), FewUsed(new),
         NEW rest \in Nat, Owed(t, m, Uses(old, m) + rest),
         t[m].refs = 0 => ~ Shows(new, m)
  PROVE  /\ Owed(Overridden(t, old, new), m, Uses(new, m) + rest)
         /\ Overridden(t, old, new)[m].name = t[m].name
<1>1. PICK a, b : a = Uses(old, m) /\ b = Uses(new, m) /\ a \in Nat /\ b \in Nat
  BY UsesFacts
<1>2. t[m].refs = 0 => b = 0
  BY <1>1, UsesFacts
<1>3. PICK by, gone : by = UsesOf(t, new) /\ gone = UsesOf(t, old)
  OBVIOUS
<1>7. by[m] = b /\ gone[m] = a
  BY <1>1, <1>3 DEF UsesOf
<1>4. PICK r : r = Retained(t, by) /\ SoundMaterials(r) /\ DOMAIN r = DOMAIN t
               /\ Owed(r, m, (a + rest) + b) /\ r[m].name = t[m].name
  <2>1. SoundMaterial(t[m])
    BY DEF SoundMaterials
  <2>. QED
    BY <1>1, <1>2, <1>7, <2>1, RetainedOwed, RefsOnly
<1>6. PICK c \in Nat : c = (a + rest) + b /\ a <= c /\ c - a = Uses(new, m) + rest
  BY <1>1
<1>5. Owed(Released(r, gone), m, c - a) /\ Released(r, gone)[m].name = r[m].name
  <2>1. SoundMaterial(r[m]) /\ m \in DOMAIN r /\ Owed(r, m, c)
    BY <1>4, <1>6 DEF SoundMaterials
  <2>. QED
    BY <1>1, <1>6, <1>7, <2>1, ReleasedOwed
<1>. QED
  BY <1>3, <1>4, <1>5, <1>6 DEF Overridden

-----------------------------------------------------------------------------
(* The accounts of the scene, of the load and of what loads have leaked.     *)

(* What was left behind refers to what there was, and a model belongs to the *)
(* load that brought it.                                                     *)
LeakedKept ==
  /\ FewSlots(leaked)
  /\ \A x \in leaked : /\ x.model \in 0 .. Len(models)
                       /\ \A s \in x.slots : s.mat \in 0 .. Len(mats)

DeferredApart ==
  /\ \A x \in load.deferred : x.model \in 0 .. Len(models) /\ \A y \in leaked : y.model # x.model
  /\ load.stage = "streaming" \/ load.deferred = {}

NamesKept ==
  /\ models[1].state = "ready"
  /\ \A m \in DOMAIN GameMaterials : GameMaterials[m].name # None => mats[m].name # None

AccountsInv == NamesKept /\ LeakedKept /\ DeferredApart /\ MaterialsAreAccountedFor

Waiting == load.deferred \cup leaked

LEMMA WaitingIs ==
  ASSUME FilesInv, AccountsInv
  PROVE  /\ FewSlots(load.deferred) /\ FewSlots(leaked) /\ FewSlots(Waiting)
         /\ \A x \in Waiting : \A s \in x.slots : s.mat \in 0 .. Len(mats)
<1>1. FewSlots(load.deferred) /\ \A x \in load.deferred : \A s \in x.slots : s.mat \in 0 .. Len(mats)
  <2>1. CASE load = NoLoad
    BY <2>1, FS_EmptySet DEF NoLoad, FewSlots
  <2>2. CASE load # NoLoad
    BY <2>2 DEF FilesInv, LoadKept
  <2>. QED
    BY <2>1, <2>2
<1>2. FewSlots(leaked) /\ \A x \in leaked : \A s \in x.slots : s.mat \in 0 .. Len(mats)
  BY DEF AccountsInv, LeakedKept
<1>3. FewSlots(Waiting)
  BY <1>1, <1>2, FS_Union DEF FewSlots, Waiting
<1>. QED
  BY <1>1, <1>2, <1>3 DEF Waiting

LEMMA EachIsOwed ==
  ASSUME FilesInv, AccountsInv
  PROVE  /\ FewUsed(scene)
         /\ \A m \in DOMAIN mats : /\ Uses(scene, m) \in Nat /\ Held(Waiting, m) \in Nat
                                   /\ Owed(mats, m, Uses(scene, m) + Held(Waiting, m))
                                   /\ mats[m].refs = 0 => ~ Shows(scene, m)
         /\ \A m : m \notin 0 .. Len(mats) => ~ Shows(scene, m) /\ ~ HoldsOf(Waiting, m)
<1>1. FewUsed(scene) /\ FewSlots(Waiting)
  BY SoundIsFew, WaitingIs DEF FilesInv, SceneKept
<1>2. ASSUME NEW m \in DOMAIN mats
      PROVE  /\ Uses(scene, m) \in Nat /\ Held(Waiting, m) \in Nat
             /\ Owed(mats, m, Uses(scene, m) + Held(Waiting, m))
             /\ mats[m].refs = 0 => ~ Shows(scene, m)
  <2>1. Uses(scene, m) \in Nat /\ Held(Waiting, m) \in Nat /\ (Uses(scene, m) = 0 <=> ~ Shows(scene, m))
    BY <1>1, UsesFacts, HeldFacts
  <2>2. mats[m].refs = Uses(scene, m) + Held(Waiting, m) + (IF mats[m].name # None THEN 1 ELSE 0)
    BY DEF AccountsInv, MaterialsAreAccountedFor, Waiting
  <2>. QED
    BY <2>1, <2>2 DEF Owed
<1>3. ASSUME NEW m, m \notin 0 .. Len(mats) PROVE ~ Shows(scene, m) /\ ~ HoldsOf(Waiting, m)
  <2>1. ~ Shows(scene, m)
    BY <1>3 DEF Shows, FilesInv, SceneKept, SoundScene, SoundEntity
  <2>2. ~ HoldsOf(Waiting, m)
    BY <1>3, WaitingIs DEF HoldsOf
  <2>. QED
    BY <2>1, <2>2
<1>. QED
  BY <1>1, <1>2, <1>3

(* A step that leaves the load and what leaked as they are, or drops the load. *)
LEMMA AccountsKeep ==
  ASSUME FilesInv, AccountsInv, NamesKept', Len(models') \in Nat, Len(mats') \in Nat,
         Len(models) <= Len(models'), Len(mats) <= Len(mats'),
         \/ UNCHANGED << load, leaked >>
         \/ load'.deferred = {} /\ leaked' = leaked \cup load.deferred,
         \A m \in DOMAIN mats' : Owed(mats', m, Uses(scene', m) + Held(Waiting, m))
  PROVE  AccountsInv'
<1>1. /\ FewSlots(load.deferred) /\ FewSlots(leaked) /\ FewSlots(Waiting)
      /\ \A x \in Waiting : \A s \in x.slots : s.mat \in 0 .. Len(mats)
  BY WaitingIs
<1>2. Len(models) \in Nat /\ Len(mats) \in Nat
  BY TablesTyped DEF FilesInv
<1>3. \A x \in Waiting : x.model \in 0 .. Len(models)
  BY DEF AccountsInv, LeakedKept, DeferredApart, Waiting
<1>4. load'.deferred \cup leaked' = Waiting /\ leaked' \subseteq Waiting /\ FewSlots(leaked')
  <2>1. CASE UNCHANGED << load, leaked >>
    BY <1>1, <2>1 DEF Waiting
  <2>2. CASE load'.deferred = {} /\ leaked' = leaked \cup load.deferred
    <3>1. leaked' = Waiting
      BY <2>2 DEF Waiting
    <3>. QED
      BY <1>1, <2>2, <3>1
  <2>. QED
    BY <2>1, <2>2
<1>5. LeakedKept'
  BY <1>1, <1>2, <1>3, <1>4 DEF LeakedKept
<1>6. DeferredApart'
  <2>1. CASE UNCHANGED << load, leaked >>
    BY <1>2, <2>1 DEF AccountsInv, DeferredApart
  <2>2. CASE load'.deferred = {}
    BY <2>2 DEF DeferredApart
  <2>. QED
    BY <2>1, <2>2
<1>7. MaterialsAreAccountedFor'
  <2>1. \A m \in DOMAIN mats' :
          mats'[m].refs = Uses(scene', m) + Held(Waiting, m) + (IF mats'[m].name # None THEN 1 ELSE 0)
    BY DEF Owed
  <2>. QED
    BY <1>4, <2>1 DEF MaterialsAreAccountedFor
<1>. QED
  BY <1>5, <1>6, <1>7 DEF AccountsInv

(* Nothing was done to scene and materials.                                  *)
LEMMA ScenesAccounts ==
  ASSUME FilesInv, AccountsInv, UNCHANGED << scene, mats, models >>,
         \/ UNCHANGED << load, leaked >>
         \/ load'.deferred = {} /\ leaked' = leaked \cup load.deferred
  PROVE  AccountsInv'
<1>1. \A m \in DOMAIN mats' : Owed(mats', m, Uses(scene', m) + Held(Waiting, m))
  BY EachIsOwed
<1>2. Len(models) \in Nat /\ Len(mats) \in Nat
  BY TablesTyped DEF FilesInv
<1>3. NamesKept'
  BY DEF AccountsInv, NamesKept
<1>. QED
  BY <1>1, <1>2, <1>3, AccountsKeep

LEMMA ValuesAccounts ==
  ASSUME FilesInv, AccountsInv, NEW i \in DOMAIN scene, Move(i) \/ EditComponent(i)
  PROVE  AccountsInv'
<1>1. PICK f : OnlyValues(scene[i], f) /\ OneChanged(scene, scene', i, f)
  BY ValuesEdited
<1>2. PICK t : t = scene' /\ OneChanged(scene, t, i, f)
  BY <1>1
<1>3. ASSUME NEW j \in DOMAIN scene PROVE t[j].over = scene[j].over /\ t[j].slots = scene[j].slots
  <2>1. f.over = scene[i].over /\ f.slots = scene[i].slots
    BY <1>1 DEF OnlyValues
  <2>. QED
    BY <1>2, <2>1 DEF OneChanged
<1>4. DOMAIN t = DOMAIN scene
  BY <1>2 DEF OneChanged
<1>5. \A m : Uses(t, m) = Uses(scene, m)
  BY <1>3, <1>4, UsesAlike
<1>6. UNCHANGED << models, mats, load, leaked >>
  BY ValuesEdited DEF EditScene
<1>7. \A m \in DOMAIN mats' : Owed(mats', m, Uses(scene', m) + Held(Waiting, m))
  BY <1>2, <1>5, <1>6, EachIsOwed
<1>8. Len(models) \in Nat /\ Len(mats) \in Nat
  BY TablesTyped DEF FilesInv
<1>9. NamesKept'
  BY <1>6 DEF AccountsInv, NamesKept
<1>. QED
  BY <1>6, <1>7, <1>8, <1>9, AccountsKeep

LEMMA EditMaterialAccounts ==
  ASSUME FilesInv, AccountsInv, NEW m \in DOMAIN mats, EditMaterial(m)
  PROVE  AccountsInv'
<1>1. /\ Len(mats') = Len(mats) /\ DOMAIN mats' = DOMAIN mats
      /\ \A j \in DOMAIN mats : mats'[j].refs = mats[j].refs /\ mats'[j].name = mats[j].name
  BY Painted
<1>2. UNCHANGED << scene, models, load, leaked >>
  BY Painted DEF EditScene
<1>3. /\ Len(models) \in Nat /\ Len(mats) \in Nat
      /\ \A j \in DOMAIN GameMaterials : j \in DOMAIN mats
  BY TablesTyped, FirstTables DEF FilesInv, TablesKept, SoundMaterials
<1>4. \A j \in DOMAIN mats' : Owed(mats', j, Uses(scene', j) + Held(Waiting, j))
  <2>1. \A j \in DOMAIN mats : Owed(mats, j, Uses(scene, j) + Held(Waiting, j))
    BY EachIsOwed
  <2>. QED
    BY <1>1, <1>2, <2>1 DEF Owed
<1>5. NamesKept'
  BY <1>1, <1>2, <1>3 DEF AccountsInv, NamesKept
<1>. QED
  BY <1>1, <1>2, <1>3, <1>4, <1>5, AccountsKeep

LEMMA DropModelAccounts ==
  ASSUME FilesInv, AccountsInv, NEW source, DropModel(source)
  PROVE  AccountsInv'
<1>1. /\ Len(models) \in Nat /\ 1 <= Len(models) /\ DOMAIN models = 1 .. Len(models)
      /\ models \in Seq(Range(models)) /\ Len(mats) \in Nat /\ DOMAIN mats = 1 .. Len(mats)
      /\ scene \in Seq(Range(scene))
  BY TablesTyped DEF FilesInv, TablesKept, SceneKept, SoundScene
<1>2. PICK e : /\ scene' = Append(scene, e) /\ e.over = 0 /\ e.slots = {}
  <2>1. PICK handle : scene' = Append(scene, NewEntity(source, handle, TRUE))
    BY DEF DropModel
  <2>2. NewEntity(source, handle, TRUE).over = 0 /\ NewEntity(source, handle, TRUE).slots = {}
    BY DEF NewEntity
  <2>. QED
    BY <2>1, <2>2
<1>3. PICK t : /\ t = scene' /\ DOMAIN t = 1 .. Len(scene) + 1 /\ t[Len(scene) + 1] = e
               /\ \A j \in DOMAIN scene : t[j] = scene[j]
  <2>1. scene \in Seq(Range(scene) \cup {e})
    BY <1>1
  <2>2. /\ DOMAIN Append(scene, e) = 1 .. Len(scene) + 1 /\ Append(scene, e)[Len(scene) + 1] = e
        /\ \A j \in DOMAIN scene : Append(scene, e)[j] = scene[j]
    BY <2>1
  <2>. QED
    BY <1>2, <2>2
<1>4. DOMAIN scene = 1 .. Len(scene) /\ Len(scene) \in Nat
  BY <1>1
<1>5. ASSUME NEW m \in DOMAIN mats PROVE Uses(t, m) = Uses(scene, m)
  <2>1. DOMAIN scene \subseteq DOMAIN t
    BY <1>3, <1>4
  <2>2. \A j \in DOMAIN scene : t[j].over = scene[j].over /\ t[j].slots = scene[j].slots
    BY <1>3
  <2>3. \A j \in DOMAIN t : j \in DOMAIN scene \/ (t[j].over # m /\ t[j].slots = {})
    <3>1. m # 0
      BY <1>1
    <3>2. \A j \in DOMAIN t : j \in DOMAIN scene \/ j = Len(scene) + 1
      BY <1>3, <1>4
    <3>. QED
      BY <1>2, <1>3, <3>1, <3>2
  <2>. QED
    BY <2>1, <2>2, <2>3, UsesAlike
<1>6. UNCHANGED << mats, load, leaked >>
  BY DEF DropModel, EditScene
<1>7. Len(models') \in Nat /\ Len(models) <= Len(models') /\ models'[1] = models[1]
  <2>1. models' = models \/ \E x : models' = Append(models, x)
    BY DEF DropModel
  <2>2. ASSUME NEW x, models' = Append(models, x)
        PROVE  Len(models') \in Nat /\ Len(models) <= Len(models') /\ models'[1] = models[1]
    <3>1. models \in Seq(Range(models) \cup {x}) /\ 1 \in 1 .. Len(models)
      BY <1>1
    <3>2. Len(Append(models, x)) = Len(models) + 1 /\ Append(models, x)[1] = models[1]
      BY <3>1
    <3>. QED
      BY <1>1, <2>2, <3>2
  <2>. QED
    BY <1>1, <2>1, <2>2
<1>8. \A m \in DOMAIN mats' : Owed(mats', m, Uses(scene', m) + Held(Waiting, m))
  BY <1>3, <1>5, <1>6, EachIsOwed
<1>9. NamesKept'
  BY <1>6, <1>7 DEF AccountsInv, NamesKept
<1>. QED
  BY <1>1, <1>6, <1>7, <1>8, <1>9, AccountsKeep

(* The copy has its own reference until the override has one.                *)
LEMMA OverrideSlotAccounts ==
  ASSUME FilesInv, AccountsInv, NEW i \in DOMAIN scene, OverrideSlot(i)
  PROVE  AccountsInv'
<1>1. /\ Len(mats) \in Nat /\ DOMAIN mats = 1 .. Len(mats) /\ Len(models) \in Nat
      /\ mats \in Seq(Range(mats)) /\ SoundMaterials(mats)
      /\ Len(GameMaterials) \in Nat /\ Len(GameMaterials) <= Len(mats)
      /\ DOMAIN GameMaterials = 1 .. Len(GameMaterials)
  BY TablesTyped, FirstTables DEF FilesInv, TablesKept, SoundMaterials
<1>2. SoundScene(scene, Len(models), Len(mats))
  BY DEF FilesInv, SceneKept
<1>3. PICK of, copy : of = MaterialsOf(models, scene[i].model) /\ copy = Len(mats) + 1
  OBVIOUS
<1>4. PICK slots : slots = {s \in scene[i].slots : s.of # of} \cup {[of |-> of, slot |-> 1, mat |-> copy]}
  OBVIOUS
<1>5. PICK edited : edited = [scene EXCEPT ![i].slots = slots]
  OBVIOUS
<1>6. PICK x : x = [name |-> None, refs |-> 1, look |-> count.edits, texture |-> NoSource]
  OBVIOUS
<1>7. PICK made : made = Append(mats, x)
  OBVIOUS
<1>8. /\ scene' = edited
      /\ mats' = Released(Overridden(made, scene, edited), OneOf(made, {copy}))
  BY <1>3, <1>4, <1>5, <1>6, <1>7 DEF OverrideSlot
<1>9. UNCHANGED << models, load, leaked >>
  BY DEF OverrideSlot, EditScene
<1>10. FilesInv'
  BY OverrideSlotKeeps
<1>11. FewUsed(scene) /\ FewUsed(edited)
  BY <1>8, <1>10, SoundIsFew, EachIsOwed DEF FilesInv, SceneKept
<1>12. /\ DOMAIN made = 1 .. Len(mats) + 1 /\ Len(made) = Len(mats) + 1
       /\ made[copy] = x /\ \A m \in DOMAIN mats : made[m] = mats[m]
  <2>1. mats \in Seq(Range(mats) \cup {x})
    BY <1>1
  <2>2. /\ DOMAIN Append(mats, x) = 1 .. Len(mats) + 1 /\ Len(Append(mats, x)) = Len(mats) + 1
        /\ Append(mats, x)[Len(mats) + 1] = x /\ \A m \in DOMAIN mats : Append(mats, x)[m] = mats[m]
    BY <2>1
  <2>. QED
    BY <1>3, <1>7, <2>2
<1>13. SoundMaterials(made)
  <2>1. SoundMaterial(x)
    <3>1. count.edits \in Nat
      BY DEF FilesInv, EditorKept
    <3>2. x.look # Odd /\ x.texture # Odd
      BY <1>6, <3>1, SceneAssumption
    <3>3. x.name = None /\ x.refs = 1 /\ x.look = count.edits /\ x.texture = NoSource
      BY <1>6
    <3>. QED
      BY <1>6, <3>2, <3>3 DEF SoundMaterial
  <2>2. made \in Seq(Range(made))
    <3>1. mats \in Seq(Range(mats) \cup {x})
      BY <1>1
    <3>2. made \in Seq(Range(mats) \cup {x})
      BY <1>7, <3>1
    <3>. QED
      BY <3>2, Ranged
  <2>3. \A m \in DOMAIN made : m \in DOMAIN mats \/ m = copy
    BY <1>1, <1>3, <1>12
  <2>. QED
    BY <1>1, <1>12, <2>1, <2>2, <2>3 DEF SoundMaterials
<1>14. ASSUME NEW m, Shows(edited, m), m # copy PROVE Shows(scene, m)
  <2>1. PICK j \in DOMAIN edited : edited[j].over = m \/ \E s \in edited[j].slots : s.mat = m
    BY <1>14 DEF Shows
  <2>2. j \in DOMAIN scene
    BY <1>5, <2>1
  <2>3. CASE j # i
    BY <1>5, <2>1, <2>2, <2>3 DEF Shows
  <2>4. CASE j = i
    <3>1. PICK e : e = scene[i] /\ SoundEntity(e, Len(models), Len(mats))
      BY <1>2 DEF SoundScene
    <3>2. edited[i] = [e EXCEPT !.slots = slots]
      BY <1>5, <3>1
    <3>3. edited[i].over = e.over /\ edited[i].slots = slots
      BY <3>1, <3>2 DEF SoundEntity
    <3>4. \A s \in slots : s.mat = m => s \in e.slots
      BY <1>4, <1>14, <3>1
    <3>. QED
      BY <2>1, <2>4, <3>1, <3>3, <3>4 DEF Shows
  <2>. QED
    BY <2>3, <2>4
<1>15. PICK changed, one : changed = Overridden(made, scene, edited) /\ one = OneOf(made, {copy})
  OBVIOUS
<1>16. SoundMaterials(changed) /\ DOMAIN changed = DOMAIN made
  <2>1. SoundMaterials(changed) /\ Len(changed) = Len(made)
    BY <1>13, <1>15, OverriddenSound
  <2>2. DOMAIN changed = 1 .. Len(changed)
    BY <2>1 DEF SoundMaterials
  <2>. QED
    BY <1>12, <2>1, <2>2
<1>17. ASSUME NEW m \in DOMAIN mats
       PROVE  /\ Owed(mats', m, Uses(edited, m) + Held(Waiting, m)) /\ mats'[m].name = mats[m].name
  <2>1. m \in DOMAIN made /\ m # copy /\ made[m] = mats[m]
    BY <1>1, <1>3, <1>12
  <2>2. Held(Waiting, m) \in Nat /\ Owed(made, m, Uses(scene, m) + Held(Waiting, m))
    BY <2>1, EachIsOwed DEF Owed
  <2>3. made[m].refs = 0 => ~ Shows(edited, m)
    BY <1>14, <2>1, EachIsOwed
  <2>4. Owed(changed, m, Uses(edited, m) + Held(Waiting, m)) /\ changed[m].name = mats[m].name
    BY <1>11, <1>13, <1>15, <2>1, <2>2, <2>3, OverriddenOwed
  <2>5. one[m] = 0
    BY <1>15, <2>1 DEF OneOf
  <2>6. PICK n \in Nat : n = Uses(edited, m) + Held(Waiting, m) /\ n - 0 = n /\ 0 <= n
    BY <2>4 DEF Owed
  <2>7. Owed(Released(changed, one), m, n - 0) /\ Released(changed, one)[m].name = changed[m].name
    <3>1. SoundMaterial(changed[m]) /\ m \in DOMAIN changed
      BY <1>16, <2>1 DEF SoundMaterials
    <3>. QED
      BY <2>4, <2>5, <2>6, <3>1, ReleasedOwed
  <2>. QED
    BY <1>8, <1>15, <2>4, <2>6, <2>7
<1>18. Owed(mats', copy, Uses(edited, copy) + Held(Waiting, copy))
  <2>1. copy \notin 0 .. Len(mats) /\ copy \in DOMAIN made
    BY <1>1, <1>3, <1>12
  <2>2. Uses(scene, copy) = 0 /\ Held(Waiting, copy) = 0
    BY <1>11, <2>1, EachIsOwed, UsesFacts, WaitingIs, HeldFacts
  <2>3. x.refs = 1 /\ x.name = None
    BY <1>6
  <2>4. Owed(made, copy, Uses(scene, copy) + 1) /\ made[copy].refs # 0
    BY <1>12, <2>2, <2>3 DEF Owed
  <2>5. Owed(changed, copy, Uses(edited, copy) + 1)
    BY <1>11, <1>13, <1>15, <2>1, <2>4, OverriddenOwed
  <2>6. one[copy] = 1
    BY <1>15, <2>1 DEF OneOf
  <2>7. PICK n \in Nat : n = Uses(edited, copy) + 1 /\ n - 1 = Uses(edited, copy) + Held(Waiting, copy) /\ 1 <= n
    BY <1>11, <2>2, UsesFacts
  <2>8. Owed(Released(changed, one), copy, n - 1)
    <3>1. SoundMaterial(changed[copy]) /\ copy \in DOMAIN changed
      BY <1>16, <2>1 DEF SoundMaterials
    <3>. QED
      BY <2>5, <2>6, <2>7, <3>1, ReleasedOwed
  <2>. QED
    BY <1>8, <1>15, <2>7, <2>8
<1>19. Len(mats') = Len(mats) + 1 /\ Len(mats') \in Nat /\ DOMAIN mats' = 1 .. Len(mats) + 1
  <2>1. DOMAIN mats' = DOMAIN made
    BY <1>8, <1>15, <1>16 DEF Released
  <2>2. DOMAIN mats' = 1 .. Len(mats') /\ Len(mats') \in Nat
    BY <1>10 DEF FilesInv, TablesKept, SoundMaterials
  <2>3. Len(mats') = Len(mats) + 1
    <3>1. PICK a, b : a = Len(mats) + 1 /\ b = Len(mats') /\ a \in Nat /\ b \in Nat /\ 1 .. a = 1 .. b
      BY <1>1, <1>12, <2>1, <2>2
    <3>2. a \in 1 .. a
      BY <1>1, <3>1
    <3>3. a <= b
      BY <3>1, <3>2
    <3>4. b \in 1 .. b
      BY <3>1, <3>3, <1>1
    <3>5. b <= a
      BY <3>1, <3>4
    <3>. QED
      BY <3>1, <3>3, <3>5
  <2>. QED
    BY <2>2, <2>3
<1>20. \A m \in DOMAIN mats' : Owed(mats', m, Uses(scene', m) + Held(Waiting, m))
  <2>1. \A m \in DOMAIN mats' : m \in DOMAIN mats \/ m = copy
    BY <1>1, <1>3, <1>19
  <2>. QED
    BY <1>8, <1>17, <1>18, <2>1
<1>21. NamesKept'
  <2>1. DOMAIN GameMaterials \subseteq DOMAIN mats
    BY <1>1
  <2>. QED
    BY <1>9, <1>17, <2>1 DEF AccountsInv, NamesKept
<1>. QED
  BY <1>1, <1>9, <1>19, <1>20, <1>21, AccountsKeep

LEMMA DeleteAccounts ==
  ASSUME FilesInv, AccountsInv, Delete
  PROVE  AccountsInv'
<1>1. /\ Len(mats) \in Nat /\ DOMAIN mats = 1 .. Len(mats) /\ Len(models) \in Nat
      /\ SoundMaterials(mats)
      /\ Len(GameMaterials) \in Nat /\ Len(GameMaterials) <= Len(mats)
      /\ DOMAIN GameMaterials = 1 .. Len(GameMaterials) /\ scene \in Seq(Range(scene))
  BY TablesTyped, FirstTables DEF FilesInv, TablesKept, SoundMaterials, SceneKept, SoundScene
<1>2. PICK t : t = scene' /\ t = Front(scene) /\ mats' = Overridden(mats, scene, t)
  BY DEF Delete
<1>3. UNCHANGED << models, load, leaked >>
  BY DEF Delete, EditScene
<1>4. FilesInv'
  BY DeleteKeeps
<1>5. FewUsed(scene) /\ FewUsed(t)
  BY <1>2, <1>4, SoundIsFew, EachIsOwed DEF FilesInv, SceneKept
<1>6. \A i \in DOMAIN t : i \in DOMAIN scene /\ t[i] = scene[i]
  <2>1. PICK s : s = scene /\ s \in Seq(Range(scene)) /\ Len(s) > 1 /\ t = SubSeq(s, 1, Len(s) - 1)
    BY <1>1, <1>2 DEF Front, Delete
  <2>2. /\ DOMAIN SubSeq(s, 1, Len(s) - 1) = 1 .. Len(s) - 1 /\ DOMAIN s = 1 .. Len(s) /\ Len(s) \in Nat
        /\ \A i \in 1 .. Len(s) - 1 : SubSeq(s, 1, Len(s) - 1)[i] = s[i]
    BY <2>1
  <2>. QED
    BY <2>1, <2>2
<1>7. \A m : Shows(t, m) => Shows(scene, m)
  BY <1>6 DEF Shows
<1>8. SoundMaterials(mats') /\ Len(mats') = Len(mats) /\ DOMAIN mats' = DOMAIN mats
  <2>1. SoundMaterials(mats') /\ Len(mats') = Len(mats)
    BY <1>1, <1>2, OverriddenSound
  <2>. QED
    BY <1>1, <2>1 DEF SoundMaterials
<1>9. ASSUME NEW m \in DOMAIN mats
      PROVE  Owed(mats', m, Uses(scene', m) + Held(Waiting, m)) /\ mats'[m].name = mats[m].name
  <2>1. /\ Held(Waiting, m) \in Nat /\ Owed(mats, m, Uses(scene, m) + Held(Waiting, m))
        /\ mats[m].refs = 0 => ~ Shows(t, m)
    BY <1>7, EachIsOwed
  <2>. QED
    BY <1>1, <1>2, <1>5, <2>1, OverriddenOwed
<1>10. NamesKept'
  <2>1. DOMAIN GameMaterials \subseteq DOMAIN mats
    BY <1>1
  <2>. QED
    BY <1>3, <1>9, <2>1 DEF AccountsInv, NamesKept
<1>. QED
  BY <1>1, <1>3, <1>8, <1>9, <1>10, AccountsKeep

(* An entity of the game shows a named material, or one that was made for it. *)
LEMMA AnewShows ==
  ASSUME FilesInv, AccountsInv, NEW m \in DOMAIN mats, Shows(EntitiesAnew, m)
  PROVE  mats[m].name # None
<1>1. Len(mats) \in Nat /\ DOMAIN mats = 1 .. Len(mats) /\ TablesKept
      /\ Len(Unnamed) \in Nat /\ DOMAIN Unnamed = 1 .. Len(Unnamed)
  BY TablesTyped, UnnamedOnce DEF FilesInv
<1>9. PICK t : t = EntitiesAnew
  OBVIOUS
<1>2. /\ t = [i \in DOMAIN Populated |-> t[i]]
      /\ \A i \in DOMAIN Populated :
           t[i] = [Populated[i] EXCEPT !.over = ShownNow(@), !.inst = ShownNow(@)]
  BY <1>9 DEF EntitiesAnew
<1>3. PICK i \in DOMAIN Populated : t[i].over = m \/ \E s \in t[i].slots : s.mat = m
  BY <1>2, <1>9 DEF Shows
<1>4. PICK e : e = Populated[i] /\ SoundEntity(e, 1, Len(GameMaterials)) /\ e.slots = {}
  BY GameAssumption, FirstTables DEF SoundScene
<1>5. t[i].over = ShownNow(e.over) /\ t[i].slots = {}
  <2>1. PICK over, inst : over = ShownNow(e.over) /\ inst = ShownNow(e.inst)
    OBVIOUS
  <2>2. t[i] = [e EXCEPT !.over = over, !.inst = inst]
    BY <1>2, <1>4, <2>1
  <2>3. t[i] = [name |-> e.name, place |-> e.place, parent |-> e.parent, streamed |-> e.streamed,
                model |-> e.model, over |-> over, slots |-> e.slots, field |-> e.field,
                inst |-> inst, plain |-> e.plain, lifetime |-> e.lifetime]
    BY <1>4, <2>2 DEF SoundEntity
  <2>. QED
    BY <1>4, <2>1, <2>3
<1>6. e.over \in 0 .. Len(GameMaterials)
  BY <1>4 DEF SoundEntity
<1>7. PICK g : g = e.over /\ ShownNow(g) = m
  BY <1>3, <1>5
<1>8. g = m /\ m \in DOMAIN GameMaterials /\ GameMaterials[m].name # None
  <2>1. \/ ShownNow(g) = 0
        \/ ShownNow(g) = g /\ g \in DOMAIN GameMaterials /\ GameMaterials[g].name # None
        \/ \E k \in DOMAIN Unnamed : ShownNow(g) = Len(mats) + k
    BY <1>1, <1>6, <1>7, ShownThere
  <2>2. m # 0 /\ \A k \in DOMAIN Unnamed : m # Len(mats) + k
    BY <1>1
  <2>. QED
    BY <1>7, <2>1, <2>2
<1>. QED
  BY <1>8 DEF AccountsInv, NamesKept

(* The old entities' references go, the new ones' come, and a material that was *)
(* made anew loses the one it was made with.                                 *)
LEMMA AnewOwed ==
  ASSUME FilesInv, AccountsInv, NEW m \in DOMAIN MadeAnew
  PROVE  /\ Owed(MaterialsAnew, m, Uses(EntitiesAnew, m) + Held(Waiting, m))
         /\ m \in DOMAIN mats => MaterialsAnew[m].name = mats[m].name
<1>1. /\ Len(mats) \in Nat /\ DOMAIN mats = 1 .. Len(mats) /\ TablesKept
      /\ Len(Unnamed) \in Nat /\ DOMAIN Unnamed = 1 .. Len(Unnamed)
      /\ Len(models) \in Nat
  BY TablesTyped, UnnamedOnce DEF FilesInv
<1>2. PICK M : /\ M = MadeAnew /\ SoundMaterials(M) /\ Len(M) = Len(mats) + Len(Unnamed)
               /\ DOMAIN M = 1 .. Len(mats) + Len(Unnamed)
               /\ \A j \in DOMAIN mats : M[j].name = mats[j].name /\ M[j].refs = mats[j].refs
               /\ \A k \in DOMAIN Unnamed : M[Len(mats) + k].name = None /\ M[Len(mats) + k].refs = 1
  BY <1>1, AnewMade
<1>3. PICK gone, come, last : /\ gone = UsesOf(M, scene) /\ come = UsesOf(M, EntitiesAnew)
                              /\ last = OneOf(M, Len(mats) + 1 .. Len(M))
  OBVIOUS
<1>4. PICK A, B : A = Released(M, gone) /\ B = Retained(A, come)
  OBVIOUS
<1>5. MaterialsAnew = Released(B, last)
  BY <1>2, <1>3, <1>4 DEF MaterialsAnew
<1>6. FewUsed(scene) /\ FewUsed(EntitiesAnew) /\ FewSlots(Waiting)
  BY <1>1, EntitiesAnewSound, SoundIsFew, EachIsOwed, WaitingIs
<1>7. PICK u, v, h : /\ u = Uses(scene, m) /\ v = Uses(EntitiesAnew, m) /\ h = Held(Waiting, m)
                     /\ u \in Nat /\ v \in Nat /\ h \in Nat
                     /\ (u = 0 <=> ~ Shows(scene, m)) /\ (v = 0 <=> ~ Shows(EntitiesAnew, m))
                     /\ (h = 0 <=> ~ HoldsOf(Waiting, m))
  BY <1>6, UsesFacts, HeldFacts
<1>8. m \in DOMAIN M /\ gone[m] = u /\ come[m] = v
  BY <1>2, <1>3, <1>7 DEF UsesOf
<1>9. SoundMaterial(M[m])
  BY <1>2, <1>8 DEF SoundMaterials
<1>10. SoundMaterials(A) /\ SoundMaterials(B) /\ DOMAIN A = DOMAIN M /\ DOMAIN B = DOMAIN M
  <2>1. SoundMaterials(A) /\ Len(A) = Len(M)
    BY <1>2, <1>4, RefsOnly
  <2>2. SoundMaterials(B) /\ Len(B) = Len(M)
    BY <1>4, <2>1, RefsOnly
  <2>. QED
    BY <1>2, <2>1, <2>2 DEF SoundMaterials
<1>11. SoundMaterial(A[m]) /\ SoundMaterial(B[m]) /\ m \in DOMAIN A /\ m \in DOMAIN B
  BY <1>8, <1>10 DEF SoundMaterials
<1>12. CASE m \in DOMAIN mats
  <2>1. Owed(M, m, u + h)
    BY <1>2, <1>7, <1>12, EachIsOwed DEF Owed
  <2>2. PICK n : n = u + h /\ u <= n /\ n - u = h
    BY <1>7
  <2>3. Owed(A, m, h) /\ A[m].name = mats[m].name
    <3>1. Owed(A, m, n - u) /\ A[m].name = M[m].name
      BY <1>4, <1>7, <1>8, <1>9, <2>1, <2>2, ReleasedOwed
    <3>. QED
      BY <1>2, <1>12, <2>2, <3>1
  <2>4. A[m].refs = 0 => v = 0
    <3>1. v # 0 => mats[m].name # None
      BY <1>7, <1>12, AnewShows
    <3>. QED
      BY <1>7, <2>3, <3>1 DEF Owed
  <2>5. Owed(B, m, h + v) /\ B[m].name = mats[m].name
    BY <1>4, <1>7, <1>8, <1>11, <2>3, <2>4, RetainedOwed
  <2>6. last[m] = 0
    BY <1>1, <1>2, <1>3, <1>8, <1>12 DEF OneOf
  <2>7. PICK c : c = h + v /\ 0 <= c /\ c - 0 = v + h
    BY <1>7
  <2>8. Owed(Released(B, last), m, c - 0) /\ Released(B, last)[m].name = B[m].name
    BY <1>11, <2>5, <2>6, <2>7, ReleasedOwed
  <2>. QED
    BY <1>5, <1>7, <2>5, <2>7, <2>8
<1>13. CASE m \notin DOMAIN mats
  <2>1. m \notin 0 .. Len(mats) /\ m \in Len(mats) + 1 .. Len(M)
    BY <1>1, <1>2, <1>8, <1>13
  <2>2. u = 0 /\ h = 0
    BY <1>7, <2>1, EachIsOwed
  <2>3. M[m].name = None /\ M[m].refs = 1
    <3>1. m - Len(mats) \in DOMAIN Unnamed /\ m = Len(mats) + (m - Len(mats))
      BY <1>1, <1>2, <2>1
    <3>. QED
      BY <1>2, <3>1
  <2>4. Owed(M, m, 1)
    BY <2>3 DEF Owed
  <2>5. Owed(A, m, 1)
    <3>1. Owed(A, m, 1 - 0)
      BY <1>4, <1>8, <1>9, <2>2, <2>4, ReleasedOwed
    <3>. QED
      BY <3>1
  <2>6. A[m].refs # 0
    BY <2>5 DEF Owed
  <2>7. Owed(B, m, 1 + v)
    BY <1>4, <1>7, <1>8, <1>11, <2>5, <2>6, RetainedOwed
  <2>8. last[m] = 1
    BY <1>2, <1>3, <1>8, <2>1 DEF OneOf
  <2>9. PICK c : c = 1 + v /\ 1 <= c /\ c - 1 = v + h
    BY <1>7, <2>2
  <2>10. Owed(Released(B, last), m, c - 1)
    BY <1>11, <2>7, <2>8, <2>9, ReleasedOwed
  <2>. QED
    BY <1>5, <1>7, <1>13, <2>9, <2>10
<1>. QED
  BY <1>12, <1>13

LEMMA PopulateAgainAccounts ==
  ASSUME FilesInv, AccountsInv, PopulateAgain
  PROVE  AccountsInv'
<1>1. /\ scene' = EntitiesAnew /\ mats' = MaterialsAnew
      /\ UNCHANGED << models, load, leaked >>
  BY DEF PopulateAgain, EditScene
<1>2. /\ Len(mats) \in Nat /\ DOMAIN mats = 1 .. Len(mats) /\ Len(models) \in Nat /\ TablesKept
      /\ Len(Unnamed) \in Nat
      /\ Len(GameMaterials) \in Nat /\ Len(GameMaterials) <= Len(mats)
      /\ DOMAIN GameMaterials = 1 .. Len(GameMaterials)
  BY TablesTyped, UnnamedOnce, FirstTables DEF FilesInv, TablesKept, SoundMaterials
<1>3. DOMAIN MadeAnew = 1 .. Len(mats) + Len(Unnamed)
  BY <1>2, AnewMade
<1>4. /\ Len(mats') = Len(mats) + Len(Unnamed) /\ DOMAIN mats' = DOMAIN MadeAnew
  <2>1. SoundMaterials(mats') /\ Len(mats') = Len(mats) + Len(Unnamed)
    BY <1>1, <1>2, MaterialsAnewSound
  <2>. QED
    BY <1>3, <2>1 DEF SoundMaterials
<1>5. Len(mats') \in Nat /\ Len(mats) <= Len(mats')
  BY <1>2, <1>4
<1>6. \A m \in DOMAIN mats' : Owed(mats', m, Uses(scene', m) + Held(Waiting, m))
  BY <1>1, <1>4, AnewOwed
<1>7. NamesKept'
  <2>1. \A m \in DOMAIN GameMaterials : m \in DOMAIN mats /\ m \in DOMAIN MadeAnew
    BY <1>2, <1>3
  <2>2. \A m \in DOMAIN GameMaterials : mats'[m].name = mats[m].name
    BY <1>1, <2>1, AnewOwed
  <2>. QED
    BY <1>1, <2>2 DEF AccountsInv, NamesKept
<1>. QED
  BY <1>1, <1>2, <1>5, <1>6, <1>7, AccountsKeep

(* A model is ready or failed: the engine's own always was.                  *)
LEMMA ModelSettlesAccounts ==
  ASSUME FilesInv, AccountsInv, NEW h \in DOMAIN models, ModelSettles(h)
  PROVE  AccountsInv'
<1>1. PICK state : models' = [models EXCEPT ![h].state = state]
  BY DEF ModelSettles
<1>2. /\ Len(models) \in Nat /\ DOMAIN models = 1 .. Len(models) /\ 1 <= Len(models)
      /\ Len(mats) \in Nat
  BY TablesTyped DEF FilesInv, TablesKept
<1>3. UNCHANGED << scene, mats, load, leaked >>
  BY DEF ModelSettles
<1>4. models' \in Seq(Range(models')) /\ Len(models') = Len(models)
  <2>1. models' = [i \in 1 .. Len(models) |-> models'[i]]
    BY <1>1, <1>2
  <2>2. PICK t : t = models'
    OBVIOUS
  <2>. QED
    BY <1>2, <2>1, <2>2, ListIs
<1>5. NamesKept'
  <2>1. models[1].state = "ready"
    BY DEF AccountsInv, NamesKept
  <2>2. h # 1
    BY <2>1 DEF ModelSettles, Loading
  <2>3. models'[1] = models[1]
    BY <1>1, <1>2, <2>2
  <2>. QED
    BY <1>3, <2>3 DEF AccountsInv, NamesKept
<1>6. \A m \in DOMAIN mats' : Owed(mats', m, Uses(scene', m) + Held(Waiting, m))
  BY <1>3, EachIsOwed
<1>. QED
  BY <1>2, <1>3, <1>4, <1>5, <1>6, AccountsKeep

(* A load is dropped for another: what it held stays held.                   *)
LEMMA StartOpenDrops ==
  ASSUME NEW f, StartOpen(f)
  PROVE  load'.deferred = {} /\ leaked' = leaked \cup load.deferred
<1>1. load' = [path |-> f, stage |-> "opening", table |-> None, read |-> None,
               streaming |-> {}, deferred |-> {}]
  BY DEF StartOpen
<1>2. load'.deferred = {}
  BY <1>1
<1>. QED
  BY <1>2 DEF StartOpen

(* Nothing but opening touches what the accounts are about.                  *)
LEMMA DialogAccounts ==
  ASSUME FilesInv, AccountsInv,
         \/ PressSave \/ PressSaveAs
         \/ \E f \in Files : ConfirmSaveAs(f) \/ RequestOpen(f)
         \/ \E name \in Files \cup {None} : PromptSave(name)
         \/ CancelSaveAs \/ PromptDiscard \/ PromptCancel \/ UpdateSave
  PROVE  AccountsInv'
<1>1. UNCHANGED << scene, mats, models >>
  BY DEF PressSave, PressSaveAs, ConfirmSaveAs, PromptSave, StartSave, RequestOpen, CancelSaveAs,
         PromptDiscard, PromptCancel, Closed, UpdateSave
<1>2. UNCHANGED << load, leaked >> \/ \E f : StartOpen(f)
  BY DEF PressSave, PressSaveAs, ConfirmSaveAs, PromptSave, StartSave, RequestOpen, CancelSaveAs,
         PromptDiscard, PromptCancel, UpdateSave
<1>. QED
  BY <1>1, <1>2, StartOpenDrops, ScenesAccounts

(* A load holds nothing back before its scene is there.                      *)
LEMMA JobAccounts ==
  ASSUME FilesInv, AccountsInv,
         \/ SaveCooks \/ SaveReplaces \/ SaveFails \/ LoadOpens \/ LoadReads
         \/ load # NoLoad /\ LoadFailed /\ UNCHANGED leaked
  PROVE  AccountsInv'
<1>1. UNCHANGED << scene, mats, models, leaked >>
  BY DEF SaveCooks, SaveReplaces, SaveFails, LoadOpens, LoadReads, Background, LoadFailed
<1>2. CASE SaveCooks \/ SaveReplaces \/ SaveFails
  <2>1. UNCHANGED load
    BY <1>2 DEF SaveCooks, SaveReplaces, SaveFails
  <2>. QED
    BY <1>1, <2>1, ScenesAccounts
<1>3. CASE LoadOpens \/ LoadReads \/ (load # NoLoad /\ LoadFailed)
  <2>1. load # NoLoad /\ load.stage # "streaming"
    BY <1>3 DEF LoadOpens, LoadReads, LoadFailed
  <2>2. load.deferred = {}
    BY <2>1 DEF AccountsInv, DeferredApart
  <2>3. \/ load' = NoLoad
        \/ \E s, r : load' = [load EXCEPT !.stage = s, !.read = r]
        \/ \E s, t : load' = [load EXCEPT !.stage = s, !.table = t]
    BY <1>3 DEF LoadOpens, LoadReads, LoadFailed
  <2>4. load'.deferred = {}
    <3>1. PICK p, a, b, c, e : load = [path |-> p, stage |-> a, table |-> b, read |-> c,
                                       streaming |-> e, deferred |-> {}]
      BY <2>1, <2>2 DEF FilesInv, LoadKept
    <3>2. ASSUME NEW s, NEW r, load' = [load EXCEPT !.stage = s, !.read = r] PROVE load'.deferred = {}
      BY <3>1, <3>2
    <3>3. ASSUME NEW s, NEW t, load' = [load EXCEPT !.stage = s, !.table = t] PROVE load'.deferred = {}
      BY <3>1, <3>3
    <3>4. NoLoad.deferred = {}
      BY DEF NoLoad
    <3>5. ASSUME load' = NoLoad PROVE load'.deferred = {}
      BY <3>4, <3>5
    <3>. QED
      BY <2>3, <3>2, <3>3, <3>5
  <2>5. leaked' = leaked \cup load.deferred
    BY <1>1, <2>2
  <2>. QED
    BY <1>1, <2>4, <2>5, ScenesAccounts
<1>. QED
  BY <1>2, <1>3

-----------------------------------------------------------------------------
(* The accounts while a load is at work.                                     *)

(* What a load is about to leave is accounted for, with what leaked before.  *)
CountedNow(now) ==
  /\ now.models[1].state = "ready"
  /\ Len(models) <= Len(now.models) /\ Len(mats) <= Len(now.mats)
  /\ \A m \in DOMAIN GameMaterials : GameMaterials[m].name # None => now.mats[m].name # None
  /\ \A x \in now.load.deferred : x.model \in 0 .. Len(now.models) /\ \A y \in leaked : y.model # x.model
  /\ \A m \in DOMAIN now.mats :
       Owed(now.mats, m, Uses(now.scene, m) + (Held(now.load.deferred, m) + Held(leaked, m)))

(* What was held back is retained by the scene and then let go.              *)
LEMMA AppliedCounts ==
  ASSUME NEW now, SoundNow(now), CountedNow(now), FewSlots(leaked)
  PROVE  CountedNow(Applied(now))
<1> DEFINE ready == {d \in now.load.deferred : ~ Loading(now.models, d.model)}
           there(d) == d.entity \in DOMAIN now.scene /\ now.scene[d.entity].model = d.model
           more(i) == UNION {{[of |-> MaterialsOf(now.models, d.model), slot |-> s.slot, mat |-> s.mat] :
                                s \in d.slots} : d \in {x \in ready : x.entity = i /\ there(x)}}
<1>1. PICK edited : edited = [i \in DOMAIN now.scene |->
                                [now.scene[i] EXCEPT !.slots = @ \cup more(i)]]
  OBVIOUS
<1>2. PICK held : held = [m \in DOMAIN now.mats |-> Held(ready, m)]
  OBVIOUS
<1>3. PICK then : /\ then = Applied(now)
                  /\ then = [scene |-> edited, models |-> now.models,
                             mats |-> Released(Overridden(now.mats, now.scene, edited), held),
                             load |-> [now.load EXCEPT !.deferred = @ \ ready]]
  BY <1>1, <1>2 DEF Applied
<1>4. PICK R, left : R = ready /\ left = now.load.deferred \ R
  OBVIOUS
<1>5. then.load.deferred = left
  <2>1. then.load = [now.load EXCEPT !.deferred = left]
    BY <1>3, <1>4
  <2>2. PICK p, s, t, r, m, q : now.load = [path |-> p, stage |-> s, table |-> t, read |-> r,
                                            streaming |-> m, deferred |-> q]
    BY DEF SoundNow
  <2>. QED
    BY <2>1, <2>2
<1>6. SoundNow(then)
  BY <1>3, OverridesArrive
<1>7. PICK ov : ov = Overridden(now.mats, now.scene, edited)
  OBVIOUS
<1>8. then.scene = edited /\ then.models = now.models /\ then.mats = Released(ov, held)
  BY <1>3, <1>7
<1>9. FewUsed(now.scene) /\ FewUsed(edited)
  BY <1>6, <1>8, SoundIsFew DEF SoundNow
<1>10. /\ FewSlots(R) /\ FewSlots(left) /\ now.load.deferred = R \cup left
       /\ \A x \in R : x \in now.load.deferred /\ x \notin left
  <2>1. R \in SUBSET now.load.deferred /\ left \in SUBSET now.load.deferred
    BY <1>4
  <2>2. FewSlots(R) /\ FewSlots(left)
    BY <2>1, FS_Subset DEF SoundNow, FewSlots
  <2>. QED
    BY <1>4, <2>1, <2>2
<1>11. /\ SoundMaterials(now.mats) /\ SoundMaterials(ov) /\ DOMAIN ov = DOMAIN now.mats
       /\ Len(ov) = Len(now.mats)
  <2>1. SoundMaterials(now.mats)
    BY DEF SoundNow
  <2>2. SoundMaterials(ov) /\ Len(ov) = Len(now.mats)
    BY <1>7, <2>1, OverriddenSound
  <2>. QED
    BY <2>1, <2>2 DEF SoundMaterials
<1>12. ASSUME NEW m, Shows(edited, m) PROVE Shows(now.scene, m) \/ HoldsOf(R, m)
  <2>1. PICK i \in DOMAIN edited : edited[i].over = m \/ \E x \in edited[i].slots : x.mat = m
    BY <1>12 DEF Shows
  <2>2. i \in DOMAIN now.scene
    BY <1>1, <2>1
  <2>3. PICK e, slots : e = now.scene[i] /\ slots = e.slots \cup more(i)
    OBVIOUS
  <2>4. edited[i].over = e.over /\ edited[i].slots = slots
    <3>1. edited[i] = [e EXCEPT !.slots = slots]
      BY <1>1, <2>2, <2>3
    <3>2. SoundEntity(e, Len(now.models), Len(now.mats))
      BY <2>2, <2>3 DEF SoundNow, SoundScene
    <3>. QED
      BY <3>1, <3>2 DEF SoundEntity
  <2>5. CASE edited[i].over = m
    BY <2>2, <2>3, <2>4, <2>5 DEF Shows
  <2>6. ASSUME NEW x \in slots, x.mat = m PROVE Shows(now.scene, m) \/ HoldsOf(R, m)
    <3>1. CASE x \in e.slots
      BY <2>2, <2>3, <2>6, <3>1 DEF Shows
    <3>2. CASE x \in more(i)
      <4>1. PICK d \in R : x \in {[of |-> MaterialsOf(now.models, d.model), slot |-> s.slot, mat |-> s.mat] :
                                    s \in d.slots}
        BY <1>4, <3>2
      <4>2. PICK s \in d.slots : x = [of |-> MaterialsOf(now.models, d.model), slot |-> s.slot, mat |-> s.mat]
        BY <4>1
      <4>3. s.mat = m
        BY <2>6, <4>2
      <4>. QED
        BY <4>3 DEF HoldsOf
    <3>. QED
      BY <2>3, <2>6, <3>1, <3>2
  <2>. QED
    BY <2>1, <2>4, <2>5, <2>6
<1>13. ASSUME NEW m \in DOMAIN now.mats
       PROVE  /\ Owed(then.mats, m, Uses(edited, m) + (Held(left, m) + Held(leaked, m)))
              /\ then.mats[m].name = now.mats[m].name
  <2>1. PICK u, v, a, b, c : /\ u = Uses(now.scene, m) /\ v = Uses(edited, m)
                             /\ a = Held(R, m) /\ b = Held(left, m) /\ c = Held(leaked, m)
                             /\ u \in Nat /\ v \in Nat /\ a \in Nat /\ b \in Nat /\ c \in Nat
                             /\ (u = 0 <=> ~ Shows(now.scene, m)) /\ (a = 0 <=> ~ HoldsOf(R, m))
    BY <1>9, <1>10, UsesFacts, HeldFacts
  <2>2. Held(now.load.deferred, m) = a + b
    BY <1>10, <2>1, HeldSplit
  <2>3. PICK rest \in Nat : rest = (a + b) + c /\ Owed(now.mats, m, u + rest)
    BY <2>1, <2>2 DEF CountedNow
  <2>4. now.mats[m].refs = 0 => ~ Shows(edited, m)
    <3>1. now.mats[m].refs = 0 => u = 0 /\ a = 0
      <4>1. PICK g, z : z = now.mats[m].refs /\ g \in Nat /\ z = (u + rest) + g
        BY <2>3 DEF Owed
      <4>2. u \in Nat /\ a \in Nat /\ b \in Nat /\ c \in Nat /\ rest = (a + b) + c
        BY <2>1, <2>3
      <4>3. z = 0 => u = 0 /\ a = 0
        BY <4>1, <4>2
      <4>. QED
        BY <4>1, <4>3
    <3>. QED
      BY <1>12, <2>1, <3>1
  <2>5. Owed(ov, m, v + rest) /\ ov[m].name = now.mats[m].name
    <3>1. Owed(now.mats, m, Uses(now.scene, m) + rest)
      BY <2>1, <2>3
    <3>2. Owed(Overridden(now.mats, now.scene, edited), m, Uses(edited, m) + rest)
      BY <1>9, <1>11, <2>3, <2>4, <3>1, OverriddenOwed
    <3>3. Overridden(now.mats, now.scene, edited)[m].name = now.mats[m].name
      BY <1>9, <1>11, <2>3, <2>4, <3>1, OverriddenOwed
    <3>. QED
      BY <1>7, <2>1, <3>2, <3>3
  <2>6. PICK n : n = v + rest /\ a <= n /\ n - a = v + (b + c)
    BY <2>1, <2>3
  <2>7. held[m] = a
    BY <1>2, <1>4, <2>1
  <2>8. Owed(Released(ov, held), m, n - a) /\ Released(ov, held)[m].name = ov[m].name
    <3>1. SoundMaterial(ov[m]) /\ m \in DOMAIN ov
      BY <1>11 DEF SoundMaterials
    <3>. QED
      BY <2>1, <2>5, <2>6, <2>7, <3>1, ReleasedOwed
  <2>. QED
    BY <1>8, <2>1, <2>5, <2>6, <2>8
<1>14. /\ DOMAIN then.mats = DOMAIN now.mats /\ Len(then.mats) = Len(now.mats)
       /\ \A m \in DOMAIN GameMaterials : m \in DOMAIN now.mats
  <2>1. SoundMaterials(then.mats) /\ Len(then.mats) = Len(ov)
    BY <1>8, <1>11, RefsOnly
  <2>2. /\ Len(GameMaterials) <= Len(now.mats) /\ DOMAIN GameMaterials = 1 .. Len(GameMaterials)
        /\ Len(GameMaterials) \in Nat /\ DOMAIN now.mats = 1 .. Len(now.mats) /\ Len(now.mats) \in Nat
    BY <1>11, FirstTables DEF SoundNow, SoundMaterials
  <2>. QED
    BY <1>11, <2>1, <2>2 DEF SoundMaterials
<1>15. \A x \in left : x \in now.load.deferred
  BY <1>4
<1>16. CountedNow(then)
  <2>1. \A m \in DOMAIN GameMaterials : GameMaterials[m].name # None => then.mats[m].name # None
    BY <1>13, <1>14 DEF CountedNow
  <2>2. \A m \in DOMAIN then.mats :
          Owed(then.mats, m, Uses(then.scene, m) + (Held(then.load.deferred, m) + Held(leaked, m)))
    BY <1>5, <1>8, <1>13, <1>14
  <2>3. \A x \in then.load.deferred : x.model \in 0 .. Len(then.models) /\ \A y \in leaked : y.model # x.model
    BY <1>5, <1>8, <1>15 DEF CountedNow
  <2>. QED
    BY <1>8, <1>14, <2>1, <2>2, <2>3 DEF CountedNow
<1>. QED
  BY <1>3, <1>16

(* The load is done and holds nothing back, or goes on.                      *)
LEMMA ProgressCounts ==
  ASSUME FilesInv, AccountsInv, NEW now, SoundNow(now), CountedNow(now), Progressed(now),
         UNCHANGED leaked
  PROVE  AccountsInv'
<1>1. /\ scene' = now.scene /\ models' = now.models /\ mats' = now.mats
      /\ load' = now.load \/ (load' = NoLoad /\ now.load.deferred = {})
  BY DEF Progressed
<1>2. load'.deferred = now.load.deferred
  BY <1>1 DEF NoLoad
<1>3. /\ Len(models) \in Nat /\ Len(mats) \in Nat /\ Len(models') \in Nat /\ Len(mats') \in Nat
      /\ Len(models) <= Len(models') /\ Len(mats) <= Len(mats')
  BY <1>1, TablesTyped DEF FilesInv, SoundNow, SoundMaterials, CountedNow
<1>4. NamesKept'
  BY <1>1 DEF CountedNow, NamesKept
<1>5. LeakedKept'
  BY <1>3 DEF AccountsInv, LeakedKept
<1>6. DeferredApart'
  BY <1>1, <1>2 DEF CountedNow, SoundNow, DeferredApart
<1>7. MaterialsAreAccountedFor'
  <2>1. FewSlots(now.load.deferred) /\ FewSlots(leaked)
    BY DEF SoundNow, AccountsInv, LeakedKept
  <2>2. \A x \in now.load.deferred : x \notin leaked
    BY DEF CountedNow
  <2>3. \A m : Held(now.load.deferred \cup leaked, m) = Held(now.load.deferred, m) + Held(leaked, m)
    BY <2>1, <2>2, HeldSplit
  <2>4. \A m \in DOMAIN mats' :
          mats'[m].refs = Uses(scene', m) + Held(now.load.deferred \cup leaked, m)
                            + (IF mats'[m].name # None THEN 1 ELSE 0)
    BY <1>1, <2>3 DEF CountedNow, Owed
  <2>. QED
    BY <1>2, <2>4 DEF MaterialsAreAccountedFor
<1>. QED
  BY <1>4, <1>5, <1>6, <1>7 DEF AccountsInv

LEMMA LoadStreamsAccounts ==
  ASSUME FilesInv, AccountsInv, load # NoLoad, LoadStreams, UNCHANGED leaked
  PROVE  AccountsInv'
<1>1. PICK now : /\ now = [scene |-> scene, models |-> models, mats |-> mats, load |-> load]
                 /\ Progressed(Applied(now))
  BY DEF LoadStreams
<1>2. now.scene = scene /\ now.models = models /\ now.mats = mats /\ now.load = load
  BY <1>1
<1>3. load.stage = "streaming"
  BY DEF LoadStreams
<1>4. SoundNow(now)
  BY <1>2, <1>3 DEF SoundNow, FilesInv, TablesKept, SceneKept, LoadKept
<1>5. FewSlots(load.deferred) /\ FewSlots(leaked) /\ \A x \in load.deferred : x \notin leaked
  BY <1>3, WaitingIs DEF AccountsInv, DeferredApart
<1>6. CountedNow(now)
  <2>1. ASSUME NEW m \in DOMAIN mats
        PROVE  Owed(mats, m, Uses(scene, m) + (Held(load.deferred, m) + Held(leaked, m)))
    <3>1. Held(Waiting, m) = Held(load.deferred, m) + Held(leaked, m)
      BY <1>3, <1>5, HeldSplit DEF Waiting
    <3>. QED
      BY <3>1, EachIsOwed
  <2>2. Len(models) \in Nat /\ Len(mats) \in Nat
    BY TablesTyped DEF FilesInv
  <2>. QED
    BY <1>2, <1>3, <2>1, <2>2 DEF CountedNow, AccountsInv, NamesKept, DeferredApart
<1>7. PICK then : then = Applied(now) /\ SoundNow(then) /\ CountedNow(then) /\ Progressed(then)
  BY <1>1, <1>4, <1>5, <1>6, OverridesArrive, AppliedCounts
<1>. QED
  BY <1>7, ProgressCounts

(* What the entities of a description show, and what waits for their models, *)
(* are the materials that were made for it.                                  *)
MadeFor(d, made, m) == \E k \in DOMAIN d.materials : made.handles[k] = m

LEMMA SlotsMadeFor ==
  ASSUME NEW d, WholeScene(d), NEW made, NEW i, NEW s \in SlotsOf(d, made, i)
  PROVE  MadeFor(d, made, s.mat)
<1>1. PICK c \in d.material_overrides : \E x \in c.slots :
        s = [slot |-> x.slot, mat |-> made.handles[x.material]]
  BY DEF SlotsOf
<1>2. PICK x \in c.slots : s = [slot |-> x.slot, mat |-> made.handles[x.material]]
  BY <1>1
<1>3. x.material \in DOMAIN d.materials
  BY DEF WholeScene, ReferencesSound
<1>. QED
  BY <1>2, <1>3 DEF MadeFor

LEMMA EntityMadeFor ==
  ASSUME NEW d, WholeScene(d), NEW resolved, NEW made, NEW i,
         NEW e, e = EntityMade(d, resolved, made, i)
  PROVE  /\ e.over = 0 \/ MadeFor(d, made, e.over)
         /\ \A s \in e.slots : MadeFor(d, made, s.mat)
         /\ e.model = 0 \/ \E k \in DOMAIN d.models : e.model = resolved.handles[k]
<1>1. PICK model, over, slots :
        /\ model = ModelMade(d, resolved, i)
        /\ over = IF Has(d.material_overrides, i)
                  THEN MaterialMade(made, The(d.material_overrides, i).material) ELSE 0
        /\ slots = IF model = 0 \/ Loading(resolved.models, model) THEN {}
                   ELSE {[of |-> MaterialsOf(resolved.models, model), slot |-> s.slot, mat |-> s.mat] :
                           s \in SlotsOf(d, made, i)}
  OBVIOUS
<1>2. e.model = model /\ e.over = over /\ e.slots = slots
  BY <1>1 DEF EntityMade
<1>3. \A cs : Has(cs, i) => The(cs, i) \in cs
  BY DEF Has, The
<1>4. over = 0 \/ MadeFor(d, made, over)
  <2>1. CASE Has(d.material_overrides, i)
    <3>1. PICK k : k = The(d.material_overrides, i).material /\ k \in DOMAIN d.materials \cup {0}
      BY <1>3, <2>1 DEF WholeScene, ReferencesSound
    <3>2. over = MaterialMade(made, k)
      BY <1>1, <2>1, <3>1
    <3>. QED
      BY <3>1, <3>2 DEF MaterialMade, MadeFor
  <2>. QED
    BY <1>1, <2>1
<1>5. ASSUME NEW x \in slots PROVE MadeFor(d, made, x.mat)
  <2>1. PICK s \in SlotsOf(d, made, i) :
          x = [of |-> MaterialsOf(resolved.models, model), slot |-> s.slot, mat |-> s.mat]
    BY <1>1
  <2>2. x.mat = s.mat
    BY <2>1
  <2>. QED
    BY <2>2, SlotsMadeFor
<1>6. model = 0 \/ \E k \in DOMAIN d.models : model = resolved.handles[k]
  BY <1>1, <1>3 DEF ModelMade, WholeScene, ReferencesSound
<1>. QED
  BY <1>2, <1>4, <1>5, <1>6

LEMMA MadeForShows ==
  ASSUME NEW d, WholeScene(d), NEW resolved, NEW made,
         NEW entities, entities = EntitiesMade(d, resolved, made),
         NEW deferred, deferred = Deferred(d, resolved, made, entities), NEW m, m # 0
  PROVE  /\ Shows(entities, m) => MadeFor(d, made, m)
         /\ HoldsOf(deferred, m) => MadeFor(d, made, m)
<1>1. ASSUME Shows(entities, m) PROVE MadeFor(d, made, m)
  <2>1. PICK i \in DOMAIN entities : entities[i].over = m \/ \E x \in entities[i].slots : x.mat = m
    BY <1>1 DEF Shows
  <2>2. PICK e : e = entities[i] /\ e = EntityMade(d, resolved, made, i)
    BY DEF EntitiesMade
  <2>. QED
    BY <2>1, <2>2, EntityMadeFor
<1>2. ASSUME HoldsOf(deferred, m) PROVE MadeFor(d, made, m)
  <2>1. PICK x \in deferred : \E s \in x.slots : s.mat = m
    BY <1>2 DEF HoldsOf
  <2>2. PICK i \in DOMAIN entities :
          x = [entity |-> i, model |-> entities[i].model, slots |-> SlotsOf(d, made, i)]
    BY DEF Deferred
  <2>3. x.slots = SlotsOf(d, made, i)
    BY <2>2
  <2>. QED
    BY <2>1, <2>3, SlotsMadeFor
<1>. QED
  BY <1>1, <1>2

(* What a scene coming in uses of material m was made for the file, by counts *)
(* its references, and these gives back the one of an unnamed new material.   *)
UsesMade(s, D, d, made, m) == Shows(s, m) \/ HoldsOf(D, m) => MadeFor(d, made, m)
UsesAdded(by, s, D, m) == by[m] = Uses(s, m) + Held(D, m)
UnnamedLeft(these, table, m) ==
  these[m] = IF m > Len(mats) /\ table[m].name = None THEN 1 ELSE 0

(* The old entities' references go, the new ones' and those of the slots held *)
(* back come, and a material without a name is left to them.                 *)
LEMMA ReplacedOwed ==
  ASSUME FilesInv, AccountsInv, Waiting = leaked,
         NEW d, WholeScene(d), NEW made, made = MadeMaterials(d),
         NEW entities, FewUsed(entities), NEW deferred, FewSlots(deferred),
         NEW m \in DOMAIN made.mats,
         UsesMade(entities, deferred, d, made, m), NEW by, UsesAdded(by, entities, deferred, m),
         NEW these, UnnamedLeft(these, made.mats, m),
         NEW table, table = Released(Retained(Released(made.mats, UsesOf(made.mats, scene)), by), these)
  PROVE  /\ Owed(table, m, Uses(entities, m) + (Held(deferred, m) + Held(leaked, m)))
         /\ m \in DOMAIN mats => table[m].name = mats[m].name
<1>1. /\ Len(mats) \in Nat /\ DOMAIN mats = 1 .. Len(mats) /\ TablesKept
  BY TablesTyped DEF FilesInv
<1>2. PICK M : /\ M = made.mats /\ SoundMaterials(M) /\ Len(mats) <= Len(M)
               /\ \A j \in DOMAIN mats : M[j].refs = mats[j].refs /\ M[j].name = mats[j].name
               /\ \A j \in DOMAIN M : j \notin DOMAIN mats => M[j].refs = 1
               /\ \A k \in DOMAIN d.materials : made.handles[k] \in DOMAIN mats => mats[made.handles[k]].name # None
  BY <1>1, MaterialsAreMade
<1>3. PICK gone : gone = UsesOf(M, scene)
  OBVIOUS
<1>4. PICK A, B : A = Released(M, gone) /\ B = Retained(A, by)
  OBVIOUS
<1>5. table = Released(B, these)
  BY <1>2, <1>3, <1>4
<1>6. FewUsed(scene) /\ FewSlots(leaked)
  BY EachIsOwed, WaitingIs
<1>7. PICK u, v, w, h : /\ u = Uses(scene, m) /\ v = Uses(entities, m) /\ w = Held(deferred, m)
                        /\ h = Held(leaked, m)
                        /\ u \in Nat /\ v \in Nat /\ w \in Nat /\ h \in Nat
                        /\ (u = 0 <=> ~ Shows(scene, m)) /\ (v = 0 <=> ~ Shows(entities, m))
                        /\ (w = 0 <=> ~ HoldsOf(deferred, m)) /\ (h = 0 <=> ~ HoldsOf(leaked, m))
  BY <1>6, UsesFacts, HeldFacts
<1>8. m \in DOMAIN M /\ gone[m] = u /\ by[m] = v + w /\ v + w \in Nat
  BY <1>2, <1>3, <1>7 DEF UsesOf, UsesAdded
<1>14. these[m] = IF m > Len(mats) /\ M[m].name = None THEN 1 ELSE 0
  BY <1>2 DEF UnnamedLeft
<1>9. SoundMaterial(M[m])
  BY <1>2, <1>8 DEF SoundMaterials
<1>10. SoundMaterials(A) /\ SoundMaterials(B) /\ DOMAIN A = DOMAIN M /\ DOMAIN B = DOMAIN M
  <2>1. SoundMaterials(A) /\ Len(A) = Len(M)
    BY <1>2, <1>4, RefsOnly
  <2>2. SoundMaterials(B) /\ Len(B) = Len(M)
    BY <1>4, <2>1, RefsOnly
  <2>. QED
    BY <1>2, <2>1, <2>2 DEF SoundMaterials
<1>11. SoundMaterial(A[m]) /\ SoundMaterial(B[m]) /\ m \in DOMAIN A /\ m \in DOMAIN B
  BY <1>8, <1>10 DEF SoundMaterials
<1>12. CASE m \in DOMAIN mats
  <2>1. Owed(M, m, u + h)
    BY <1>2, <1>7, <1>12, EachIsOwed DEF Owed
  <2>2. PICK n : n = u + h /\ u <= n /\ n - u = h
    BY <1>7
  <2>3. Owed(A, m, h) /\ A[m].name = mats[m].name
    <3>1. Owed(A, m, n - u) /\ A[m].name = M[m].name
      BY <1>4, <1>7, <1>8, <1>9, <2>1, <2>2, ReleasedOwed
    <3>. QED
      BY <1>2, <1>12, <2>2, <3>1
  <2>4. A[m].refs = 0 => v + w = 0
    <3>1. v # 0 \/ w # 0 => mats[m].name # None
      <4>1. v # 0 \/ w # 0 => MadeFor(d, made, m)
        BY <1>7 DEF UsesMade
      <4>. QED
        BY <1>2, <1>12, <4>1 DEF MadeFor
    <3>2. mats[m].name # None => A[m].refs # 0
      BY <1>7, <2>3 DEF Owed
    <3>. QED
      BY <1>7, <3>1, <3>2
  <2>5. Owed(B, m, h + (v + w)) /\ B[m].name = mats[m].name
    BY <1>4, <1>8, <1>11, <2>3, <2>4, RetainedOwed
  <2>6. these[m] = 0
    BY <1>1, <1>12, <1>14
  <2>7. PICK c : c = h + (v + w) /\ 0 <= c /\ c - 0 = v + (w + h)
    BY <1>7
  <2>8. Owed(Released(B, these), m, c - 0) /\ Released(B, these)[m].name = B[m].name
    BY <1>11, <2>5, <2>6, <2>7, ReleasedOwed
  <2>. QED
    BY <1>5, <1>7, <2>5, <2>7, <2>8
<1>13. CASE m \notin DOMAIN mats
  <2>1. m \notin 0 .. Len(mats) /\ m > Len(mats)
    <3>1. m \in 1 .. Len(M) /\ Len(M) \in Nat
      BY <1>2, <1>8 DEF SoundMaterials
    <3>. QED
      BY <1>1, <1>13, <3>1
  <2>2. u = 0 /\ h = 0
    BY <1>7, <2>1, EachIsOwed
  <2>3. M[m].refs = 1
    BY <1>2, <1>8, <1>13
  <2>4. PICK g : g = (IF M[m].name # None THEN 0 ELSE 1) /\ g \in Nat /\ Owed(M, m, g) /\ g - 0 = g /\ 0 <= g
    BY <2>3 DEF Owed
  <2>5. Owed(A, m, g) /\ A[m].name = M[m].name
    <3>2. gone[m] = 0
      BY <1>8, <2>2
    <3>3. Owed(M, m, g) /\ 0 <= g
      BY <2>4
    <3>1. Owed(A, m, g - 0) /\ A[m].name = M[m].name
      BY <1>4, <1>8, <1>9, <3>2, <3>3, ReleasedOwed
    <3>. QED
      BY <2>4, <3>1
  <2>6. A[m].refs # 0
    BY <2>4, <2>5 DEF Owed
  <2>7. Owed(B, m, g + (v + w))
    BY <1>4, <1>8, <1>11, <2>5, <2>6, RetainedOwed
  <2>8. these[m] = g
    BY <1>14, <2>1, <2>4
  <2>9. PICK c : c = g + (v + w) /\ g <= c /\ c - g = v + (w + h)
    BY <1>7, <2>2, <2>4
  <2>10. Owed(Released(B, these), m, c - g)
    BY <1>11, <2>4, <2>7, <2>8, <2>9, ReleasedOwed
  <2>. QED
    BY <1>5, <1>7, <1>13, <2>9, <2>10
<1>. QED
  BY <1>12, <1>13

(* A model that the new scene waits for was not there before it.             *)
LEMMA DeferredAreNew ==
  ASSUME FilesInv, AccountsInv, NEW d, WholeScene(d),
         NEW resolved, resolved = ResolvedModels(d.models), NEW made,
         NEW entities, entities = EntitiesMade(d, resolved, made),
         NEW x \in Deferred(d, resolved, made, entities)
  PROVE  x.model \in 0 .. Len(resolved.models) /\ x.model > Len(models)
<1>1. Len(models) \in Nat /\ DOMAIN models = 1 .. Len(models) /\ 1 <= Len(models) /\ TablesKept
  BY TablesTyped DEF FilesInv, TablesKept
<1>2. /\ resolved.models \in Seq(Range(resolved.models)) /\ Len(models) <= Len(resolved.models)
      /\ \A k \in DOMAIN d.models : resolved.handles[k] \in 1 .. Len(resolved.models)
      /\ \A h \in DOMAIN models : resolved.models[h] = models[h]
      /\ \A k \in DOMAIN d.models : resolved.handles[k] # Cube /\ resolved.handles[k] <= Len(models) =>
            models[resolved.handles[k]].state = "ready"
  <2>1. PICK files : files = d.models /\ files \in Seq(Range(files))
    BY DEF WholeScene
  <2>. QED
    BY <1>1, <2>1, ModelsResolved
<1>3. PICK i \in DOMAIN entities :
        x = [entity |-> i, model |-> entities[i].model, slots |-> SlotsOf(d, made, i)]
  BY DEF Deferred
<1>4. x.model = entities[i].model /\ Loading(resolved.models, x.model)
  BY <1>3 DEF Deferred
<1>5. PICK e : e = entities[i] /\ e = EntityMade(d, resolved, made, i)
  BY DEF EntitiesMade
<1>6. e.model # 0
  BY <1>4, <1>5 DEF Loading
<1>7. PICK k \in DOMAIN d.models : e.model = resolved.handles[k]
  BY <1>5, <1>6, EntityMadeFor
<1>8. PICK h : h = resolved.handles[k] /\ h \in 1 .. Len(resolved.models) /\ x.model = h
  BY <1>2, <1>4, <1>5, <1>7
<1>9. h > Len(models)
  <2>1. resolved.models[h].state # "ready"
    BY <1>4, <1>8 DEF Loading
  <2>2. models[1].state = "ready"
    BY DEF AccountsInv, NamesKept
  <2>3. ASSUME h <= Len(models) PROVE FALSE
    <3>1. h \in DOMAIN models /\ resolved.models[h] = models[h]
      BY <1>1, <1>2, <1>8, <2>3
    <3>2. models[h].state = "ready"
      BY <1>2, <1>8, <2>2, <2>3 DEF Cube
    <3>. QED
      BY <2>1, <3>1, <3>2
  <2>4. Len(resolved.models) \in Nat
    BY <1>2
  <2>. QED
    BY <1>1, <1>8, <2>3, <2>4
<1>10. Len(resolved.models) \in Nat
  BY <1>2
<1>. QED
  BY <1>8, <1>9, <1>10

LEMMA LoadInstantiatedAccounts ==
  ASSUME FilesInv, AccountsInv, load # NoLoad, LoadInstantiated, UNCHANGED leaked
  PROVE  AccountsInv'
<1>1. PICK d : d = load.read.scene /\ WholeScene(d)
  BY DEF LoadInstantiated, FilesInv, LoadKept
<1>2. PICK resolved, made, entities, deferred, now :
        /\ resolved = ResolvedModels(d.models) /\ made = MadeMaterials(d)
        /\ entities = EntitiesMade(d, resolved, made)
        /\ deferred = Deferred(d, resolved, made, entities)
        /\ now = Replaced(resolved, made, entities, deferred)
        /\ Progressed(Applied(now))
  BY <1>1 DEF LoadInstantiated
<1>3. /\ SoundNow(now) /\ FewSlots(deferred)
      /\ SoundScene(entities, Len(resolved.models), Len(made.mats))
      /\ now.scene = entities /\ now.models = resolved.models /\ now.load.deferred = deferred
  BY <1>1, <1>2, ReplacedSound
<1>4. PICK by, these :
        /\ by = [m \in DOMAIN made.mats |-> Uses(entities, m) + Held(deferred, m)]
        /\ these = OneOf(made.mats, {m \in DOMAIN made.mats : m > Len(mats) /\ made.mats[m].name = None})
  OBVIOUS
<1>5. PICK table : /\ table = Released(Retained(Released(made.mats, UsesOf(made.mats, scene)), by), these)
                   /\ now.mats = table
  BY <1>2, <1>4 DEF Replaced
<1>6. Waiting = leaked /\ FewSlots(leaked)
  <2>1. load.deferred = {}
    BY DEF LoadInstantiated, AccountsInv, DeferredApart
  <2>. QED
    BY <2>1, WaitingIs DEF Waiting
<1>7. /\ Len(mats) \in Nat /\ DOMAIN mats = 1 .. Len(mats) /\ TablesKept
      /\ Len(models) \in Nat /\ DOMAIN models = 1 .. Len(models) /\ 1 <= Len(models)
      /\ Len(GameMaterials) \in Nat /\ Len(GameMaterials) <= Len(mats)
      /\ DOMAIN GameMaterials = 1 .. Len(GameMaterials)
  BY TablesTyped, FirstTables DEF FilesInv, TablesKept, SoundMaterials
<1>8. FewUsed(entities)
  BY <1>3, SoundIsFew
<1>11. /\ SoundMaterials(made.mats) /\ Len(mats) <= Len(made.mats)
       /\ DOMAIN made.mats = 1 .. Len(made.mats) /\ Len(made.mats) \in Nat
  <2>1. SoundMaterials(made.mats) /\ Len(mats) <= Len(made.mats)
    BY <1>1, <1>2, <1>7, MaterialsAreMade
  <2>. QED
    BY <2>1 DEF SoundMaterials
<1>10. ASSUME NEW m \in DOMAIN made.mats
       PROVE  /\ Owed(table, m, Uses(entities, m) + (Held(deferred, m) + Held(leaked, m)))
              /\ m \in DOMAIN mats => table[m].name = mats[m].name
  <2>1. UsesAdded(by, entities, deferred, m)
    BY <1>4 DEF UsesAdded
  <2>2. UnnamedLeft(these, made.mats, m)
    BY <1>4 DEF OneOf, UnnamedLeft
  <2>3. m # 0
    BY <1>11
  <2>4. UsesMade(entities, deferred, d, made, m)
    BY <1>1, <1>2, <2>3, MadeForShows DEF UsesMade
  <2>5. WholeScene(d) /\ made = MadeMaterials(d)
    BY <1>1, <1>2
  <2>6. FewSlots(deferred)
    BY <1>3
  <2>7. table = Released(Retained(Released(made.mats, UsesOf(made.mats, scene)), by), these)
    BY <1>5
  <2>. QED
    BY <1>6, <1>8, <2>1, <2>2, <2>4, <2>5, <2>6, <2>7, ReplacedOwed
<1>12. DOMAIN table = DOMAIN made.mats /\ Len(table) = Len(made.mats)
  <2>1. PICK A, B : A = Released(made.mats, UsesOf(made.mats, scene)) /\ B = Retained(A, by)
    OBVIOUS
  <2>2. SoundMaterials(A) /\ Len(A) = Len(made.mats)
    BY <1>11, <2>1, RefsOnly
  <2>3. SoundMaterials(B) /\ Len(B) = Len(made.mats)
    BY <2>1, <2>2, RefsOnly
  <2>4. SoundMaterials(table) /\ Len(table) = Len(made.mats)
    BY <1>5, <2>1, <2>3, RefsOnly
  <2>. QED
    BY <1>11, <2>4 DEF SoundMaterials
<1>13. /\ Len(models) <= Len(resolved.models) /\ resolved.models[1] = models[1]
  <2>1. PICK files : files = d.models /\ files \in Seq(Range(files))
    BY <1>1 DEF WholeScene
  <2>2. /\ Len(models) <= Len(resolved.models)
        /\ \A h \in DOMAIN models : resolved.models[h] = models[h]
    BY <1>2, <1>7, <2>1, ModelsResolved
  <2>. QED
    BY <1>7, <2>2
<1>14. ASSUME NEW x \in deferred
       PROVE  x.model \in 0 .. Len(resolved.models) /\ \A y \in leaked : y.model # x.model
  <2>1. x.model \in 0 .. Len(resolved.models) /\ x.model > Len(models)
    BY <1>1, <1>2, DeferredAreNew
  <2>2. \A y \in leaked : y.model \in 0 .. Len(models)
    BY DEF AccountsInv, LeakedKept
  <2>. QED
    BY <1>7, <2>1, <2>2
<1>15. CountedNow(now)
  <2>1. \A m \in DOMAIN GameMaterials : GameMaterials[m].name # None => table[m].name # None
    <3>1. \A m \in DOMAIN GameMaterials : m \in DOMAIN mats /\ m \in DOMAIN made.mats
      BY <1>7, <1>11
    <3>. QED
      BY <1>10, <3>1 DEF AccountsInv, NamesKept
  <2>2. models[1].state = "ready"
    BY DEF AccountsInv, NamesKept
  <2>. QED
    BY <1>3, <1>5, <1>10, <1>11, <1>12, <1>13, <1>14, <2>1, <2>2 DEF CountedNow
<1>16. PICK then : then = Applied(now) /\ SoundNow(then) /\ CountedNow(then) /\ Progressed(then)
  BY <1>2, <1>3, <1>6, <1>15, OverridesArrive, AppliedCounts
<1>. QED
  BY <1>16, ProgressCounts

-----------------------------------------------------------------------------
(* The beginning, the beginning again, and every step.                       *)

LEMMA FirstAccounts ==
  ASSUME NEW s, s = Populated, NEW t, t = GameMaterials, NEW m \in DOMAIN t
  PROVE  t[m].refs = Uses(s, m) + Held({}, m) + (IF t[m].name # None THEN 1 ELSE 0)
<1>1. FewSlots({}) /\ ~ HoldsOf({}, m)
  BY FS_EmptySet DEF FewSlots, HoldsOf
<1>2. Held({}, m) = 0
  BY <1>1, HeldFacts
<1>3. FewUsed(Populated)
  BY FirstTables, SoundIsFew
<1>4. Uses(s, m) \in Nat
  BY <1>3, UsesFacts
<1>5. t[m].refs = Uses(s, m) + (IF t[m].name # None THEN 1 ELSE 0)
  BY GameAssumption
<1>. QED
  BY <1>2, <1>4, <1>5

LEMMA FirstIsAccounted == FilesInit => AccountsInv
<1> SUFFICES ASSUME FilesInit PROVE AccountsInv
  OBVIOUS
<1>1. /\ scene = Populated /\ mats = GameMaterials /\ models = FirstModels
      /\ load.deferred = {} /\ leaked = {}
  BY DEF FilesInit, NoLoad
<1>2. NamesKept
  BY <1>1 DEF NamesKept, FirstModels
<1>3. LeakedKept /\ DeferredApart
  BY <1>1, FS_EmptySet DEF LeakedKept, DeferredApart, FewSlots
<1>4. MaterialsAreAccountedFor
  <2>1. load.deferred \cup leaked = {}
    BY <1>1
  <2>. QED
    BY <1>1, <2>1, FirstAccounts DEF MaterialsAreAccountedFor
<1>. QED
  BY <1>2, <1>3, <1>4 DEF AccountsInv

LEMMA CrashAccounts ==
  ASSUME Crash
  PROVE  AccountsInv'
<1>1. /\ scene' = Populated /\ mats' = GameMaterials /\ models' = FirstModels
      /\ load'.deferred = {} /\ leaked' = {}
  BY DEF Crash, NoLoad
<1>2. NamesKept'
  BY <1>1 DEF NamesKept, FirstModels
<1>3. LeakedKept' /\ DeferredApart'
  BY <1>1, FS_EmptySet DEF LeakedKept, DeferredApart, FewSlots
<1>4. MaterialsAreAccountedFor'
  <2>1. load'.deferred \cup leaked' = {}
    BY <1>1
  <2>. QED
    BY <1>1, <2>1, FirstAccounts DEF MaterialsAreAccountedFor
<1>. QED
  BY <1>2, <1>3, <1>4 DEF AccountsInv

LEMMA AccountsInvariant == FilesSpec => []AccountsInv
<1>1. ASSUME FilesInv, AccountsInv, [FilesNext]_filesVars PROVE AccountsInv'
  <2>1. CASE User
    <3>1. CASE \E i \in DOMAIN scene : Move(i) \/ EditComponent(i) \/ OverrideSlot(i)
      BY <1>1, <3>1, ValuesAccounts, OverrideSlotAccounts
    <3>2. CASE EditSettings
      BY <1>1, <3>2, ScenesAccounts DEF EditSettings, EditValues, EditScene
    <3>3. CASE \E m \in DOMAIN mats : EditMaterial(m)
      BY <1>1, <3>3, EditMaterialAccounts
    <3>. QED
      BY <1>1, <2>1, <3>1, <3>2, <3>3, DropModelAccounts, DeleteAccounts,
         PopulateAgainAccounts, DialogAccounts DEF User
  <2>2. CASE SaveCooks \/ SaveReplaces \/ SaveFails \/ LoadOpens \/ LoadReads
    BY <1>1, <2>2, JobAccounts
  <2>3. CASE \E h \in DOMAIN models : ModelSettles(h)
    BY <1>1, <2>3, ModelSettlesAccounts
  <2>4. CASE UpdateSave
    BY <1>1, <2>4, DialogAccounts
  <2>5. CASE UpdateLoad
    BY <1>1, <2>5, JobAccounts, LoadStreamsAccounts, LoadInstantiatedAccounts DEF UpdateLoad
  <2>6. CASE Crash
    BY <2>6, CrashAccounts
  <2>7. CASE UNCHANGED filesVars
    BY <1>1, <2>7, ScenesAccounts DEF filesVars
  <2>. QED
    BY <1>1, <2>1, <2>2, <2>3, <2>4, <2>5, <2>6, <2>7 DEF FilesNext
<1>. QED
  BY <1>1, FirstIsAccounted, FilesInvariant, PTL DEF FilesSpec

(* MaterialsAreAccountedFor for any game, files, models and edits: no        *)
(* sequence of overriding, deleting, opening, dropping a load, failing and   *)
(* populating again frees a material that something shows or keeps one that  *)
(* nothing does, but for what dropped loads held (set_material_override(),   *)
(* instantiate_scene(), apply_deferred_slot_overrides()).                    *)
THEOREM MaterialsAccounted == FilesSpec => []MaterialsAreAccountedFor
<1>1. AccountsInv => MaterialsAreAccountedFor
  BY DEF AccountsInv
<1>. QED
  BY <1>1, AccountsInvariant, PTL

-----------------------------------------------------------------------------
(* The editor.  What its loops do, first.                                     *)

LEMMA ElementsOf ==
  ASSUME NEW S, NEW s \in Seq(S)
  PROVE  /\ DOMAIN s = 1 .. Len(s) /\ Len(s) \in Nat
         /\ \A i \in 1 .. Len(s) : s[i] \in S
OBVIOUS

LEMMA MoreSequences ==
  ASSUME NEW A, NEW B, A \subseteq B
  PROVE  Seq(A) \subseteq Seq(B)
OBVIOUS

LEMMA EmptyIs ==
  ASSUME NEW S, NEW s \in Seq(S), Len(s) = 0
  PROVE  s = << >>
OBVIOUS

LEMMA OneFirst ==
  ASSUME NEW S, NEW s \in Seq(S), NEW t \in Seq(S), Len(s) = 1
  PROVE  s \o t \in Seq(S) /\ 1 \in DOMAIN (s \o t) /\ (s \o t)[1] = s[1]
<1>1. s \o t \in Seq(S) /\ DOMAIN s = 1 .. Len(s)
  OBVIOUS
<1>2. \A l \in DOMAIN s : l \in DOMAIN (s \o t) /\ (s \o t)[l] = s[l]
  OBVIOUS
<1> QED
  BY <1>1, <1>2

(* The loops.                                                               *)

AmongStep(S, t, x) == IF x \in S THEN Append(t, x) ELSE t
Sieving == INSTANCE FoldFacts WITH Step <- AmongStep

LEMMA AmongFacts ==
  ASSUME NEW T, NEW s \in Seq(T), NEW S
  PROVE  Among(s, S) \in Seq(S \cap T)
<1> DEFINE n == Len(s)
           I == (0 .. n) \X Seq(S \cap T)
<1>1. n \in Nat /\ DOMAIN s = 1 .. n /\ \A i \in 1 .. n : s[i] \in T
  OBVIOUS
<1>2. << 0, << >> >> \in I
  <2>1. PICK e : e = << >>
    OBVIOUS
  <2>2. e \in Seq(S \cap T) /\ 0 \in 0 .. n
    BY <1>1, <2>1
  <2>3. << 0, e >> \in I
    BY <2>2
  <2> QED
    BY <2>1, <2>3
<1>3. ASSUME NEW i \in 1 .. n, NEW t, << i - 1, t >> \in I
      PROVE  << i, AmongStep(S, t, s[i]) >> \in I
  <2>1. t \in Seq(S \cap T) /\ i \in 0 .. n
    BY <1>3
  <2>2. AmongStep(S, t, s[i]) \in Seq(S \cap T)
    BY <1>1, <2>1 DEF AmongStep
  <2> QED
    BY <2>1, <2>2
<1> HIDE DEF I, n
<1>4. << n, Sieving!Run(S, << >>, s) >> \in I
  BY <1>1, <1>2, <1>3, Sieving!RunKeeps
<1>5. Sieving!Run(S, << >>, s) = Among(s, S)
  BY Zenon DEF Sieving!Run, Among, AmongStep, FoldLeft, Sieving!FoldLeft, MapThenFoldSet,
               Sieving!MapThenFoldSet, Max, Sieving!Max
<1> QED
  BY <1>4, <1>5 DEF I

(* Sequences one after the other.                                           *)
FlatStep(p, t, x) == t \o x
Flattening == INSTANCE FoldFacts WITH Step <- FlatStep

Flattens(flat, s, n) ==
  /\ flat[0] = << >> /\ flat[n] = FlattenSeq(s)
  /\ \A i \in 1 .. n : flat[i] = flat[i - 1] \o s[i]

LEMMA FlattenedStepwise ==
  ASSUME NEW T, NEW s \in Seq(Seq(T))
  PROVE  \E flat : Flattens(flat, s, Len(s))
<1>0. PICK n : n = Len(s)
  OBVIOUS
<1> DEFINE Solution(f) == f = [i \in 1 .. n |-> IF i = 1 THEN s[i] ELSE f[i - 1] \o s[i]]
           flat == CHOOSE f : Solution(f)
           all == [i \in 0 .. n |-> IF i = 0 THEN << >> ELSE flat[i]]
<1>1. n \in Nat /\ DOMAIN s = 1 .. n /\ \A i \in 1 .. n : s[i] \in Seq(T)
  BY <1>0
<1>2. CASE n = 0
  <2>0. Len(s) = 0 /\ s = << >>
    BY <1>0, <1>2, EmptyIs
  <2>1. FlattenSeq(s) = s /\ s = << >>
    BY <2>0, Zenon DEF FlattenSeq
  <2>2. all[0] = << >> /\ all[n] = << >>
    BY <1>2
  <2>3. \A i \in 1 .. n : all[i] = all[i - 1] \o s[i]
    BY <1>2
  <2> HIDE DEF all
  <2> QED
    BY <1>0, <2>1, <2>2, <2>3 DEF Flattens
<1>3. CASE n # 0
  <2>1. PICK after : /\ after[0] = << >>
                     /\ \A i \in 1 .. n : after[i] = FlatStep(0, after[i - 1], s[i])
    <3>1. Flattening!Stepwise(0, << >>, s, n, Flattening!Run(0, << >>, s))
      BY <1>1, Flattening!RunIsStepwise
    <3> QED
      BY <3>1, Zenon DEF Flattening!Stepwise
  <2> DEFINE g == [i \in 1 .. n |-> after[i]]
  <2>9. ASSUME NEW x \in Seq(T) PROVE << >> \o x = x
    OBVIOUS
  <2>2. ASSUME NEW i \in 1 .. n
        PROVE  g[i] = IF i = 1 THEN s[i] ELSE g[i - 1] \o s[i]
    <3>1. CASE i = 1
      <4>1. g[i] = after[0] \o s[1]
        <5>1. 1 \in 1 .. n /\ 1 - 1 = 0
          BY <3>1
        <5>2. after[1] = FlatStep(0, after[0], s[1])
          BY <2>1, <5>1
        <5> QED
          BY <3>1, <5>1, <5>2 DEF FlatStep
      <4>2. s[1] \in Seq(T)
        BY <1>1, <3>1
      <4> QED
        BY <2>1, <2>9, <3>1, <4>1, <4>2
    <3>2. CASE i # 1
      <4>1. i - 1 \in 1 .. n
        BY <1>1, <3>2
      <4> QED
        BY <1>1, <2>1, <3>2, <4>1 DEF FlatStep
    <3> QED
      BY <3>1, <3>2
  <2>3. Solution(g)
    BY <2>2
  <2> HIDE DEF g
  <2>4. Solution(flat)
    BY <2>3, Zenon
  <2>5. FlattenSeq(s) = flat[n]
    BY <1>0, <1>3, Zenon DEF FlattenSeq, flat
  <2> HIDE DEF flat
  <2>6. all[0] = << >> /\ all[n] = FlattenSeq(s)
    BY <1>1, <1>3, <2>5
  <2>7. ASSUME NEW i \in 1 .. n PROVE all[i] = all[i - 1] \o s[i]
    <3>1. CASE i = 1
      <4>1. all[i] = s[i] /\ all[i - 1] = << >> /\ s[i] \in Seq(T)
        BY <1>1, <2>4, <3>1
      <4> QED
        BY <2>9, <4>1
    <3>2. CASE i # 1
      <4>1. i - 1 \in 1 .. n /\ i - 1 # 0
        BY <1>1, <3>2
      <4>2. all[i] = flat[i] /\ all[i - 1] = flat[i - 1]
        BY <1>1, <4>1
      <4> QED
        BY <2>4, <3>2, <4>2
    <3> QED
      BY <3>1, <3>2
  <2> HIDE DEF all
  <2> QED
    BY <1>0, <2>6, <2>7 DEF Flattens
<1> QED
  BY <1>2, <1>3

LEMMA FlattenedIs ==
  ASSUME NEW T, NEW s \in Seq(Seq(T))
  PROVE  /\ FlattenSeq(s) \in Seq(T)
         /\ \A i \in DOMAIN s : \A j \in DOMAIN s[i] :
              \E k \in DOMAIN FlattenSeq(s) : FlattenSeq(s)[k] = s[i][j]
<1>1. PICK n : n = Len(s)
  OBVIOUS
<1>2. n \in Nat /\ DOMAIN s = 1 .. n /\ \A i \in 1 .. n : s[i] \in Seq(T)
  BY <1>1
<1>3. PICK flat : /\ flat[0] = << >> /\ flat[n] = FlattenSeq(s)
                  /\ \A i \in 1 .. n : flat[i] = flat[i - 1] \o s[i]
  BY <1>1, FlattenedStepwise, Zenon DEF Flattens
<1> DEFINE HasAll(f, i) == \A k \in 1 .. i : \A j \in DOMAIN s[k] : \E l \in DOMAIN f : f[l] = s[k][j]
           K == { i \in Nat : i <= n => flat[i] \in Seq(T) /\ HasAll(flat[i], i) }
<1>4. 0 \in K
  <2>1. flat[0] \in Seq(T)
    BY <1>3
  <2>2. HasAll(flat[0], 0)
    OBVIOUS
  <2> HIDE DEF HasAll
  <2> QED
    BY <2>1, <2>2
<1>5. ASSUME NEW i \in Nat, i \in K PROVE i + 1 \in K
  <2> SUFFICES ASSUME i + 1 <= n PROVE flat[i + 1] \in Seq(T) /\ HasAll(flat[i + 1], i + 1)
    <3> HIDE DEF HasAll
    <3> QED
      OBVIOUS
  <2>1. i + 1 \in 1 .. n /\ (i + 1) - 1 = i /\ i <= n
    BY <1>2
  <2>2. PICK f : f = flat[i]
    OBVIOUS
  <2>3. PICK x : x = s[i + 1]
    OBVIOUS
  <2>4. f \in Seq(T) /\ HasAll(f, i) /\ x \in Seq(T) /\ flat[i + 1] = f \o x
    BY <1>2, <1>3, <1>5, <2>1, <2>2, <2>3
  <2>5. /\ f \o x \in Seq(T)
        /\ \A l \in DOMAIN f : l \in DOMAIN (f \o x) /\ (f \o x)[l] = f[l]
        /\ \A l \in DOMAIN x : Len(f) + l \in DOMAIN (f \o x) /\ (f \o x)[Len(f) + l] = x[l]
    BY <2>4
  <2>6. \A k \in 1 .. i + 1 : k \in 1 .. i \/ k = i + 1
    OBVIOUS
  <2>7. HasAll(f \o x, i + 1)
    BY <2>3, <2>4, <2>5, <2>6
  <2> HIDE DEF HasAll
  <2> QED
    BY <2>4, <2>5, <2>7
<1> HIDE DEF K
<1>6. n \in K
  BY <1>2, <1>4, <1>5, Flattening!NumbersReached
<1>7. flat[n] \in Seq(T) /\ HasAll(flat[n], n)
  BY <1>2, <1>6 DEF K
<1> QED
  BY <1>2, <1>3, <1>7

-----------------------------------------------------------------------------
(* The tree.                                                                *)

ReachStep(reg, met, e) == met \cup { c \in Listed(reg) : ParentOf(reg, c) \in met }
Reaching == INSTANCE FoldFacts WITH Step <- ReachStep

Grown(reg, met) == met \cup { c \in Listed(reg) : ParentOf(reg, c) \in met }

(* What is met in the first i rounds.                                       *)
Rounds(reg, after, n) ==
  /\ after[0] = Starts(reg)
  /\ \A i \in 0 .. n - 1 : after[i + 1] = Grown(reg, after[i])
  /\ after[n] = Reached(reg)

LEMMA ReachedInRounds ==
  ASSUME NEW reg, NEW n \in Nat, DOMAIN reg = 1 .. n
  PROVE  \E after : Rounds(reg, after, n)
<1>1. Reaching!Stepwise(reg, Starts(reg), reg, n, Reaching!Run(reg, Starts(reg), reg))
  BY Reaching!RunIsStepwise
<1>2. Reaching!Run(reg, Starts(reg), reg) = Reached(reg)
  BY Zenon DEF Reaching!Run, Reached, ReachStep, FoldLeft, Reaching!FoldLeft, MapThenFoldSet,
               Reaching!MapThenFoldSet, Max, Reaching!Max
<1>3. PICK after : /\ after[0] = Starts(reg)
                   /\ \A i \in 1 .. n : after[i] = ReachStep(reg, after[i - 1], reg[i])
                   /\ after[n] = Reached(reg)
  BY <1>1, <1>2, Zenon DEF Reaching!Stepwise
<1>4. ASSUME NEW i \in 0 .. n - 1 PROVE after[i + 1] = Grown(reg, after[i])
  <2>1. i + 1 \in 1 .. n /\ (i + 1) - 1 = i
    OBVIOUS
  <2>2. after[i + 1] = ReachStep(reg, after[(i + 1) - 1], reg[i + 1])
    BY <1>3, <2>1
  <2> QED
    BY <2>1, <2>2 DEF ReachStep, Grown
<1> QED
  BY <1>3, <1>4, Zenon DEF Rounds

LEMMA RoundsGrow ==
  ASSUME NEW reg, NEW n \in Nat, NEW after, Rounds(reg, after, n)
  PROVE  /\ \A i \in 0 .. n : after[i] \subseteq Listed(reg)
         /\ \A i, j \in 0 .. n : i <= j => after[i] \subseteq after[j]
<1> DEFINE A == { i \in Nat : i <= n => after[i] \subseteq Listed(reg) }
<1>1. 0 \in A
  BY DEF Rounds, Starts
<1>2. ASSUME NEW i \in Nat, i \in A PROVE i + 1 \in A
  <2> SUFFICES ASSUME i + 1 <= n PROVE after[i + 1] \subseteq Listed(reg)
    OBVIOUS
  <2>1. i \in 0 .. n - 1 /\ i <= n
    OBVIOUS
  <2>2. after[i] \subseteq Listed(reg)
    BY <1>2, <2>1
  <2> QED
    BY <2>1, <2>2 DEF Rounds, Grown
<1> HIDE DEF A
<1>3. Nat \subseteq A
  BY <1>1, <1>2, Reaching!NumbersReached
<1>4. \A i \in 0 .. n : after[i] \subseteq Listed(reg)
  BY <1>3 DEF A
<1>5. ASSUME NEW i \in 0 .. n
      PROVE  \A j \in 0 .. n : i <= j => after[i] \subseteq after[j]
  <2> DEFINE B == { d \in Nat : i + d <= n => after[i] \subseteq after[i + d] }
  <2>1. 0 \in B
    OBVIOUS
  <2>2. ASSUME NEW d \in Nat, d \in B PROVE d + 1 \in B
    <3> SUFFICES ASSUME i + (d + 1) <= n PROVE after[i] \subseteq after[i + (d + 1)]
      OBVIOUS
    <3>1. i + d \in 0 .. n - 1 /\ i + d <= n /\ i + (d + 1) = (i + d) + 1
      OBVIOUS
    <3>2. after[i] \subseteq after[i + d]
      BY <2>2, <3>1
    <3>3. after[(i + d) + 1] = Grown(reg, after[i + d])
      BY <3>1 DEF Rounds
    <3> QED
      BY <3>1, <3>2, <3>3 DEF Grown
  <2> HIDE DEF B
  <2>3. Nat \subseteq B
    BY <2>1, <2>2, Reaching!NumbersReached
  <2>4. ASSUME NEW j \in 0 .. n, i <= j PROVE after[i] \subseteq after[j]
    <3>1. j - i \in Nat /\ i + (j - i) = j /\ i + (j - i) <= n
      BY <2>4
    <3>2. i + (j - i) <= n => after[i] \subseteq after[i + (j - i)]
      BY <2>3, <3>1 DEF B
    <3> QED
      BY <3>1, <3>2
  <2> QED
    BY <2>4
<1> QED
  BY <1>4, <1>5

(* The rounds come to an end: what is below something that is met is met.     *)
LEMMA ReachedIsClosed ==
  ASSUME NEW reg, NEW n \in Nat, DOMAIN reg = 1 .. n, None \notin Nat
  PROVE  /\ Reached(reg) \subseteq Listed(reg)
         /\ \A c \in Listed(reg) : ParentOf(reg, c) \in Reached(reg) => c \in Reached(reg)
<1>1. PICK after : Rounds(reg, after, n)
  BY ReachedInRounds, Zenon
<1>2. /\ \A i \in 0 .. n : after[i] \subseteq Listed(reg)
      /\ \A i, j \in 0 .. n : i <= j => after[i] \subseteq after[j]
  BY <1>1, RoundsGrow, Zenon
<1>3. Reached(reg) \subseteq Listed(reg)
  <2>1. n \in 0 .. n
    OBVIOUS
  <2> QED
    BY <1>1, <1>2, <2>1 DEF Rounds
<1>4. Listed(reg) \subseteq 1 .. n
  BY DEF Listed, Entities
<1>5. IsFiniteSet(1 .. n) /\ Cardinality(1 .. n) = n
  BY FS_Interval
<1>6. \A i \in 0 .. n : IsFiniteSet(after[i]) /\ Cardinality(after[i]) \in Nat /\ Cardinality(after[i]) <= n
  <2> SUFFICES ASSUME NEW i \in 0 .. n
               PROVE  IsFiniteSet(after[i]) /\ Cardinality(after[i]) \in Nat /\ Cardinality(after[i]) <= n
    OBVIOUS
  <2>1. after[i] \subseteq 1 .. n
    BY <1>2, <1>4
  <2>2. IsFiniteSet(after[i]) /\ Cardinality(after[i]) <= n
    BY <1>5, <2>1, FS_Subset
  <2> QED
    BY <2>2, FS_CardinalityType
<1>7. \E k \in 0 .. n : Grown(reg, after[k]) = after[k]
  <2> SUFFICES ASSUME \A k \in 0 .. n : Grown(reg, after[k]) # after[k] PROVE FALSE
    OBVIOUS
  <2>1. n # 0
    <3>1. n = 0 => Listed(reg) = {}
      BY <1>4
    <3>2. Listed(reg) = {} => Grown(reg, after[0]) = after[0]
      BY DEF Grown
    <3>3. 0 \in 0 .. n
      OBVIOUS
    <3> QED
      BY <3>1, <3>2, <3>3
  <2>2. Cardinality(after[0]) >= 1
    <3>1. after[0] # {}
      <4>1. Grown(reg, {}) = {}
        BY DEF Grown
      <4>2. 0 \in 0 .. n
        OBVIOUS
      <4> QED
        BY <4>1, <4>2
    <3>2. 0 \in 0 .. n
      OBVIOUS
    <3>3. IsFiniteSet(after[0]) /\ Cardinality(after[0]) \in Nat
      BY <1>6, <3>2
    <3>4. Cardinality(after[0]) # 0
      BY <3>1, <3>3, FS_EmptySet
    <3> QED
      BY <3>3, <3>4
  <2> DEFINE C == { i \in Nat : i <= n => Cardinality(after[i]) >= i + 1 }
  <2>3. 0 \in C
    BY <2>2
  <2>4. ASSUME NEW i \in Nat, i \in C PROVE i + 1 \in C
    <3> SUFFICES ASSUME i + 1 <= n PROVE Cardinality(after[i + 1]) >= (i + 1) + 1
      OBVIOUS
    <3>1. i \in 0 .. n /\ i \in 0 .. n - 1 /\ i + 1 \in 0 .. n /\ i <= n
      OBVIOUS
    <3>2. after[i] \subseteq after[i + 1] /\ after[i] # after[i + 1]
      <4>1. after[i + 1] = Grown(reg, after[i])
        BY <1>1, <3>1 DEF Rounds
      <4> QED
        BY <3>1, <4>1 DEF Grown
    <3>3. IsFiniteSet(after[i]) /\ IsFiniteSet(after[i + 1])
      BY <1>6, <3>1
    <3>4. Cardinality(after[i]) <= Cardinality(after[i + 1])
      BY <3>2, <3>3, FS_Subset
    <3>5. Cardinality(after[i]) # Cardinality(after[i + 1])
      BY <3>2, <3>3, FS_Subset
    <3>6. Cardinality(after[i]) \in Nat /\ Cardinality(after[i + 1]) \in Nat
      BY <1>6, <3>1
    <3>7. Cardinality(after[i]) >= i + 1
      BY <2>4, <3>1
    <3> QED
      BY <3>4, <3>5, <3>6, <3>7
  <2> HIDE DEF C
  <2>5. n \in C
    BY <2>3, <2>4, Reaching!NumbersReached
  <2>6. Cardinality(after[n]) >= n + 1
    BY <2>5 DEF C
  <2>7. n \in 0 .. n
    OBVIOUS
  <2>8. Cardinality(after[n]) \in Nat /\ Cardinality(after[n]) <= n
    BY <1>6, <2>7
  <2> QED
    BY <2>6, <2>8
<1>8. PICK k \in 0 .. n : Grown(reg, after[k]) = after[k]
  BY <1>7
<1> DEFINE D == { d \in Nat : k + d <= n => after[k + d] = after[k] }
<1>9. 0 \in D
  OBVIOUS
<1>10. ASSUME NEW d \in Nat, d \in D PROVE d + 1 \in D
  <2> SUFFICES ASSUME k + (d + 1) <= n PROVE after[k + (d + 1)] = after[k]
    OBVIOUS
  <2>1. k + d \in 0 .. n - 1 /\ k + d <= n /\ k + (d + 1) = (k + d) + 1
    OBVIOUS
  <2>2. after[k + d] = after[k]
    BY <1>10, <2>1
  <2>3. after[(k + d) + 1] = Grown(reg, after[k + d])
    BY <1>1, <2>1 DEF Rounds
  <2> QED
    BY <1>8, <2>1, <2>2, <2>3
<1> HIDE DEF D
<1>11. n - k \in Nat /\ k + (n - k) = n /\ k + (n - k) <= n
  OBVIOUS
<1>12. n - k \in D
  BY <1>9, <1>10, <1>11, Reaching!NumbersReached
<1>13. after[n] = after[k]
  BY <1>11, <1>12 DEF D
<1>14. Grown(reg, Reached(reg)) = Reached(reg)
  BY <1>1, <1>8, <1>13 DEF Rounds
<1> QED
  BY <1>3, <1>14 DEF Grown

(* How many rounds it takes to meet an entity: more than for its parent.      *)
Ranks(reg, rank, n) ==
  /\ \A e \in Reached(reg) : rank[e] \in 0 .. n
  /\ \A e, c \in Reached(reg) : ParentOf(reg, c) = e => rank[e] < rank[c]

LEMMA ReachedIsRanked ==
  ASSUME NEW reg, NEW n \in Nat, DOMAIN reg = 1 .. n, None \notin Nat
  PROVE  \E rank : Ranks(reg, rank, n)
<1>1. PICK after : Rounds(reg, after, n)
  BY ReachedInRounds, Zenon
<1>2. /\ \A i \in 0 .. n : after[i] \subseteq Listed(reg)
      /\ \A i, j \in 0 .. n : i <= j => after[i] \subseteq after[j]
  BY <1>1, RoundsGrow, Zenon
<1> DEFINE First(e, i) == i \in 0 .. n /\ e \in after[i] /\ \A j \in 0 .. n : e \in after[j] => i <= j
           rank == [e \in Reached(reg) |-> CHOOSE i : First(e, i)]
<1>3. ASSUME NEW e \in Reached(reg) PROVE First(e, rank[e])
  <2>1. \E i : First(e, i)
    <3> DEFINE M == { i \in 0 .. n : e \in after[i] }
    <3>1. M \in SUBSET Nat /\ n \in M
      BY <1>1 DEF Rounds
    <3>2. PICK m \in M : \A j \in M : m <= j
      BY <3>1, Reaching!LeastNumber
    <3>3. First(e, m)
      BY <3>2
    <3> QED
      BY <3>3
  <2>2. rank[e] = CHOOSE i : First(e, i)
    OBVIOUS
  <2> HIDE DEF First, rank
  <2> QED
    BY <2>1, <2>2
<1>4. ASSUME NEW e \in Reached(reg), NEW c \in Reached(reg), ParentOf(reg, c) = e
      PROVE  rank[e] < rank[c]
  <2>1. First(e, rank[e]) /\ First(c, rank[c])
    BY <1>3
  <2> HIDE DEF rank
  <2>2. e # None
    <3>1. e \in Listed(reg) /\ Listed(reg) \subseteq Nat
      <4>1. n \in 0 .. n
        OBVIOUS
      <4> QED
        BY <1>1, <1>2, <4>1 DEF Rounds, Listed, Entities
    <3> QED
      BY <3>1
  <2>3. c \notin after[0]
    BY <1>1, <1>4, <2>2 DEF Rounds, Starts
  <2>4. rank[c] # 0 /\ rank[c] \in 0 .. n
    BY <2>1, <2>3
  <2>5. rank[c] - 1 \in 0 .. n /\ rank[c] - 1 \in 0 .. n - 1 /\ (rank[c] - 1) + 1 = rank[c]
    BY <2>4
  <2>6. c \notin after[rank[c] - 1]
    BY <2>1, <2>4, <2>5
  <2>7. after[rank[c]] = Grown(reg, after[rank[c] - 1])
    <3>1. after[(rank[c] - 1) + 1] = Grown(reg, after[rank[c] - 1])
      BY <1>1, <2>5 DEF Rounds
    <3> QED
      BY <2>5, <3>1
  <2>8. e \in after[rank[c] - 1]
    BY <1>4, <2>1, <2>6, <2>7 DEF Grown
  <2>9. rank[e] <= rank[c] - 1 /\ rank[e] \in 0 .. n
    BY <2>1, <2>5, <2>8
  <2> QED
    BY <2>4, <2>9
<1>5. Ranks(reg, rank, n)
  BY <1>3, <1>4 DEF Ranks
<1> QED
  BY <1>5

LEMMA InOrderFacts ==
  ASSUME NEW reg, NEW n \in Nat, DOMAIN reg = 1 .. n, NEW S
  PROVE  InOrder(reg, S) \in Seq(S \cap DOMAIN reg)
<1>1. [e \in DOMAIN reg |-> e] \in Seq(DOMAIN reg)
  OBVIOUS
<1> QED
  BY <1>1, AmongFacts DEF InOrder

LEMMA ChildrenFacts ==
  ASSUME NEW reg, NEW n \in Nat, DOMAIN reg = 1 .. n, NEW e
  PROVE  ChildrenOf(reg, e) \in Seq({ c \in Listed(reg) : ParentOf(reg, c) = e })
<1>1. ChildrenOf(reg, e) \in Seq({ c \in Listed(reg) : ParentOf(reg, c) = e } \cap DOMAIN reg)
  BY InOrderFacts DEF ChildrenOf
<1>2. { c \in Listed(reg) : ParentOf(reg, c) = e } \cap DOMAIN reg
        = { c \in Listed(reg) : ParentOf(reg, c) = e }
  BY DEF Listed, Entities
<1> QED
  BY <1>1, <1>2

LEMMA DeeperFacts ==
  ASSUME NEW E, NEW s \in Seq([entity: E, depth: Nat])
  PROVE  Deeper(s) \in Seq([entity: E, depth: Nat])
<1>1. /\ DOMAIN s = 1 .. Len(s) /\ Len(s) \in Nat
      /\ \A i \in 1 .. Len(s) : s[i] \in [entity: E, depth: Nat]
  BY ElementsOf, Zenon
<1>2. \A i \in 1 .. Len(s) : [ s[i] EXCEPT !.depth = @ + 1 ] \in [entity: E, depth: Nat]
  BY <1>1
<1>3. Deeper(s) = [ i \in 1 .. Len(s) |-> [ s[i] EXCEPT !.depth = @ + 1 ] ]
  BY <1>1, Zenon DEF Deeper
<1> QED
  BY <1>1, <1>2, <1>3

LEMMA EntitiesOfFacts ==
  ASSUME NEW E, NEW s \in Seq([entity: E, depth: Nat])
  PROVE  EntitiesOf(s) \in Seq(E)
<1>1. /\ DOMAIN s = 1 .. Len(s) /\ Len(s) \in Nat
      /\ \A i \in 1 .. Len(s) : s[i] \in [entity: E, depth: Nat]
  BY ElementsOf, Zenon
<1>2. EntitiesOf(s) = [ i \in 1 .. Len(s) |-> s[i].entity ]
  BY <1>1, Zenon DEF EntitiesOf
<1> QED
  BY <1>1, <1>2

(* A walk does what it is said to do, since it goes from parents to children. *)
Visit(reg, wanted, open, rows, e) ==
  IF e \notin wanted THEN << >>
  ELSE << [ entity |-> e, depth |-> 0 ] >>
         \o IF e \notin open THEN << >>
            ELSE Deeper(FlattenSeq([ i \in DOMAIN ChildrenOf(reg, e) |->
                                       rows[ChildrenOf(reg, e)[i]] ]))

LEMMA VisitsAgree ==
  ASSUME NEW reg, NEW wanted, NEW open, NEW f, NEW g, NEW e,
         \A i \in DOMAIN ChildrenOf(reg, e) : f[ChildrenOf(reg, e)[i]] = g[ChildrenOf(reg, e)[i]]
  PROVE  Visit(reg, wanted, open, f, e) = Visit(reg, wanted, open, g, e)
<1>1. [ i \in DOMAIN ChildrenOf(reg, e) |-> f[ChildrenOf(reg, e)[i]] ]
        = [ i \in DOMAIN ChildrenOf(reg, e) |-> g[ChildrenOf(reg, e)[i]] ]
  OBVIOUS
<1> QED
  BY <1>1, Zenon DEF Visit

LEMMA WalkedIs ==
  ASSUME NEW reg, NEW n \in Nat, DOMAIN reg = 1 .. n, None \notin Nat,
         NEW wanted, NEW open
  PROVE  \A e \in Reached(reg) :
           Walked(reg, wanted, open)[e]
             = Visit(reg, wanted, open, Walked(reg, wanted, open), e)
<1> DEFINE R == Reached(reg)
           V(f, e) == Visit(reg, wanted, open, f, e)
           Solution(f) == f = [e \in R |-> V(f, e)]
<1>1. PICK rank : Ranks(reg, rank, n)
  BY ReachedIsRanked, Zenon
<1>2. ASSUME NEW e \in R, NEW i \in DOMAIN ChildrenOf(reg, e)
      PROVE  /\ ChildrenOf(reg, e)[i] \in R
             /\ rank[ChildrenOf(reg, e)[i]] \in 0 .. n
             /\ rank[e] \in 0 .. n /\ rank[e] < rank[ChildrenOf(reg, e)[i]]
  <2> DEFINE c == ChildrenOf(reg, e)[i]
  <2>1. c \in Listed(reg) /\ ParentOf(reg, c) = e
    <3> DEFINE S == { x \in Listed(reg) : ParentOf(reg, x) = e }
               s == ChildrenOf(reg, e)
    <3>1. s \in Seq(S)
      BY ChildrenFacts
    <3> HIDE DEF S, s
    <3>2. \A j \in DOMAIN s : s[j] \in S
      BY <3>1
    <3> QED
      BY <1>2, <3>2 DEF S, s
  <2> HIDE DEF c
  <2>2. c \in R
    BY <2>1, ReachedIsClosed
  <2>3. rank[c] \in 0 .. n /\ rank[e] \in 0 .. n /\ rank[e] < rank[c]
    BY <1>1, <2>1, <2>2 DEF Ranks
  <2> QED
    BY <2>2, <2>3 DEF c
<1> DEFINE KnownTo(m) == \E f : \A e \in R : rank[e] + m > n => f[e] = V(f, e)
           K == { m \in Nat : KnownTo(m) }
<1>3. 0 \in K
  BY <1>1 DEF Ranks
<1>4. ASSUME NEW m \in Nat, m \in K PROVE m + 1 \in K
  <2>1. PICK f : \A e \in R : rank[e] + m > n => f[e] = V(f, e)
    BY <1>4
  <2> DEFINE g == [e \in R |-> IF rank[e] + m > n THEN f[e] ELSE V(f, e)]
  <2>2. ASSUME NEW e \in R, rank[e] + (m + 1) > n PROVE g[e] = V(g, e)
    <3>1. rank[e] \in 0 .. n
      BY <1>1 DEF Ranks
    <3>2. \A i \in DOMAIN ChildrenOf(reg, e) :
            f[ChildrenOf(reg, e)[i]] = g[ChildrenOf(reg, e)[i]]
      <4> SUFFICES ASSUME NEW i \in DOMAIN ChildrenOf(reg, e)
                   PROVE  f[ChildrenOf(reg, e)[i]] = g[ChildrenOf(reg, e)[i]]
        OBVIOUS
      <4> DEFINE c == ChildrenOf(reg, e)[i]
      <4>1. c \in R /\ rank[c] \in 0 .. n /\ rank[e] < rank[c]
        BY <1>2
      <4> HIDE DEF c
      <4>2. rank[c] + m > n
        BY <2>2, <3>1, <4>1
      <4>3. g[c] = f[c]
        BY <4>1, <4>2
      <4> QED
        BY <4>3 DEF c
    <3>3. V(f, e) = V(g, e)
      BY <3>2, VisitsAgree
    <3>4. g[e] = V(f, e)
      BY <2>1
    <3> QED
      BY <3>3, <3>4
  <2> HIDE DEF g
  <2>3. KnownTo(m + 1)
    BY <2>2
  <2> QED
    BY <2>3
<1> HIDE DEF K
<1>5. n + 1 \in K
  BY <1>3, <1>4, Reaching!NumbersReached
<1>6. PICK f : \A e \in R : f[e] = V(f, e)
  <2>1. PICK f : \A e \in R : rank[e] + (n + 1) > n => f[e] = V(f, e)
    BY <1>5 DEF K
  <2>2. \A e \in R : rank[e] + (n + 1) > n
    BY <1>1 DEF Ranks
  <2> QED
    BY <2>1, <2>2
<1> DEFINE h == [e \in R |-> f[e]]
           rows == CHOOSE g : Solution(g)
<1>7. Solution(h)
  <2>1. ASSUME NEW e \in R PROVE V(f, e) = V(h, e)
    <3>1. \A i \in DOMAIN ChildrenOf(reg, e) :
            f[ChildrenOf(reg, e)[i]] = h[ChildrenOf(reg, e)[i]]
      BY <1>2
    <3> QED
      BY <3>1, VisitsAgree
  <2> QED
    BY <1>6, <2>1
<1> HIDE DEF h
<1>8. Solution(rows)
  BY <1>7, Zenon
<1>9. Walked(reg, wanted, open) = rows
  BY Zenon DEF Walked, Visit
<1> HIDE DEF rows
<1> QED
  BY <1>8, <1>9

StartsWith(rows, e) == 1 \in DOMAIN rows /\ rows[1].entity = e

LEMMA WalkedFacts ==
  ASSUME NEW reg, NEW n \in Nat, DOMAIN reg = 1 .. n, None \notin Nat,
         NEW wanted, NEW open
  PROVE  \A e \in Reached(reg) :
           /\ Walked(reg, wanted, open)[e] \in Seq([entity: Reached(reg), depth: Nat])
           /\ e \in wanted => StartsWith(Walked(reg, wanted, open)[e], e)
<1> DEFINE R == Reached(reg)
           T == [entity: R, depth: Nat]
           V(f, e) == Visit(reg, wanted, open, f, e)
           rows == Walked(reg, wanted, open)
<1>8. \A e \in R : rows[e] = V(rows, e)
  BY WalkedIs
<1> HIDE DEF rows
<1>1. PICK rank : Ranks(reg, rank, n)
  BY ReachedIsRanked, Zenon
<1>2. ASSUME NEW e \in R, NEW i \in DOMAIN ChildrenOf(reg, e)
      PROVE  /\ ChildrenOf(reg, e)[i] \in R
             /\ rank[ChildrenOf(reg, e)[i]] \in 0 .. n
             /\ rank[e] \in 0 .. n /\ rank[e] < rank[ChildrenOf(reg, e)[i]]
  <2> DEFINE c == ChildrenOf(reg, e)[i]
  <2>1. c \in Listed(reg) /\ ParentOf(reg, c) = e
    <3> DEFINE S == { x \in Listed(reg) : ParentOf(reg, x) = e }
               s == ChildrenOf(reg, e)
    <3>1. s \in Seq(S)
      BY ChildrenFacts
    <3> HIDE DEF S, s
    <3>2. \A j \in DOMAIN s : s[j] \in S
      BY <3>1
    <3> QED
      BY <1>2, <3>2 DEF S, s
  <2> HIDE DEF c
  <2>2. c \in R
    BY <2>1, ReachedIsClosed
  <2>3. rank[c] \in 0 .. n /\ rank[e] \in 0 .. n /\ rank[e] < rank[c]
    BY <1>1, <2>1, <2>2 DEF Ranks
  <2> QED
    BY <2>2, <2>3 DEF c
<1> DEFINE Fine(e) == /\ rows[e] \in Seq(T)
                      /\ e \in wanted => StartsWith(rows[e], e)
           J == { m \in Nat : \A e \in R : rank[e] + m > n => Fine(e) }
<1>10. 0 \in J
  BY <1>1 DEF Ranks
<1>11. ASSUME NEW m \in Nat, m \in J PROVE m + 1 \in J
  <2> SUFFICES ASSUME NEW e \in R, rank[e] + (m + 1) > n PROVE Fine(e)
    <3> HIDE DEF R, Fine
    <3> QED
      BY DEF J
  <2>1. rows[e] = V(rows, e)
    BY <1>8
  <2>2. rank[e] \in 0 .. n
    BY <1>1 DEF Ranks
  <2> DEFINE below == [ i \in DOMAIN ChildrenOf(reg, e) |-> rows[ChildrenOf(reg, e)[i]] ]
  <2>3. below \in Seq(Seq(T))
    <3>1. \A i \in DOMAIN ChildrenOf(reg, e) : rows[ChildrenOf(reg, e)[i]] \in Seq(T)
      <4> SUFFICES ASSUME NEW i \in DOMAIN ChildrenOf(reg, e)
                   PROVE  rows[ChildrenOf(reg, e)[i]] \in Seq(T)
        OBVIOUS
      <4> DEFINE c == ChildrenOf(reg, e)[i]
      <4>1. c \in R /\ rank[c] \in 0 .. n /\ rank[e] < rank[c]
        BY <1>2
      <4> HIDE DEF c
      <4>2. rank[c] + m > n
        BY <2>2, <4>1
      <4>3. Fine(c)
        BY <1>11, <4>1, <4>2
      <4> QED
        BY <4>3 DEF c
    <3>2. DOMAIN ChildrenOf(reg, e) = 1 .. Len(ChildrenOf(reg, e)) /\ Len(ChildrenOf(reg, e)) \in Nat
      BY ChildrenFacts
    <3> HIDE DEF T
    <3> QED
      BY <3>1, <3>2
  <2>4. FlattenSeq(below) \in Seq(T)
    BY <2>3, FlattenedIs
  <2> HIDE DEF below
  <2>5. Deeper(FlattenSeq(below)) \in Seq(T)
    BY <2>4, DeeperFacts
  <2>6. << [ entity |-> e, depth |-> 0 ] >> \in Seq(T)
    OBVIOUS
  <2>8. PICK first : first = << [ entity |-> e, depth |-> 0 ] >>
    OBVIOUS
  <2>9. first \in Seq(T) /\ Len(first) = 1 /\ first[1].entity = e
    BY <2>6, <2>8
  <2> HIDE DEF T
  <2>7. CASE e \in wanted
    <3>1. PICK after : after = IF e \notin open THEN << >> ELSE Deeper(FlattenSeq(below))
      OBVIOUS
    <3>2. after \in Seq(T)
      BY <2>5, <3>1
    <3>3. rows[e] = first \o after
      BY <2>1, <2>7, <2>8, <3>1, Zenon DEF Visit, below
    <3>4. first \o after \in Seq(T) /\ 1 \in DOMAIN (first \o after) /\ (first \o after)[1] = first[1]
      BY <2>9, <3>2, OneFirst
    <3> QED
      BY <2>9, <3>3, <3>4 DEF StartsWith
  <2>10. CASE e \notin wanted
    BY <2>1, <2>10 DEF Visit
  <2> QED
    BY <2>7, <2>10
<1> HIDE DEF J
<1>12. n + 1 \in J
  BY <1>10, <1>11, Reaching!NumbersReached
<1>13. ASSUME NEW e \in R PROVE Fine(e)
  <2>1. rank[e] + (n + 1) > n
    BY <1>1 DEF Ranks
  <2> QED
    BY <1>12, <2>1 DEF J
<1> QED
  BY <1>13 DEF rows

LEMMA SubtreeFacts ==
  ASSUME NEW reg, NEW n \in Nat, DOMAIN reg = 1 .. n, None \notin Nat,
         NEW root \in Entities(reg)
  PROVE  /\ Subtree(reg, root) \in Seq(Entities(reg))
         /\ 1 \in DOMAIN Subtree(reg, root) /\ Subtree(reg, root)[1] = root
<1>1. CASE root \in Reached(reg)
  <2> DEFINE w == Walked(reg, Reached(reg), Reached(reg))[root]
  <2>1. w \in Seq([entity: Reached(reg), depth: Nat])
    BY <1>1, WalkedFacts
  <2>2. Reached(reg) \subseteq Entities(reg)
    BY ReachedIsClosed DEF Listed
  <2> HIDE DEF w
  <2>3. EntitiesOf(w) \in Seq(Reached(reg))
    BY <2>1, EntitiesOfFacts
  <2>4. EntitiesOf(w) \in Seq(Entities(reg))
    BY <2>2, <2>3
  <2>5. 1 \in DOMAIN EntitiesOf(w) /\ EntitiesOf(w)[1] = root
    <3>1. 1 \in DOMAIN w /\ w[1].entity = root
      <4>1. StartsWith(Walked(reg, Reached(reg), Reached(reg))[root], root)
        BY <1>1, WalkedFacts
      <4> QED
        BY <4>1 DEF w, StartsWith
    <3> QED
      BY <3>1 DEF EntitiesOf
  <2> QED
    BY <1>1, <2>4, <2>5 DEF Subtree, w
<1>2. CASE root \notin Reached(reg)
  BY <1>2 DEF Subtree
<1> QED
  BY <1>1, <1>2

LEMMA RowsFacts ==
  ASSUME NEW reg, NEW n \in Nat, DOMAIN reg = 1 .. n, None \notin Nat, NEW shown
  PROVE  EntitiesOf(Rows(reg, shown)) \in Seq(Nat \cup {None})
<1> DEFINE R == Reached(reg)
           T == [entity: Nat \cup {None}, depth: Nat]
           match == SubtreeMatch(reg, shown.filter)
           emit == Walked(reg, match, Open(shown))
           All(entities) == FlattenSeq([ i \in DOMAIN entities |-> emit[entities[i]] ])
           group == IF GroupMembers(reg) \cap match = {} THEN << >>
                    ELSE << [ entity |-> None, depth |-> 0 ] >>
                           \o IF GroupOpen(shown)
                                THEN Deeper(All(InOrder(reg, GroupMembers(reg))))
                                ELSE << >>
<1>1. R \subseteq Listed(reg) /\ R \subseteq Nat
  <2>1. R \subseteq Listed(reg)
    BY ReachedIsClosed
  <2> QED
    BY <2>1 DEF Listed, Entities
<1>2. Starts(reg) \subseteq R
  <2>1. PICK after : Rounds(reg, after, n)
    BY ReachedInRounds, Zenon
  <2>2. \A i, j \in 0 .. n : i <= j => after[i] \subseteq after[j]
    BY <2>1, RoundsGrow, Zenon
  <2>3. 0 \in 0 .. n /\ n \in 0 .. n /\ 0 <= n
    OBVIOUS
  <2> QED
    BY <2>1, <2>2, <2>3 DEF Rounds
<1>3. \A e \in R : emit[e] \in Seq(T)
  <2>1. \A e \in R : emit[e] \in Seq([entity: R, depth: Nat])
    BY WalkedFacts
  <2>2. [entity: R, depth: Nat] \subseteq T
    BY <1>1
  <2>3. Seq([entity: R, depth: Nat]) \subseteq Seq(T)
    BY <2>2, MoreSequences
  <2> HIDE DEF emit, T, R
  <2> QED
    BY <2>1, <2>3
<1> HIDE DEF emit
<1>4. ASSUME NEW S \in SUBSET Starts(reg)
      PROVE  All(InOrder(reg, S)) \in Seq(T)
  <2> DEFINE s == InOrder(reg, S)
  <2>1. s \in Seq(R)
    <3>1. s \in Seq(S \cap DOMAIN reg)
      BY InOrderFacts
    <3>2. S \cap DOMAIN reg \subseteq R
      BY <1>2
    <3> HIDE DEF s, R
    <3> QED
      BY <3>1, <3>2
  <2> HIDE DEF s
  <2>2. [ i \in DOMAIN s |-> emit[s[i]] ] \in Seq(Seq(T))
    <3>1. DOMAIN s = 1 .. Len(s) /\ Len(s) \in Nat /\ \A i \in DOMAIN s : s[i] \in R
      BY <2>1
    <3> HIDE DEF R, T
    <3> QED
      BY <1>3, <3>1
  <2>3. FlattenSeq([ i \in DOMAIN s |-> emit[s[i]] ]) \in Seq(T)
    BY <2>2, FlattenedIs
  <2> QED
    BY <2>3 DEF s
<1>5. GroupMembers(reg) \in SUBSET Starts(reg) /\ Roots(reg) \in SUBSET Starts(reg)
  BY DEF GroupMembers, Roots
<1>6. All(InOrder(reg, GroupMembers(reg))) \in Seq(T) /\ All(InOrder(reg, Roots(reg))) \in Seq(T)
  BY <1>4, <1>5
<1> HIDE DEF All
<1>7. Deeper(All(InOrder(reg, GroupMembers(reg)))) \in Seq(T)
  BY <1>6, DeeperFacts DEF T
<1>8. << [ entity |-> None, depth |-> 0 ] >> \in Seq(T)
  OBVIOUS
<1> HIDE DEF T
<1>9. group \in Seq(T)
  BY <1>7, <1>8
<1> HIDE DEF group
<1>10. group \o All(InOrder(reg, Roots(reg))) \in Seq(T)
  BY <1>6, <1>9
<1>11. Rows(reg, shown) = group \o All(InOrder(reg, Roots(reg)))
  BY Zenon DEF Rows, group, All, emit
<1>12. ASSUME NEW s \in Seq(T) PROVE EntitiesOf(s) \in Seq(Nat \cup {None})
  BY EntitiesOfFacts DEF T
<1> QED
  BY <1>10, <1>11, <1>12

-----------------------------------------------------------------------------
(* What the editor keeps.                                                   *)

Registries == Seq(EntityRecords \cup {None})
ModelStates == {"none", "loading", "loaded", "failed"}
Selections == [of: Nat, ids: Seq(Nat), primary: Nat \cup {None}]
LoadsOf(which) == [of: which, entity: Nat, model: Models, settled: BOOLEAN]

Owned(reg) == OwnedIn(reg, Entities(reg))
Placed(reg) == PlacedIn(reg, Entities(reg))

(* Whose reference keeps what an entity is drawn with: its own, or that of the *)
(* entity it, or what it is a copy of, was cloned from.                        *)
Backed(entity) == entity.model \in {"cube", None} \/ entity.owned

ModelsKept ==
  /\ \A e \in Entities(registry.editor) : Backed(registry.editor[e])
  /\ \A e \in Entities(registry.runtime) :
       \/ Backed(registry.runtime[e])
       \/ \E x \in Entities(registry.editor) :
            registry.editor[x].owned /\ registry.editor[x].model = registry.runtime[e].model

(* A body is in the world, and only what is played has one.                 *)
BodiesKept ==
  /\ \A e \in Entities(registry.editor) : ~registry.editor[e].body
  /\ \A e \in Entities(registry.runtime) : registry.runtime[e].body => e \in bodies
  /\ playing = 0 => bodies = {} /\ registry.runtime = << >>

ScenesKept ==
  /\ registry \in [editor: Registries, runtime: Registries]
  /\ ModelsKept /\ BodiesKept

(* The references there are on each model and each material.                *)
ModelsHeld ==
  /\ stored \in [Models -> [refs: Int, state: ModelStates]]
  /\ \A m \in Models :
       stored[m].refs = Owned(registry.editor)[m] + Owned(registry.runtime)[m]
                          + (IF m = "cube" THEN 1 ELSE 0)

MaterialsHeld ==
  /\ materials \in [Materials -> [born: BOOLEAN, refs: Int, named: BOOLEAN]]
  /\ \A m \in Materials :
       /\ materials[m].refs = Placed(registry.editor)[m] + Placed(registry.runtime)[m]
                                + (IF materials[m].named THEN 1 ELSE 0)
       /\ ~materials[m].born => materials[m].refs = 0
  /\ \A m \in pendingDeletions : m \in Materials /\ materials[m].named

(* What names an entity names one of the scene that is shown.               *)
SessionKept ==
  /\ playing \in Nat /\ plays \in Nat
  /\ selection \in Selections /\ (selection.ids # << >> => selection.of = playing)
  /\ renaming # None => renaming.of = playing
  /\ typed # None => typed.of = playing
  /\ loads \in Seq(LoadsOf({0, playing}))

(* The mouse is taken by what is going on: by a drag while editing, by the    *)
(* game or by its full screen while playing, and not by a drag any more.    *)
MouseKept ==
  /\ mouse \in [captured: BOOLEAN, game: BOOLEAN, dragging: BOOLEAN,
                fullscreen: BOOLEAN, keyboardOff: BOOLEAN]
  /\ mouse.captured => IF playing = 0 THEN mouse.dragging ELSE mouse.game \/ mouse.fullscreen
  /\ mouse.keyboardOff \/ mouse.game => playing # 0

EditorInv == ScenesKept /\ ModelsHeld /\ MaterialsHeld /\ SessionKept /\ MouseKept

-----------------------------------------------------------------------------
(* Counting references.                                                     *)

OwnersOf(reg, A, m) == { e \in A : reg[e].owned /\ reg[e].model = m }
PlacesOf(reg, A, m) == { p \in A \X Places : reg[p[1]].slots[p[2]] = m }

LEMMA CountsAre ==
  ASSUME NEW reg, NEW A, IsFiniteSet(A)
  PROVE  /\ \A m \in Models : /\ OwnedIn(reg, A)[m] = Cardinality(OwnersOf(reg, A, m))
                              /\ IsFiniteSet(OwnersOf(reg, A, m)) /\ OwnedIn(reg, A)[m] \in Nat
         /\ \A m \in Materials : /\ PlacedIn(reg, A)[m] = Cardinality(PlacesOf(reg, A, m))
                                 /\ IsFiniteSet(PlacesOf(reg, A, m)) /\ PlacedIn(reg, A)[m] \in Nat
<1>1. ASSUME NEW m \in Models
      PROVE  /\ OwnedIn(reg, A)[m] = Cardinality(OwnersOf(reg, A, m))
             /\ IsFiniteSet(OwnersOf(reg, A, m)) /\ OwnedIn(reg, A)[m] \in Nat
  <2>1. OwnedIn(reg, A)[m] = Cardinality(OwnersOf(reg, A, m))
    BY DEF OwnedIn, OwnersOf
  <2>2. OwnersOf(reg, A, m) \subseteq A
    BY DEF OwnersOf
  <2>3. IsFiniteSet(OwnersOf(reg, A, m))
    BY <2>2, FS_Subset
  <2> QED
    BY <2>1, <2>3, FS_CardinalityType
<1>2. ASSUME NEW m \in Materials
      PROVE  /\ PlacedIn(reg, A)[m] = Cardinality(PlacesOf(reg, A, m))
             /\ IsFiniteSet(PlacesOf(reg, A, m)) /\ PlacedIn(reg, A)[m] \in Nat
  <2>1. PlacedIn(reg, A)[m] = Cardinality(PlacesOf(reg, A, m))
    BY DEF PlacedIn, PlacesOf
  <2>2. IsFiniteSet(Places)
    <3>1. Places = {"all"} \cup {"slot"}
      BY DEF Places
    <3> QED
      BY <3>1, FS_Singleton, FS_Union
  <2>3. IsFiniteSet(A \X Places)
    BY <2>2, FS_Product
  <2>4. PlacesOf(reg, A, m) \subseteq A \X Places
    BY DEF PlacesOf
  <2>5. IsFiniteSet(PlacesOf(reg, A, m))
    BY <2>3, <2>4, FS_Subset
  <2> QED
    BY <2>1, <2>5, FS_CardinalityType
<1> QED
  BY <1>1, <1>2

(* Who owns and has in place the same counts the same.                       *)
Alike(r, s, A) == \A e \in A : /\ r[e].owned = s[e].owned /\ r[e].model = s[e].model
                               /\ r[e].slots = s[e].slots

LEMMA AlikeCounts ==
  ASSUME NEW r, NEW s, NEW A, Alike(r, s, A)
  PROVE  OwnedIn(r, A) = OwnedIn(s, A) /\ PlacedIn(r, A) = PlacedIn(s, A)
<1>1. \A m : OwnersOf(r, A, m) = OwnersOf(s, A, m)
  BY DEF OwnersOf, Alike
<1>2. \A m : PlacesOf(r, A, m) = PlacesOf(s, A, m)
  BY DEF PlacesOf, Alike
<1>3. \A m : { e \in A : r[e].owned /\ r[e].model = m } = { e \in A : s[e].owned /\ s[e].model = m }
  BY <1>1, Zenon DEF OwnersOf
<1>4. \A m : { p \in A \X Places : r[p[1]].slots[p[2]] = m }
               = { p \in A \X Places : s[p[1]].slots[p[2]] = m }
  BY <1>2, Zenon DEF PlacesOf
<1>5. OwnedIn(r, A) = OwnedIn(s, A)
  BY <1>3, Zenon DEF OwnedIn
<1>6. PlacedIn(r, A) = PlacedIn(s, A)
  BY <1>4, Zenon DEF PlacedIn
<1> QED
  BY <1>5, <1>6

LEMMA OwnedAdds ==
  ASSUME NEW reg, NEW A, NEW B, IsFiniteSet(A), IsFiniteSet(B), A \cap B = {},
         NEW m \in Models
  PROVE  OwnedIn(reg, A \cup B)[m] = OwnedIn(reg, A)[m] + OwnedIn(reg, B)[m]
<1> DEFINE X == OwnersOf(reg, A, m)
           Y == OwnersOf(reg, B, m)
<1>0. IsFiniteSet(A \cup B)
  BY FS_Union
<1>1. X \cap Y = {} /\ OwnersOf(reg, A \cup B, m) = X \cup Y
  BY DEF OwnersOf
<1>2. IsFiniteSet(X) /\ IsFiniteSet(Y)
  BY CountsAre
<1>3. Cardinality(X) \in Nat /\ Cardinality(Y) \in Nat
  BY <1>2, FS_CardinalityType
<1>4. Cardinality(X \cup Y) = Cardinality(X) + Cardinality(Y)
  <2>1. Cardinality(X \cap Y) = 0
    BY <1>1, FS_EmptySet
  <2>2. Cardinality(X \cup Y) = Cardinality(X) + Cardinality(Y) - Cardinality(X \cap Y)
    BY <1>2, FS_Union
  <2> HIDE DEF X, Y
  <2> QED
    BY <1>3, <2>1, <2>2
<1>5. /\ OwnedIn(reg, A \cup B)[m] = Cardinality(OwnersOf(reg, A \cup B, m))
      /\ OwnedIn(reg, A)[m] = Cardinality(X) /\ OwnedIn(reg, B)[m] = Cardinality(Y)
  BY <1>0, CountsAre
<1> QED
  BY <1>1, <1>4, <1>5

LEMMA PlacedAdds ==
  ASSUME NEW reg, NEW A, NEW B, IsFiniteSet(A), IsFiniteSet(B), A \cap B = {},
         NEW m \in Materials
  PROVE  PlacedIn(reg, A \cup B)[m] = PlacedIn(reg, A)[m] + PlacedIn(reg, B)[m]
<1> DEFINE X == PlacesOf(reg, A, m)
           Y == PlacesOf(reg, B, m)
<1>0. IsFiniteSet(A \cup B)
  BY FS_Union
<1>1. X \cap Y = {} /\ PlacesOf(reg, A \cup B, m) = X \cup Y
  BY DEF PlacesOf
<1>2. IsFiniteSet(X) /\ IsFiniteSet(Y)
  BY CountsAre
<1>3. Cardinality(X) \in Nat /\ Cardinality(Y) \in Nat
  BY <1>2, FS_CardinalityType
<1>4. Cardinality(X \cup Y) = Cardinality(X) + Cardinality(Y)
  <2>1. Cardinality(X \cap Y) = 0
    BY <1>1, FS_EmptySet
  <2>2. Cardinality(X \cup Y) = Cardinality(X) + Cardinality(Y) - Cardinality(X \cap Y)
    BY <1>2, FS_Union
  <2> HIDE DEF X, Y
  <2> QED
    BY <1>3, <2>1, <2>2
<1>5. /\ PlacedIn(reg, A \cup B)[m] = Cardinality(PlacesOf(reg, A \cup B, m))
      /\ PlacedIn(reg, A)[m] = Cardinality(X) /\ PlacedIn(reg, B)[m] = Cardinality(Y)
  BY <1>0, CountsAre
<1> QED
  BY <1>1, <1>4, <1>5

LEMMA SameSize ==
  ASSUME NEW X, NEW Y, NEW f \in [X -> Y], IsFiniteSet(X),
         \A p, q \in X : f[p] = f[q] => p = q,
         \A y \in Y : \E p \in X : f[p] = y
  PROVE  Cardinality(X) = Cardinality(Y)
<1>1. f \in Bijection(X, Y)
  BY Zenon DEF Bijection, Injection, Surjection, IsInjective
<1>2. ExistsBijection(X, Y)
  BY <1>1, Zenon DEF ExistsBijection
<1> QED
  BY <1>2, FS_Bijection

(* Copies count where they are put as they did among themselves.             *)
PutAfter(reg, B, copies, n, k) ==
  /\ n \in Nat /\ k \in Nat /\ DOMAIN copies = 1 .. k /\ B = n + 1 .. n + k
  /\ \A i \in 1 .. k : reg[n + i] = copies[i]

LEMMA OwnedMoves ==
  ASSUME NEW reg, NEW B, NEW copies, NEW n, NEW k, PutAfter(reg, B, copies, n, k),
         NEW m \in Models
  PROVE  OwnedIn(reg, B)[m] = OwnedIn(copies, DOMAIN copies)[m]
<1>0. /\ n \in Nat /\ k \in Nat /\ DOMAIN copies = 1 .. k /\ B = n + 1 .. n + k
      /\ \A i \in 1 .. k : reg[n + i] = copies[i]
  BY DEF PutAfter
<1>1. IsFiniteSet(B) /\ IsFiniteSet(DOMAIN copies)
  BY <1>0, FS_Interval
<1> DEFINE X == OwnersOf(copies, DOMAIN copies, m)
           Y == OwnersOf(reg, B, m)
           f == [i \in X |-> n + i]
<1>2. IsFiniteSet(X) /\ IsFiniteSet(Y)
  BY <1>1, CountsAre
<1>3. \A i \in X : i \in 1 .. k /\ n + i \in Y
  BY <1>0 DEF OwnersOf
<1>4. \A y \in Y : y - n \in X /\ n + (y - n) = y
  <2> SUFFICES ASSUME NEW y \in Y PROVE y - n \in X /\ n + (y - n) = y
    OBVIOUS
  <2>1. y \in n + 1 .. n + k /\ reg[y].owned /\ reg[y].model = m
    BY <1>0 DEF OwnersOf
  <2>2. y - n \in 1 .. k /\ n + (y - n) = y
    BY <1>0, <2>1
  <2>3. reg[y] = copies[y - n]
    BY <1>0, <2>2
  <2> QED
    BY <1>0, <2>1, <2>2, <2>3 DEF OwnersOf
<1>5. OwnedIn(reg, B)[m] = Cardinality(Y) /\ OwnedIn(copies, DOMAIN copies)[m] = Cardinality(X)
  BY <1>1, CountsAre
<1> HIDE DEF X, Y
<1>6. Cardinality(X) = Cardinality(Y)
  <2>1. f \in [X -> Y]
    BY <1>3
  <2>2. \A p, q \in X : f[p] = f[q] => p = q
    BY <1>0, <1>3
  <2>3. \A y \in Y : \E p \in X : f[p] = y
    BY <1>4
  <2> HIDE DEF f
  <2> QED
    BY <1>2, <2>1, <2>2, <2>3, SameSize
<1> QED
  BY <1>5, <1>6

LEMMA PlacedMoves ==
  ASSUME NEW reg, NEW B, NEW copies, NEW n, NEW k, PutAfter(reg, B, copies, n, k),
         NEW m \in Materials
  PROVE  PlacedIn(reg, B)[m] = PlacedIn(copies, DOMAIN copies)[m]
<1>0. /\ n \in Nat /\ k \in Nat /\ DOMAIN copies = 1 .. k /\ B = n + 1 .. n + k
      /\ \A i \in 1 .. k : reg[n + i] = copies[i]
  BY DEF PutAfter
<1>1. IsFiniteSet(B) /\ IsFiniteSet(DOMAIN copies)
  BY <1>0, FS_Interval
<1> DEFINE X == PlacesOf(copies, DOMAIN copies, m)
           Y == PlacesOf(reg, B, m)
           f == [p \in X |-> << n + p[1], p[2] >>]
<1>2. IsFiniteSet(X) /\ IsFiniteSet(Y)
  BY <1>1, CountsAre
<1>3. \A p \in X : p = << p[1], p[2] >> /\ p[1] \in 1 .. k /\ << n + p[1], p[2] >> \in Y
  BY <1>0 DEF PlacesOf
<1>4. \A y \in Y : << y[1] - n, y[2] >> \in X /\ y = << n + (y[1] - n), y[2] >>
  <2> SUFFICES ASSUME NEW y \in Y
               PROVE  << y[1] - n, y[2] >> \in X /\ y = << n + (y[1] - n), y[2] >>
    OBVIOUS
  <2>1. /\ y = << y[1], y[2] >> /\ y[1] \in n + 1 .. n + k /\ y[2] \in Places
        /\ reg[y[1]].slots[y[2]] = m
    BY <1>0 DEF PlacesOf
  <2>2. y[1] - n \in 1 .. k /\ n + (y[1] - n) = y[1]
    BY <1>0, <2>1
  <2>3. reg[y[1]] = copies[y[1] - n]
    BY <1>0, <2>2
  <2>4. << y[1] - n, y[2] >> \in X
    BY <1>0, <2>1, <2>2, <2>3 DEF PlacesOf
  <2> HIDE DEF Y, X
  <2> QED
    BY <2>1, <2>2, <2>4
<1>5. PlacedIn(reg, B)[m] = Cardinality(Y) /\ PlacedIn(copies, DOMAIN copies)[m] = Cardinality(X)
  BY <1>1, CountsAre
<1> HIDE DEF X, Y
<1>6. Cardinality(X) = Cardinality(Y)
  <2>1. f \in [X -> Y]
    BY <1>3
  <2>2. \A p, q \in X : f[p] = f[q] => p = q
    <3> SUFFICES ASSUME NEW p \in X, NEW q \in X, f[p] = f[q] PROVE p = q
      OBVIOUS
    <3>1. n + p[1] = n + q[1] /\ p[2] = q[2]
      OBVIOUS
    <3>2. p[1] = q[1]
      BY <1>0, <1>3, <3>1
    <3> QED
      BY <1>3, <3>1, <3>2
  <2>3. \A y \in Y : \E p \in X : f[p] = y
    <3> SUFFICES ASSUME NEW y \in Y PROVE \E p \in X : f[p] = y
      OBVIOUS
    <3>1. << y[1] - n, y[2] >> \in X
      BY <1>4
    <3>2. f[<< y[1] - n, y[2] >>] = << n + (y[1] - n), y[2] >>
      BY <3>1
    <3> QED
      BY <1>4, <3>1, <3>2
  <2> HIDE DEF f
  <2> QED
    BY <1>2, <2>1, <2>2, <2>3, SameSize
<1> QED
  BY <1>5, <1>6

(* One entity, and none.                                                    *)
LEMMA OneOwns ==
  ASSUME NEW reg, NEW e, NEW E, E = {e}, NEW m \in Models
  PROVE  OwnedIn(reg, E)[m] = IF reg[e].owned /\ reg[e].model = m THEN 1 ELSE 0
<1>1. IsFiniteSet(E) /\ Cardinality({e}) = 1 /\ Cardinality({}) = 0
  BY FS_Singleton, FS_EmptySet
<1>2. OwnedIn(reg, E)[m] = Cardinality(OwnersOf(reg, E, m))
  BY <1>1, CountsAre
<1>3. OwnersOf(reg, E, m) = IF reg[e].owned /\ reg[e].model = m THEN {e} ELSE {}
  BY DEF OwnersOf
<1> QED
  BY <1>1, <1>2, <1>3

LEMMA NobodyOwns ==
  ASSUME NEW reg, NEW m \in Models
  PROVE  OwnedIn(reg, {})[m] = 0
<1>1. IsFiniteSet({}) /\ Cardinality({}) = 0
  BY FS_EmptySet
<1>2. OwnedIn(reg, {})[m] = Cardinality(OwnersOf(reg, {}, m))
  BY <1>1, CountsAre
<1>3. OwnersOf(reg, {}, m) = {}
  BY DEF OwnersOf
<1> QED
  BY <1>1, <1>2, <1>3

LEMMA NothingPlaced ==
  ASSUME NEW reg, NEW A, IsFiniteSet(A), NEW m \in Materials,
         \A e \in A : \A s \in Places : reg[e].slots[s] # m
  PROVE  PlacedIn(reg, A)[m] = 0
<1>1. Cardinality({}) = 0
  BY FS_EmptySet
<1>2. PlacedIn(reg, A)[m] = Cardinality(PlacesOf(reg, A, m))
  BY CountsAre
<1>3. PlacesOf(reg, A, m) = {}
  BY DEF PlacesOf
<1> QED
  BY <1>1, <1>2, <1>3

(* What somebody has is counted.                                            *)
LEMMA OwnerCounts ==
  ASSUME NEW reg, NEW A, IsFiniteSet(A), NEW e \in A, NEW m \in Models,
         reg[e].owned, reg[e].model = m
  PROVE  OwnedIn(reg, A)[m] >= 1
<1>1. e \in OwnersOf(reg, A, m)
  BY DEF OwnersOf
<1>2. /\ OwnedIn(reg, A)[m] = Cardinality(OwnersOf(reg, A, m))
      /\ IsFiniteSet(OwnersOf(reg, A, m)) /\ OwnedIn(reg, A)[m] \in Nat
  BY CountsAre
<1>3. OwnedIn(reg, A)[m] # 0
  BY <1>1, <1>2, FS_EmptySet
<1> QED
  BY <1>2, <1>3

LEMMA PlacedCounts ==
  ASSUME NEW reg, NEW A, IsFiniteSet(A), NEW e \in A, NEW m \in Materials,
         NEW s \in Places, reg[e].slots[s] = m
  PROVE  PlacedIn(reg, A)[m] >= 1
<1>1. << e, s >> \in PlacesOf(reg, A, m)
  BY DEF PlacesOf
<1>2. /\ PlacedIn(reg, A)[m] = Cardinality(PlacesOf(reg, A, m))
      /\ IsFiniteSet(PlacesOf(reg, A, m)) /\ PlacedIn(reg, A)[m] \in Nat
  BY CountsAre
<1>3. PlacedIn(reg, A)[m] # 0
  BY <1>1, <1>2, FS_EmptySet
<1> QED
  BY <1>2, <1>3

-----------------------------------------------------------------------------
(* What becomes of a registry.                                              *)

LEMMA RegistryFacts ==
  ASSUME NEW reg \in Registries
  PROVE  /\ DOMAIN reg = 1 .. Len(reg) /\ Len(reg) \in Nat
         /\ Entities(reg) \subseteq 1 .. Len(reg) /\ IsFiniteSet(Entities(reg))
         /\ \A e \in Entities(reg) : reg[e] \in EntityRecords
         /\ \A m \in Models : Owned(reg)[m] \in Nat
         /\ \A m \in Materials : Placed(reg)[m] \in Nat
<1>1. /\ DOMAIN reg = 1 .. Len(reg) /\ Len(reg) \in Nat
      /\ \A e \in 1 .. Len(reg) : reg[e] \in EntityRecords \cup {None}
  BY ElementsOf, Zenon DEF Registries
<1>2. Entities(reg) \subseteq 1 .. Len(reg)
  BY <1>1 DEF Entities
<1>3. IsFiniteSet(Entities(reg))
  <2>1. IsFiniteSet(1 .. Len(reg))
    BY <1>1, FS_Interval
  <2> QED
    BY <1>2, <2>1, FS_Subset
<1>4. \A e \in Entities(reg) : reg[e] \in EntityRecords
  BY <1>1, <1>2, Zenon DEF Entities
<1> QED
  BY <1>1, <1>2, <1>3, <1>4, CountsAre DEF Owned, Placed

(* The entities of r hold what reg's did, and what is given, but for what is   *)
(* taken.                                                                   *)
OwnedChanges(r, reg, given, taken) ==
  \A m \in Models : /\ given[m] \in Nat /\ taken[m] \in Nat
                    /\ Owned(r)[m] = Owned(reg)[m] + given[m] - taken[m]
PlacedChanges(r, reg, given, taken) ==
  \A m \in Materials : /\ given[m] \in Nat /\ taken[m] \in Nat
                       /\ Placed(r)[m] = Placed(reg)[m] + given[m] - taken[m]

LEMMA OwnedSame ==
  ASSUME NEW reg \in Registries, NEW r, Owned(r) = Owned(reg)
  PROVE  OwnedChanges(r, reg, NoneOf(Models), NoneOf(Models))
<1>1. ASSUME NEW m \in Models PROVE NoneOf(Models)[m] = 0 /\ Owned(reg)[m] \in Nat
  BY RegistryFacts DEF NoneOf
<1> QED
  BY <1>1 DEF OwnedChanges

LEMMA PlacedSame ==
  ASSUME NEW reg \in Registries, NEW r, Placed(r) = Placed(reg)
  PROVE  PlacedChanges(r, reg, NoneOf(Materials), NoneOf(Materials))
<1>1. ASSUME NEW m \in Materials PROVE NoneOf(Materials)[m] = 0 /\ Placed(reg)[m] \in Nat
  BY RegistryFacts DEF NoneOf
<1> QED
  BY <1>1 DEF PlacedChanges

(* What is changed in other ways.                                           *)
LEMMA RegistryAlike ==
  ASSUME NEW reg \in Registries, NEW r, Entities(r) = Entities(reg), Alike(r, reg, Entities(reg))
  PROVE  Owned(r) = Owned(reg) /\ Placed(r) = Placed(reg)
BY AlikeCounts DEF Owned, Placed

(* One entity is written again.                                             *)
Rewritten(r, reg, e, x) ==
  /\ r \in Registries /\ Entities(r) = Entities(reg) /\ r[e] = x
  /\ \A o \in Entities(reg) : o # e => r[o] = reg[o]
  /\ OwnedChanges(r, reg, OwnedIn(r, {e}), OwnedIn(reg, {e}))
  /\ PlacedChanges(r, reg, PlacedIn(r, {e}), PlacedIn(reg, {e}))

LEMMA RegistryReplaced ==
  ASSUME NEW reg \in Registries, NEW e \in Entities(reg), NEW x \in EntityRecords, NEW r,
         r = [reg EXCEPT ![e] = x], None \notin EntityRecords
  PROVE  Rewritten(r, reg, e, x)
<1>1. /\ DOMAIN reg = 1 .. Len(reg) /\ Len(reg) \in Nat /\ Entities(reg) \subseteq 1 .. Len(reg)
      /\ IsFiniteSet(Entities(reg))
  BY RegistryFacts
<1>2. r \in Registries
  BY <1>1 DEF Registries
<1>3. DOMAIN r = DOMAIN reg /\ r[e] = x /\ \A o \in DOMAIN reg : o # e => r[o] = reg[o]
  BY <1>1
<1>4. Entities(r) = Entities(reg)
  BY <1>3 DEF Entities
<1> DEFINE B == Entities(reg) \ {e}
<1>0. PICK E : E = {e}
  OBVIOUS
<1>5. IsFiniteSet(B) /\ IsFiniteSet(E) /\ B \cap E = {} /\ Entities(reg) = B \cup E
  BY <1>0, <1>1, FS_Singleton, FS_Difference
<1>6. \A o \in Entities(reg) : o # e => r[o] = reg[o]
  BY <1>1, <1>3
<1>7. Alike(r, reg, B)
  BY <1>6 DEF Alike
<1> HIDE DEF B
<1>8. OwnedIn(r, B) = OwnedIn(reg, B) /\ PlacedIn(r, B) = PlacedIn(reg, B)
  BY <1>7, AlikeCounts
<1>9. ASSUME NEW m \in Models
      PROVE  /\ OwnedIn(r, E)[m] \in Nat /\ OwnedIn(reg, E)[m] \in Nat
             /\ Owned(r)[m] = Owned(reg)[m] + OwnedIn(r, E)[m] - OwnedIn(reg, E)[m]
  <2>1. Owned(r) = OwnedIn(r, B \cup E) /\ Owned(reg) = OwnedIn(reg, B \cup E)
    BY <1>4, <1>5, Zenon DEF Owned
  <2>2. OwnedIn(r, B \cup E)[m] = OwnedIn(r, B)[m] + OwnedIn(r, E)[m]
    BY <1>5, OwnedAdds
  <2>3. OwnedIn(reg, B \cup E)[m] = OwnedIn(reg, B)[m] + OwnedIn(reg, E)[m]
    BY <1>5, OwnedAdds
  <2>4. OwnedIn(r, E)[m] \in Nat /\ OwnedIn(reg, E)[m] \in Nat /\ OwnedIn(reg, B)[m] \in Nat
    BY <1>5, CountsAre
  <2> QED
    BY <1>8, <2>1, <2>2, <2>3, <2>4
<1>10. ASSUME NEW m \in Materials
       PROVE  /\ PlacedIn(r, E)[m] \in Nat /\ PlacedIn(reg, E)[m] \in Nat
              /\ Placed(r)[m] = Placed(reg)[m] + PlacedIn(r, E)[m] - PlacedIn(reg, E)[m]
  <2>1. Placed(r) = PlacedIn(r, B \cup E) /\ Placed(reg) = PlacedIn(reg, B \cup E)
    BY <1>4, <1>5, Zenon DEF Placed
  <2>2. PlacedIn(r, B \cup E)[m] = PlacedIn(r, B)[m] + PlacedIn(r, E)[m]
    BY <1>5, PlacedAdds
  <2>3. PlacedIn(reg, B \cup E)[m] = PlacedIn(reg, B)[m] + PlacedIn(reg, E)[m]
    BY <1>5, PlacedAdds
  <2>4. PlacedIn(r, E)[m] \in Nat /\ PlacedIn(reg, E)[m] \in Nat /\ PlacedIn(reg, B)[m] \in Nat
    BY <1>5, CountsAre
  <2> QED
    BY <1>8, <2>1, <2>2, <2>3, <2>4
<1>11. OwnedChanges(r, reg, OwnedIn(r, E), OwnedIn(reg, E))
  BY <1>9, Zenon DEF OwnedChanges
<1>12. PlacedChanges(r, reg, PlacedIn(r, E), PlacedIn(reg, E))
  BY <1>10, Zenon DEF PlacedChanges
<1> QED
  BY <1>0, <1>2, <1>3, <1>4, <1>6, <1>11, <1>12 DEF Rewritten

(* Entities are added.                                                      *)
Joined(r, reg, copies) ==
  /\ r \in Registries /\ DOMAIN copies = 1 .. Len(copies)
  /\ Entities(r) = Entities(reg) \cup (Len(reg) + 1 .. Len(reg) + Len(copies))
  /\ \A e \in Entities(reg) : r[e] = reg[e]
  /\ \A i \in 1 .. Len(copies) : r[Len(reg) + i] = copies[i]
  /\ OwnedChanges(r, reg, OwnedIn(copies, DOMAIN copies), NoneOf(Models))
  /\ PlacedChanges(r, reg, PlacedIn(copies, DOMAIN copies), NoneOf(Materials))

LEMMA RegistryJoined ==
  ASSUME NEW reg \in Registries, NEW copies \in Seq(EntityRecords), NEW r, r = reg \o copies,
         None \notin EntityRecords
  PROVE  Joined(r, reg, copies)
<1>1. PICK n : n = Len(reg)
  OBVIOUS
<1>2. PICK k : k = Len(copies)
  OBVIOUS
<1>3. PICK B : B = n + 1 .. n + k
  OBVIOUS
<1>4. PICK A : A = Entities(reg)
  OBVIOUS
<1>5. DOMAIN reg = 1 .. n /\ n \in Nat /\ A \subseteq 1 .. n /\ IsFiniteSet(A)
  BY <1>1, <1>4, RegistryFacts
<1>6. DOMAIN copies = 1 .. k /\ k \in Nat /\ \A i \in 1 .. k : copies[i] \in EntityRecords
  BY <1>2, ElementsOf, Zenon
<1>7. r \in Registries /\ Len(r) = n + k
  <2>1. copies \in Seq(EntityRecords \cup {None})
    BY MoreSequences
  <2> QED
    BY <1>1, <1>2, <2>1 DEF Registries
<1>8. \A e \in 1 .. n : r[e] = reg[e]
  BY <1>1, <1>5, <1>6 DEF Registries
<1>9. \A i \in 1 .. k : r[n + i] = copies[i]
  BY <1>1, <1>2, <1>5, <1>6 DEF Registries
<1>10. DOMAIN r = 1 .. n + k
  BY <1>7, RegistryFacts
<1>11. ASSUME NEW e \in B PROVE r[e] # None
  <2>1. e - n \in 1 .. k /\ n + (e - n) = e
    BY <1>3, <1>5, <1>6
  <2>2. r[e] = copies[e - n]
    BY <1>9, <2>1
  <2> QED
    BY <1>6, <2>1, <2>2
<1>12. Entities(r) = A \cup B
  <2>1. 1 .. n + k = (1 .. n) \cup B
    BY <1>3, <1>5, <1>6
  <2> QED
    BY <1>4, <1>5, <1>8, <1>10, <1>11, <2>1 DEF Entities
<1>13. IsFiniteSet(B) /\ A \cap B = {}
  BY <1>3, <1>5, <1>6, FS_Interval
<1>14. Alike(r, reg, A)
  BY <1>5, <1>8 DEF Alike
<1>15. OwnedIn(r, A) = OwnedIn(reg, A) /\ PlacedIn(r, A) = PlacedIn(reg, A)
  BY <1>14, AlikeCounts
<1>16. IsFiniteSet(DOMAIN copies)
  BY <1>6, FS_Interval
<1>22. IsFiniteSet(A) /\ IsFiniteSet(B) /\ A \cap B = {}
  BY <1>5, <1>13
<1>23. PutAfter(r, B, copies, n, k)
  BY <1>3, <1>5, <1>6, <1>9, Zenon DEF PutAfter
<1>17. ASSUME NEW m \in Models
       PROVE  /\ OwnedIn(copies, DOMAIN copies)[m] \in Nat /\ NoneOf(Models)[m] \in Nat
              /\ Owned(r)[m] = Owned(reg)[m] + OwnedIn(copies, DOMAIN copies)[m]
                                 - NoneOf(Models)[m]
  <2>1. Owned(r) = OwnedIn(r, A \cup B) /\ Owned(reg) = OwnedIn(reg, A)
    BY <1>4, <1>12, Zenon DEF Owned
  <2>2. OwnedIn(r, A \cup B)[m] = OwnedIn(r, A)[m] + OwnedIn(r, B)[m]
    BY <1>22, OwnedAdds
  <2>3. OwnedIn(r, B)[m] = OwnedIn(copies, DOMAIN copies)[m]
    BY <1>23, OwnedMoves
  <2>4. OwnedIn(copies, DOMAIN copies)[m] \in Nat /\ OwnedIn(r, A)[m] \in Nat
    BY <1>5, <1>16, CountsAre
  <2>5. NoneOf(Models)[m] = 0
    BY DEF NoneOf
  <2> QED
    BY <1>15, <2>1, <2>2, <2>3, <2>4, <2>5
<1>18. ASSUME NEW m \in Materials
       PROVE  /\ PlacedIn(copies, DOMAIN copies)[m] \in Nat /\ NoneOf(Materials)[m] \in Nat
              /\ Placed(r)[m] = Placed(reg)[m] + PlacedIn(copies, DOMAIN copies)[m]
                                  - NoneOf(Materials)[m]
  <2>1. Placed(r) = PlacedIn(r, A \cup B) /\ Placed(reg) = PlacedIn(reg, A)
    BY <1>4, <1>12, Zenon DEF Placed
  <2>2. PlacedIn(r, A \cup B)[m] = PlacedIn(r, A)[m] + PlacedIn(r, B)[m]
    BY <1>22, PlacedAdds
  <2>3. PlacedIn(r, B)[m] = PlacedIn(copies, DOMAIN copies)[m]
    BY <1>23, PlacedMoves
  <2>4. PlacedIn(copies, DOMAIN copies)[m] \in Nat /\ PlacedIn(r, A)[m] \in Nat
    BY <1>5, <1>16, CountsAre
  <2>5. NoneOf(Materials)[m] = 0
    BY DEF NoneOf
  <2> QED
    BY <1>15, <2>1, <2>2, <2>3, <2>4, <2>5
<1>19. OwnedChanges(r, reg, OwnedIn(copies, DOMAIN copies), NoneOf(Models))
  BY <1>17, Zenon DEF OwnedChanges
<1>20. PlacedChanges(r, reg, PlacedIn(copies, DOMAIN copies), NoneOf(Materials))
  BY <1>18, Zenon DEF PlacedChanges
<1>21. \A e \in Entities(reg) : r[e] = reg[e]
  BY <1>4, <1>5, <1>8
<1>26. r \in Registries
  BY <1>1, <1>2, <1>3, <1>4, <1>6, <1>7, <1>9, <1>12
<1>27. DOMAIN copies = 1 .. Len(copies)
  BY <1>1, <1>2, <1>3, <1>4, <1>6, <1>7, <1>9, <1>12
<1>28. Entities(r) = Entities(reg) \cup (Len(reg) + 1 .. Len(reg) + Len(copies))
  BY <1>1, <1>2, <1>3, <1>4, <1>6, <1>7, <1>9, <1>12
<1>29. \A i \in 1 .. Len(copies) : r[Len(reg) + i] = copies[i]
  BY <1>1, <1>2, <1>3, <1>4, <1>6, <1>7, <1>9, <1>12
<1> QED
  BY <1>19, <1>20, <1>21, <1>26, <1>27, <1>28, <1>29, Zenon DEF Joined

(* One is.                                                                  *)
Appended(r, reg, x) ==
  /\ r \in Registries /\ Entities(r) = Entities(reg) \cup {Len(reg) + 1}
  /\ Len(reg) + 1 \notin Entities(reg) /\ r[Len(reg) + 1] = x
  /\ \A e \in Entities(reg) : r[e] = reg[e]
  /\ \A given : (\A m \in Models : given[m] = IF x.owned /\ x.model = m THEN 1 ELSE 0)
                  => OwnedChanges(r, reg, given, NoneOf(Models))
  /\ PlacedChanges(r, reg, NoneOf(Materials), NoneOf(Materials))

LEMMA RegistryAppended ==
  ASSUME NEW reg \in Registries, NEW x \in EntityRecords, NEW r, r = Append(reg, x),
         \A s \in Places : x.slots[s] = None, None \notin Nat \cup EntityRecords
  PROVE  Appended(r, reg, x)
<1>0. PICK c : c = << x >>
  OBVIOUS
<1>1. Len(reg) \in Nat /\ Entities(reg) \subseteq 1 .. Len(reg)
  BY RegistryFacts
<1>2. c \in Seq(EntityRecords) /\ Len(c) = 1 /\ DOMAIN c = {1} /\ c[1] = x
  BY <1>0
<1>3. r = reg \o c
  BY <1>0 DEF Registries
<1>4. /\ r \in Registries
      /\ Entities(r) = Entities(reg) \cup (Len(reg) + 1 .. Len(reg) + Len(c))
      /\ \A e \in Entities(reg) : r[e] = reg[e]
      /\ \A i \in 1 .. Len(c) : r[Len(reg) + i] = c[i]
      /\ OwnedChanges(r, reg, OwnedIn(c, DOMAIN c), NoneOf(Models))
      /\ PlacedChanges(r, reg, PlacedIn(c, DOMAIN c), NoneOf(Materials))
  <2>1. Joined(r, reg, c)
    BY <1>2, <1>3, RegistryJoined
  <2> QED
    BY <2>1, Zenon DEF Joined
<1>5. Len(reg) + 1 .. Len(reg) + Len(c) = {Len(reg) + 1}
  BY <1>1, <1>2
<1>6. ASSUME NEW given, \A m \in Models : given[m] = IF x.owned /\ x.model = m THEN 1 ELSE 0
      PROVE  OwnedChanges(r, reg, given, NoneOf(Models))
  <2>1. ASSUME NEW m \in Models PROVE OwnedIn(c, DOMAIN c)[m] = given[m]
    <3>1. OwnedIn(c, DOMAIN c)[m] = IF c[1].owned /\ c[1].model = m THEN 1 ELSE 0
      BY <1>2, OneOwns
    <3> QED
      BY <1>2, <1>6, <3>1
  <2> QED
    BY <1>4, <2>1 DEF OwnedChanges
<1>7. PlacedChanges(r, reg, NoneOf(Materials), NoneOf(Materials))
  <2>1. ASSUME NEW m \in Materials PROVE PlacedIn(c, DOMAIN c)[m] = 0 /\ NoneOf(Materials)[m] = 0
    <3>1. m # None
      BY DEF Materials
    <3>2. IsFiniteSet(DOMAIN c)
      <4>1. IsFiniteSet({1})
        BY FS_Singleton
      <4> QED
        BY <1>2, <4>1
    <3>3. \A e \in DOMAIN c : \A s \in Places : c[e].slots[s] # m
      BY <1>2, <3>1
    <3>4. PlacedIn(c, DOMAIN c)[m] = 0
      BY <3>2, <3>3, NothingPlaced
    <3> QED
      BY <3>4 DEF NoneOf
  <2> QED
    BY <1>4, <2>1 DEF PlacedChanges
<1>8. r[Len(reg) + 1] = x /\ Len(reg) + 1 \notin Entities(reg)
  BY <1>1, <1>2, <1>4
<1>9. Entities(r) = Entities(reg) \cup {Len(reg) + 1}
  BY <1>4, <1>5
<1> QED
  BY <1>4, <1>6, <1>7, <1>8, <1>9 DEF Appended

(* Entities are destroyed.                                                  *)
LEMMA RegistryEmptied ==
  ASSUME NEW reg \in Registries, NEW gone \in SUBSET Entities(reg), NEW r,
         r = Destroyed(reg, gone)
  PROVE  /\ r \in Registries /\ Entities(r) = Entities(reg) \ gone
         /\ \A e \in Entities(reg) : e \notin gone => r[e] = reg[e]
         /\ OwnedChanges(r, reg, NoneOf(Models), OwnedIn(reg, gone))
         /\ PlacedChanges(r, reg, NoneOf(Materials), PlacedIn(reg, gone))
<1>1. /\ DOMAIN reg = 1 .. Len(reg) /\ Len(reg) \in Nat /\ Entities(reg) \subseteq 1 .. Len(reg)
      /\ IsFiniteSet(Entities(reg))
  BY RegistryFacts
<1>2. r \in Registries
  BY <1>1 DEF Registries, Destroyed
<1>3. PICK B : B = Entities(reg) \ gone
  OBVIOUS
<1>4. Entities(r) = B
  BY <1>1, <1>3 DEF Destroyed, Entities
<1>5. \A e \in Entities(reg) : e \notin gone => r[e] = reg[e]
  BY <1>1 DEF Destroyed
<1>6. Alike(r, reg, B)
  BY <1>3, <1>5 DEF Alike
<1>7. IsFiniteSet(B) /\ IsFiniteSet(gone) /\ B \cap gone = {} /\ Entities(reg) = B \cup gone
  BY <1>1, <1>3, FS_Subset
<1>8. OwnedIn(r, B) = OwnedIn(reg, B) /\ PlacedIn(r, B) = PlacedIn(reg, B)
  BY <1>6, AlikeCounts
<1>9. ASSUME NEW m \in Models
      PROVE  /\ NoneOf(Models)[m] \in Nat /\ OwnedIn(reg, gone)[m] \in Nat
             /\ Owned(r)[m] = Owned(reg)[m] + NoneOf(Models)[m] - OwnedIn(reg, gone)[m]
  <2>1. Owned(r) = OwnedIn(r, B) /\ Owned(reg) = OwnedIn(reg, B \cup gone)
    BY <1>4, <1>7, Zenon DEF Owned
  <2>2. OwnedIn(reg, B \cup gone)[m] = OwnedIn(reg, B)[m] + OwnedIn(reg, gone)[m]
    BY <1>7, OwnedAdds
  <2>3. OwnedIn(reg, B)[m] \in Nat /\ OwnedIn(reg, gone)[m] \in Nat
    BY <1>7, CountsAre
  <2>4. NoneOf(Models)[m] = 0
    BY DEF NoneOf
  <2> QED
    BY <1>8, <2>1, <2>2, <2>3, <2>4
<1>10. ASSUME NEW m \in Materials
       PROVE  /\ NoneOf(Materials)[m] \in Nat /\ PlacedIn(reg, gone)[m] \in Nat
              /\ Placed(r)[m] = Placed(reg)[m] + NoneOf(Materials)[m] - PlacedIn(reg, gone)[m]
  <2>1. Placed(r) = PlacedIn(r, B) /\ Placed(reg) = PlacedIn(reg, B \cup gone)
    BY <1>4, <1>7, Zenon DEF Placed
  <2>2. PlacedIn(reg, B \cup gone)[m] = PlacedIn(reg, B)[m] + PlacedIn(reg, gone)[m]
    BY <1>7, PlacedAdds
  <2>3. PlacedIn(reg, B)[m] \in Nat /\ PlacedIn(reg, gone)[m] \in Nat
    BY <1>7, CountsAre
  <2>4. NoneOf(Materials)[m] = 0
    BY DEF NoneOf
  <2> QED
    BY <1>8, <2>1, <2>2, <2>3, <2>4
<1>11. OwnedChanges(r, reg, NoneOf(Models), OwnedIn(reg, gone))
  BY <1>9, Zenon DEF OwnedChanges
<1>12. PlacedChanges(r, reg, NoneOf(Materials), PlacedIn(reg, gone))
  BY <1>10, Zenon DEF PlacedChanges
<1> QED
  BY <1>2, <1>3, <1>4, <1>5, <1>11, <1>12

-----------------------------------------------------------------------------
(* What the steps do to the scene that is shown, and to what it holds.        *)

LEMMA SceneFacts ==
  ASSUME ScenesKept
  PROVE  /\ registry.editor \in Registries /\ registry.runtime \in Registries
         /\ Reg \in Registries
         /\ Reg = IF playing = 0 THEN registry.editor ELSE registry.runtime
         /\ \A m \in Models : Owned(registry.editor)[m] \in Nat /\ Owned(registry.runtime)[m] \in Nat
         /\ \A m \in Materials : Placed(registry.editor)[m] \in Nat /\ Placed(registry.runtime)[m] \in Nat
<1>1. registry.editor \in Registries /\ registry.runtime \in Registries
  BY DEF ScenesKept
<1>2. Reg = IF playing = 0 THEN registry.editor ELSE registry.runtime
  BY DEF Reg, Shown
<1> QED
  BY <1>1, <1>2, RegistryFacts

Becomes(r) == registry' = [registry EXCEPT ![Shown] = r]

LEMMA ShownIs ==
  ASSUME ScenesKept, NEW r, Becomes(r)
  PROVE  /\ playing = 0 => registry'.editor = r /\ registry'.runtime = registry.runtime
         /\ playing # 0 => registry'.editor = registry.editor /\ registry'.runtime = r
         /\ r \in Registries => registry' \in [editor: Registries, runtime: Registries]
BY DEF ScenesKept, Shown, Becomes

(* Nobody is drawn with what nobody had, and bodies are in the world.       *)
Descends(r, reg) ==
  \A e \in Entities(r) :
    \/ Backed(r[e])
    \/ \E x \in Entities(reg) : r[e].model = reg[x].model /\ r[e].owned = reg[x].owned
Embodied(r, world) == \A e \in Entities(r) : r[e].body => e \in world /\ playing # 0

LEMMA ShownKeeps ==
  ASSUME ScenesKept, NEW r \in Registries, Becomes(r),
         playing' = playing, Descends(r, Reg), Embodied(r, bodies'),
         playing = 0 => bodies' = {}
  PROVE  ScenesKept'
<1>1. /\ playing = 0 => registry'.editor = r /\ registry'.runtime = registry.runtime
      /\ playing # 0 => registry'.editor = registry.editor /\ registry'.runtime = r
      /\ registry' \in [editor: Registries, runtime: Registries]
  BY ShownIs
<1>2. Reg = IF playing = 0 THEN registry.editor ELSE registry.runtime
  BY SceneFacts
<1>3. CASE playing = 0
  <2>1. registry'.editor = r /\ registry'.runtime = << >> /\ Entities(registry'.runtime) = {}
    BY <1>1, <1>3 DEF ScenesKept, BodiesKept, Entities
  <2>2. ASSUME NEW e \in Entities(r) PROVE Backed(r[e])
    BY <1>2, <1>3 DEF Descends, Backed, ScenesKept, ModelsKept
  <2>3. ASSUME NEW e \in Entities(r) PROVE ~r[e].body
    BY <1>3 DEF Embodied
  <2>4. ModelsKept'
    BY <2>1, <2>2 DEF ModelsKept
  <2>5. BodiesKept'
    BY <1>3, <2>1, <2>3 DEF BodiesKept
  <2> QED
    BY <1>1, <2>4, <2>5 DEF ScenesKept
<1>4. CASE playing # 0
  <2>1. registry'.editor = registry.editor /\ registry'.runtime = r
    BY <1>1, <1>4
  <2>2. ASSUME NEW e \in Entities(r)
        PROVE  \/ Backed(r[e])
               \/ \E x \in Entities(registry.editor) :
                    registry.editor[x].owned /\ registry.editor[x].model = r[e].model
    <3>1. SUFFICES ASSUME NEW x \in Entities(registry.runtime),
                          r[e].model = registry.runtime[x].model,
                          r[e].owned = registry.runtime[x].owned, ~Backed(r[e])
                   PROVE  \E y \in Entities(registry.editor) :
                            registry.editor[y].owned /\ registry.editor[y].model = r[e].model
      BY <1>2, <1>4 DEF Descends
    <3>2. ~Backed(registry.runtime[x])
      BY <3>1 DEF Backed
    <3> QED
      BY <3>1, <3>2 DEF ScenesKept, ModelsKept
  <2>3. ModelsKept'
    BY <2>1, <2>2 DEF ModelsKept, ScenesKept
  <2>4. BodiesKept'
    BY <1>4, <2>1 DEF BodiesKept, ScenesKept, Embodied
  <2> QED
    BY <1>1, <2>3, <2>4 DEF ScenesKept
<1> QED
  BY <1>3, <1>4

(* A body of the scene that is shown is in the world.                       *)
LEMMA ShownIsEmbodied ==
  ASSUME ScenesKept
  PROVE  Embodied(Reg, bodies) /\ (playing = 0 => bodies = {})
BY SceneFacts DEF ScenesKept, BodiesKept, Embodied

(* What both scenes hold together.                                          *)
LEMMA OwnedTotals ==
  ASSUME ScenesKept, NEW r, Becomes(r),
         NEW given, NEW taken, OwnedChanges(r, Reg, given, taken), NEW m \in Models
  PROVE  Owned(registry'.editor)[m] + Owned(registry'.runtime)[m]
           = Owned(registry.editor)[m] + Owned(registry.runtime)[m] + given[m] - taken[m]
<1>1. /\ playing = 0 => registry'.editor = r /\ registry'.runtime = registry.runtime
      /\ playing # 0 => registry'.editor = registry.editor /\ registry'.runtime = r
  BY ShownIs
<1>2. /\ Reg = IF playing = 0 THEN registry.editor ELSE registry.runtime
      /\ Owned(registry.editor)[m] \in Nat /\ Owned(registry.runtime)[m] \in Nat
  BY SceneFacts
<1>3. given[m] \in Nat /\ taken[m] \in Nat /\ Owned(r)[m] = Owned(Reg)[m] + given[m] - taken[m]
  BY DEF OwnedChanges
<1>4. CASE playing = 0
  <2>1. Owned(registry'.editor) = Owned(r) /\ Owned(registry'.runtime) = Owned(registry.runtime)
        /\ Owned(Reg) = Owned(registry.editor)
    BY <1>1, <1>2, <1>4, Zenon
  <2> QED
    BY <1>2, <1>3, <2>1
<1>5. CASE playing # 0
  <2>1. Owned(registry'.editor) = Owned(registry.editor) /\ Owned(registry'.runtime) = Owned(r)
        /\ Owned(Reg) = Owned(registry.runtime)
    BY <1>1, <1>2, <1>5, Zenon
  <2> QED
    BY <1>2, <1>3, <2>1
<1> QED
  BY <1>4, <1>5

LEMMA PlacedTotals ==
  ASSUME ScenesKept, NEW r, Becomes(r),
         NEW given, NEW taken, PlacedChanges(r, Reg, given, taken), NEW m \in Materials
  PROVE  Placed(registry'.editor)[m] + Placed(registry'.runtime)[m]
           = Placed(registry.editor)[m] + Placed(registry.runtime)[m] + given[m] - taken[m]
<1>1. /\ playing = 0 => registry'.editor = r /\ registry'.runtime = registry.runtime
      /\ playing # 0 => registry'.editor = registry.editor /\ registry'.runtime = r
  BY ShownIs
<1>2. /\ Reg = IF playing = 0 THEN registry.editor ELSE registry.runtime
      /\ Placed(registry.editor)[m] \in Nat /\ Placed(registry.runtime)[m] \in Nat
  BY SceneFacts
<1>3. given[m] \in Nat /\ taken[m] \in Nat /\ Placed(r)[m] = Placed(Reg)[m] + given[m] - taken[m]
  BY DEF PlacedChanges
<1>4. CASE playing = 0
  <2>1. Placed(registry'.editor) = Placed(r) /\ Placed(registry'.runtime) = Placed(registry.runtime)
        /\ Placed(Reg) = Placed(registry.editor)
    BY <1>1, <1>2, <1>4, Zenon
  <2> QED
    BY <1>2, <1>3, <2>1
<1>5. CASE playing # 0
  <2>1. Placed(registry'.editor) = Placed(registry.editor) /\ Placed(registry'.runtime) = Placed(r)
        /\ Placed(Reg) = Placed(registry.runtime)
    BY <1>1, <1>2, <1>5, Zenon
  <2> QED
    BY <1>2, <1>3, <2>1
<1> QED
  BY <1>4, <1>5

(* References given and taken as the scenes' entities come and go.            *)

Counts(things, f) == \A m \in things : f[m] \in Nat

LEMMA ExchangedFacts ==
  ASSUME ModelsHeld, NEW given, NEW taken, Counts(Models, given), Counts(Models, taken)
  PROVE  /\ Exchanged(given, taken) \in [Models -> [refs: Int, state: ModelStates]]
         /\ \A m \in Models :
              Exchanged(given, taken)[m].refs = stored[m].refs + given[m] - taken[m]
<1>1. ASSUME NEW m \in Models
      PROVE  /\ stored[m].refs \in Int /\ stored[m].state \in ModelStates
             /\ given[m] \in Nat /\ taken[m] \in Nat
  BY DEF ModelsHeld, Counts
<1>2. \A m \in Models : stored[m].refs + given[m] - taken[m] \in Int
  BY <1>1
<1>3. "none" \in ModelStates
  BY DEF ModelStates
<1> HIDE DEF Models, ModelStates
<1> QED
  BY <1>1, <1>2, <1>3 DEF Exchanged

LEMMA OneFacts ==
  ASSUME NEW m \in Models
  PROVE  /\ Counts(Models, One(Models, m)) /\ Counts(Models, NoneOf(Models))
         /\ \A x \in Models : NoneOf(Models)[x] = 0 /\ One(Models, m)[x] = IF x = m THEN 1 ELSE 0
BY DEF Counts, One, NoneOf

LEMMA RequestedFacts ==
  ASSUME ModelsHeld, NEW m \in Models
  PROVE  /\ Requested(m) \in [Models -> [refs: Int, state: ModelStates]]
         /\ \A x \in Models : Requested(m)[x].refs = stored[x].refs + (IF x = m THEN 1 ELSE 0)
<1> DEFINE after == Exchanged(One(Models, m), NoneOf(Models))
<1>1. /\ after \in [Models -> [refs: Int, state: ModelStates]]
      /\ \A x \in Models : after[x].refs = stored[x].refs + One(Models, m)[x] - NoneOf(Models)[x]
  BY OneFacts, ExchangedFacts
<1>2. \A x \in Models : stored[x].refs \in Int
  BY DEF ModelsHeld
<1>3. \A x \in Models : after[x].refs = stored[x].refs + (IF x = m THEN 1 ELSE 0)
  BY <1>1, <1>2, OneFacts
<1>4. Requested(m) = [after EXCEPT ![m].state = IF @ = "none" THEN "loading" ELSE @]
  BY Zenon DEF Requested
<1>5. "loading" \in ModelStates
  BY DEF ModelStates
<1> HIDE DEF after, Models, ModelStates
<1> QED
  BY <1>1, <1>3, <1>4, <1>5

LEMMA ModelsStayHeld ==
  ASSUME ScenesKept, ModelsHeld, NEW r, Becomes(r),
         NEW given, NEW taken, OwnedChanges(r, Reg, given, taken),
         stored' \in [Models -> [refs: Int, state: ModelStates]],
         \A m \in Models : stored'[m].refs = stored[m].refs + given[m] - taken[m]
  PROVE  ModelsHeld'
<1>1. ASSUME NEW m \in Models
      PROVE  stored'[m].refs = Owned(registry'.editor)[m] + Owned(registry'.runtime)[m]
                                 + (IF m = "cube" THEN 1 ELSE 0)
  <2>1. Owned(registry'.editor)[m] + Owned(registry'.runtime)[m]
          = Owned(registry.editor)[m] + Owned(registry.runtime)[m] + given[m] - taken[m]
    BY OwnedTotals
  <2>2. Owned(registry.editor)[m] \in Nat /\ Owned(registry.runtime)[m] \in Nat
    BY SceneFacts
  <2>3. given[m] \in Nat /\ taken[m] \in Nat
    BY DEF OwnedChanges
  <2>4. stored[m].refs = Owned(registry.editor)[m] + Owned(registry.runtime)[m]
                           + (IF m = "cube" THEN 1 ELSE 0)
    BY DEF ModelsHeld
  <2>5. stored'[m].refs = stored[m].refs + given[m] - taken[m]
    OBVIOUS
  <2> QED
    BY <2>1, <2>2, <2>3, <2>4, <2>5
<1> QED
  BY <1>1 DEF ModelsHeld

LEMMA ModelsExchanged ==
  ASSUME ScenesKept, ModelsHeld, NEW r, Becomes(r),
         NEW given, NEW taken, OwnedChanges(r, Reg, given, taken),
         stored' = Exchanged(given, taken)
  PROVE  ModelsHeld'
<1>1. Counts(Models, given) /\ Counts(Models, taken)
  BY DEF Counts, OwnedChanges
<1>2. /\ stored' \in [Models -> [refs: Int, state: ModelStates]]
      /\ \A m \in Models : stored'[m].refs = stored[m].refs + given[m] - taken[m]
  BY <1>1, ExchangedFacts
<1> QED
  BY <1>2, ModelsStayHeld, Zenon

LEMMA ModelsUntouched ==
  ASSUME ScenesKept, ModelsHeld, NEW r, Becomes(r),
         OwnedChanges(r, Reg, NoneOf(Models), NoneOf(Models)), stored' = stored
  PROVE  ModelsHeld'
<1>1. \A m \in Models : stored'[m].refs = stored[m].refs + NoneOf(Models)[m] - NoneOf(Models)[m]
  BY DEF NoneOf, ModelsHeld
<1>2. stored' \in [Models -> [refs: Int, state: ModelStates]]
  BY DEF ModelsHeld
<1> QED
  BY <1>1, <1>2, ModelsStayHeld

(* Materials that stand for what is placed, and for an asset.               *)
MaterialRecords == [born: BOOLEAN, refs: Int, named: BOOLEAN]
StandFor(held, total) ==
  /\ held \in [Materials -> MaterialRecords]
  /\ \A m \in Materials : /\ held[m].refs = total[m] + (IF held[m].named THEN 1 ELSE 0)
                          /\ ~held[m].born => held[m].refs = 0

(* They will, with what is given and taken.                                 *)
Balances(held, given, taken, total) ==
  /\ held \in [Materials -> MaterialRecords]
  /\ \A m \in Materials :
       /\ given[m] \in Nat /\ taken[m] \in Nat /\ total[m] \in Nat
       /\ held[m].refs + given[m] - taken[m] = total[m] + (IF held[m].named THEN 1 ELSE 0)
       /\ ~held[m].born => held[m].refs + given[m] - taken[m] = 0

LEMMA ReheldFacts ==
  ASSUME NEW held, NEW given, NEW taken, NEW total, Balances(held, given, taken, total)
  PROVE  /\ StandFor(Reheld(held, given, taken), total)
         /\ \A m \in Materials : Reheld(held, given, taken)[m].named = held[m].named
<1> DEFINE after == Reheld(held, given, taken)
<1>1. ASSUME NEW m \in Materials
      PROVE  /\ held[m] \in MaterialRecords /\ held[m].refs + given[m] - taken[m] \in Int
             /\ held[m].refs \in Int /\ given[m] \in Nat /\ taken[m] \in Nat /\ total[m] \in Nat
  BY DEF Balances, MaterialRecords
<1>2. ASSUME NEW m \in Materials
      PROVE  /\ after[m] \in MaterialRecords /\ after[m].born = held[m].born
             /\ after[m].refs = held[m].refs + given[m] - taken[m]
             /\ after[m].named = held[m].named
  <2> DEFINE refs == held[m].refs + given[m] - taken[m]
  <2>1. after[m] = [held[m] EXCEPT !.refs = refs, !.named = held[m].named /\ refs > 0]
    BY DEF Reheld
  <2>2. held[m].named => refs > 0
    BY <1>1 DEF Balances
  <2>3. refs \in Int /\ held[m].named \in BOOLEAN
    BY <1>1 DEF MaterialRecords
  <2> HIDE DEF refs
  <2>4. (held[m].named /\ refs > 0) = held[m].named
    BY <2>2, <2>3
  <2>5. after[m] = [held[m] EXCEPT !.refs = refs, !.named = held[m].named]
    BY <2>1, <2>4
  <2> QED
    BY <1>1, <2>3, <2>5 DEF MaterialRecords, refs
<1>3. after = [m \in Materials |-> after[m]]
  BY DEF Reheld
<1> HIDE DEF after
<1>4. after \in [Materials -> MaterialRecords]
  BY <1>2, <1>3
<1>5. StandFor(after, total)
  BY <1>1, <1>2, <1>4 DEF StandFor, Balances
<1> QED
  BY <1>2, <1>5 DEF after

PlacedInBoth == [m \in Materials |-> Placed(registry.editor)[m] + Placed(registry.runtime)[m]]

LEMMA MaterialsStand ==
  MaterialsHeld <=> /\ StandFor(materials, PlacedInBoth)
                    /\ \A m \in pendingDeletions : m \in Materials /\ materials[m].named
BY DEF MaterialsHeld, StandFor, PlacedInBoth, MaterialRecords

LEMMA PlacedInBothIs ==
  ASSUME ScenesKept
  PROVE  Counts(Materials, PlacedInBoth)
BY SceneFacts DEF Counts, PlacedInBoth

LEMMA PlacedInBothChanges ==
  ASSUME ScenesKept, NEW r, Becomes(r), NEW given, NEW taken, PlacedChanges(r, Reg, given, taken),
         NEW m \in Materials
  PROVE  PlacedInBoth'[m] = PlacedInBoth[m] + given[m] - taken[m]
BY PlacedTotals DEF PlacedInBoth

LEMMA MaterialsReheld ==
  ASSUME ScenesKept, ScenesKept', MaterialsHeld, NEW r, Becomes(r),
         NEW given, NEW taken, PlacedChanges(r, Reg, given, taken),
         \A m \in Materials : given[m] > 0 => materials[m].born,
         materials' = Reheld(materials, given, taken), pendingDeletions' = pendingDeletions
  PROVE  MaterialsHeld'
<1>0. StandFor(materials, PlacedInBoth) /\ Counts(Materials, PlacedInBoth)
  BY MaterialsStand, PlacedInBothIs
<1>1. Counts(Materials, PlacedInBoth')
  <2>1. registry'.editor \in Registries /\ registry'.runtime \in Registries
    BY DEF ScenesKept
  <2>2. \A m \in Materials : Placed(registry'.editor)[m] \in Nat /\ Placed(registry'.runtime)[m] \in Nat
    BY <2>1, RegistryFacts
  <2> QED
    BY <2>2 DEF Counts, PlacedInBoth
<1>2. Counts(Materials, given) /\ Counts(Materials, taken)
  BY DEF Counts, PlacedChanges
<1>3. ASSUME NEW m \in Materials
      PROVE  /\ materials[m].refs + given[m] - taken[m]
                  = PlacedInBoth'[m] + (IF materials[m].named THEN 1 ELSE 0)
             /\ ~materials[m].born => materials[m].refs + given[m] - taken[m] = 0
  <2>1. PlacedInBoth'[m] = PlacedInBoth[m] + given[m] - taken[m]
    BY PlacedInBothChanges
  <2>2. /\ PlacedInBoth'[m] \in Nat /\ PlacedInBoth[m] \in Nat
        /\ given[m] \in Nat /\ taken[m] \in Nat
    BY <1>0, <1>1, <1>2 DEF Counts
  <2>3. /\ materials[m].refs = PlacedInBoth[m] + (IF materials[m].named THEN 1 ELSE 0)
        /\ ~materials[m].born => materials[m].refs = 0
    BY <1>0 DEF StandFor
  <2>4. given[m] > 0 => materials[m].born
    OBVIOUS
  <2> QED
    BY <2>1, <2>2, <2>3, <2>4
<1>4. materials \in [Materials -> MaterialRecords]
  BY <1>0 DEF StandFor
<1>5. /\ StandFor(Reheld(materials, given, taken), PlacedInBoth')
      /\ \A m \in Materials : Reheld(materials, given, taken)[m].named = materials[m].named
  <2>1. Balances(materials, given, taken, PlacedInBoth')
    BY <1>1, <1>2, <1>3, <1>4 DEF Balances, Counts
  <2> QED
    BY <2>1, ReheldFacts
<1>6. \A m \in pendingDeletions' : m \in Materials /\ materials'[m].named
  BY <1>5, MaterialsStand
<1>7. StandFor(materials', PlacedInBoth')
  BY <1>5
<1> QED
  BY <1>6, <1>7 DEF MaterialsHeld, StandFor, PlacedInBoth, MaterialRecords

LEMMA MaterialsUntouched ==
  ASSUME ScenesKept, MaterialsHeld, NEW r, Becomes(r),
         PlacedChanges(r, Reg, NoneOf(Materials), NoneOf(Materials)),
         materials' = materials, pendingDeletions' = pendingDeletions
  PROVE  MaterialsHeld'
<1>0. StandFor(materials, PlacedInBoth) /\ Counts(Materials, PlacedInBoth)
  BY MaterialsStand, PlacedInBothIs
<1>1. ASSUME NEW m \in Materials PROVE PlacedInBoth'[m] = PlacedInBoth[m]
  <2>1. PlacedInBoth'[m] = PlacedInBoth[m] + NoneOf(Materials)[m] - NoneOf(Materials)[m]
    BY PlacedInBothChanges
  <2>2. NoneOf(Materials)[m] = 0 /\ PlacedInBoth[m] \in Nat
    BY <1>0 DEF NoneOf, Counts
  <2> QED
    BY <2>1, <2>2
<1>2. StandFor(materials', PlacedInBoth')
  BY <1>0, <1>1 DEF StandFor
<1>3. \A m \in pendingDeletions' : m \in Materials /\ materials'[m].named
  BY MaterialsStand
<1> QED
  BY <1>2, <1>3 DEF MaterialsHeld, StandFor, PlacedInBoth, MaterialRecords

(* What an entity has is a material there is.                               *)
LEMMA PlacedIsBorn ==
  ASSUME ScenesKept, MaterialsHeld, NEW reg, reg \in {registry.editor, registry.runtime},
         NEW m \in Materials, Placed(reg)[m] # 0
  PROVE  materials[m].born /\ materials[m].refs > 0
<1>1. /\ Placed(registry.editor)[m] \in Nat /\ Placed(registry.runtime)[m] \in Nat
  BY SceneFacts
<1>2. Placed(registry.editor)[m] # 0 \/ Placed(registry.runtime)[m] # 0
  OBVIOUS
<1>3. /\ materials[m].refs = Placed(registry.editor)[m] + Placed(registry.runtime)[m]
                                + (IF materials[m].named THEN 1 ELSE 0)
      /\ ~materials[m].born => materials[m].refs = 0
  BY DEF MaterialsHeld
<1>4. materials[m].refs > 0
  BY <1>1, <1>2, <1>3
<1>5. materials[m].refs # 0
  BY <1>1, <1>3, <1>4
<1> QED
  BY <1>3, <1>4, <1>5

(* The scene that is shown, with what it holds unchanged: what a step that     *)
(* writes something else of its entities keeps.                             *)
LEMMA HoldingsUntouched ==
  ASSUME EditorInv, NEW r \in Registries, Becomes(r), Owned(r) = Owned(Reg),
         Placed(r) = Placed(Reg), Descends(r, Reg), Embodied(r, bodies'),
         playing = 0 => bodies' = {}, playing' = playing,
         stored' = stored, materials' = materials, pendingDeletions' = pendingDeletions
  PROVE  ScenesKept' /\ ModelsHeld' /\ MaterialsHeld'
<1>1. ScenesKept /\ ModelsHeld /\ MaterialsHeld
  BY DEF EditorInv
<1>2. Reg \in Registries
  BY <1>1, SceneFacts
<1>3. /\ OwnedChanges(r, Reg, NoneOf(Models), NoneOf(Models))
      /\ PlacedChanges(r, Reg, NoneOf(Materials), NoneOf(Materials))
  BY <1>2, OwnedSame, PlacedSame
<1>4. ScenesKept'
  BY <1>1, ShownKeeps
<1>5. ModelsHeld'
  BY <1>1, <1>3, ModelsUntouched
<1>6. MaterialsHeld'
  BY <1>1, <1>3, MaterialsUntouched
<1> QED
  BY <1>4, <1>5, <1>6

-----------------------------------------------------------------------------
(* The loops of the panels.                                                 *)

AssignStep(p, s, e) == SetOn(s, e)
Assigning == INSTANCE FoldFacts WITH Step <- AssignStep
ChooseStep(present, s, e) == IF e \in present THEN s ELSE SetOff(s, e)
Choosing == INSTANCE FoldFacts WITH Step <- ChooseStep
TrimStep(p, l, x) ==
  IF Len(l) <= ListedLoads \/ { i \in DOMAIN l : l[i].settled } = {} THEN l
  ELSE RemoveAt(l, Min({ i \in DOMAIN l : l[i].settled }))
Trimming == INSTANCE FoldFacts WITH Step <- TrimStep
MoveStep(under, reg, e) == Moved(under, reg, e)
Moving == INSTANCE FoldFacts WITH Step <- MoveStep

LEMMA AssignedFacts ==
  ASSUME NEW s \in Seq(Nat), playing \in Nat
  PROVE  Assigned(s) \in Selections /\ Assigned(s).of = playing
<1> DEFINE n == Len(s)
           start == [Cleared EXCEPT !.of = playing]
           T == { x \in Selections : x.of = playing }
           I == (0 .. n) \X T
<1>1. n \in Nat /\ DOMAIN s = 1 .. n /\ \A i \in 1 .. n : s[i] \in Nat
  OBVIOUS
<1>2. start \in T
  <2>1. PICK none : none = << >>
    OBVIOUS
  <2>2. start = [of |-> playing, ids |-> none, primary |-> None]
    BY <2>1 DEF Cleared
  <2>3. none \in Seq(Nat)
    BY <2>1
  <2> HIDE DEF start
  <2> QED
    BY <2>2, <2>3 DEF Selections
<1> HIDE DEF start
<1>3. << 0, start >> \in I
  BY <1>1, <1>2
<1>4. ASSUME NEW i \in 1 .. n, NEW x, << i - 1, x >> \in I
      PROVE  << i, AssignStep(0, x, s[i]) >> \in I
  <2>1. x \in T /\ i \in 0 .. n /\ s[i] \in Nat
    BY <1>1, <1>4
  <2>2. PICK ids : ids = IF s[i] \in Range(x.ids) THEN x.ids ELSE Append(x.ids, s[i])
    OBVIOUS
  <2>3. ids \in Seq(Nat)
    BY <2>1, <2>2 DEF Selections
  <2>4. AssignStep(0, x, s[i]) = [x EXCEPT !.ids = ids, !.primary = s[i]]
    BY <2>2 DEF AssignStep, SetOn
  <2>5. AssignStep(0, x, s[i]) \in T
    BY <2>1, <2>3, <2>4 DEF Selections
  <2> QED
    BY <2>1, <2>5
<1> HIDE DEF I, n
<1>5. << n, Assigning!Run(0, start, s) >> \in I
  BY <1>1, <1>3, <1>4, Assigning!RunKeeps
<1>6. Assigning!Run(0, start, s) = Assigned(s)
  BY Zenon DEF Assigning!Run, Assigned, AssignStep, FoldLeft, Assigning!FoldLeft, MapThenFoldSet,
               Assigning!MapThenFoldSet, Max, Assigning!Max, start
<1> QED
  BY <1>5, <1>6 DEF I

LEMMA SetOffFacts ==
  ASSUME NEW s \in Selections, NEW e
  PROVE  /\ SetOff(s, e) \in Selections /\ SetOff(s, e).of = s.of
         /\ SetOff(s, e).ids # << >> => s.ids # << >>
<1>1. CASE e \notin Range(s.ids)
  BY <1>1 DEF SetOff
<1>2. CASE e \in Range(s.ids)
  <2>1. PICK left : left = Among(s.ids, Range(s.ids) \ {e})
    OBVIOUS
  <2>2. s.ids \in Seq(Nat)
    BY DEF Selections
  <2>3. left \in Seq((Range(s.ids) \ {e}) \cap Nat)
    BY <2>1, <2>2, AmongFacts
  <2>4. left \in Seq(Nat)
    <3>1. (Range(s.ids) \ {e}) \cap Nat \subseteq Nat
      OBVIOUS
    <3> QED
      BY <2>3, <3>1, MoreSequences
  <2>5. PICK first : first = IF s.primary # e THEN s.primary
                             ELSE IF left = << >> THEN None ELSE Last(left)
    OBVIOUS
  <2>6. first \in Nat \cup {None}
    <3>1. left # << >> => Last(left) \in Nat
      BY <2>4 DEF Last
    <3> QED
      BY <2>5, <3>1 DEF Selections
  <2>7. SetOff(s, e) = [s EXCEPT !.ids = left, !.primary = first]
    BY <1>2, <2>1, <2>5 DEF SetOff
  <2>8. s.ids # << >>
    BY <1>2, <2>2 DEF Range
  <2> QED
    BY <2>4, <2>6, <2>7, <2>8 DEF Selections
<1> QED
  BY <1>1, <1>2

LEMMA ChosenFacts ==
  ASSUME selection \in Selections
  PROVE  /\ Chosen \in Selections /\ Chosen.of = selection.of
         /\ Chosen.ids # << >> => selection.ids # << >>
<1> DEFINE s == selection.ids
           n == Len(s)
           T == { x \in Selections : x.of = selection.of
                                     /\ (x.ids # << >> => selection.ids # << >>) }
           I == (0 .. n) \X T
           P == Entities(Reg)
<1>1. n \in Nat /\ DOMAIN s = 1 .. n
  BY DEF Selections
<1>2. << 0, selection >> \in I
  BY <1>1
<1>3. ASSUME NEW i \in 1 .. n, NEW x, << i - 1, x >> \in I
      PROVE  << i, ChooseStep(P, x, s[i]) >> \in I
  <2>1. x \in T /\ i \in 0 .. n
    BY <1>1, <1>3
  <2>2. SetOff(x, s[i]) \in T
    BY <2>1, SetOffFacts
  <2>3. ChooseStep(P, x, s[i]) \in T
    BY <2>1, <2>2 DEF ChooseStep
  <2> QED
    BY <2>1, <2>3
<1> HIDE DEF I, n, s, P
<1>4. << n, Choosing!Run(P, selection, s) >> \in I
  BY <1>1, <1>2, <1>3, Choosing!RunKeeps
<1>5. Choosing!Run(P, selection, s) = Chosen
  BY Zenon DEF Choosing!Run, Chosen, ChooseStep, FoldLeft, Choosing!FoldLeft, MapThenFoldSet,
               Choosing!MapThenFoldSet, Max, Choosing!Max, s, P
<1> QED
  BY <1>4, <1>5 DEF I

LEMMA TrimmedFacts ==
  ASSUME NEW T, NEW list \in Seq(T)
  PROVE  Trimmed(list) \in Seq(T)
<1> DEFINE n == Len(list)
           I == (0 .. n) \X Seq(T)
<1>1. n \in Nat /\ DOMAIN list = 1 .. n
  OBVIOUS
<1>2. << 0, list >> \in I
  BY <1>1
<1>3. ASSUME NEW i \in 1 .. n, NEW l, << i - 1, l >> \in I
      PROVE  << i, TrimStep(0, l, list[i]) >> \in I
  <2>1. l \in Seq(T) /\ i \in 0 .. n
    BY <1>1, <1>3
  <2>2. PICK settled : settled = { j \in DOMAIN l : l[j].settled }
    OBVIOUS
  <2>3. CASE settled # {}
    <3>1. settled \in SUBSET Nat
      BY <2>1, <2>2
    <3>2. \E m \in settled : \A k \in settled : m <= k
      BY <2>3, <3>1, Trimming!LeastNumber
    <3>3. PICK m : m = Min(settled)
      OBVIOUS
    <3>4. m \in settled
      BY <3>2, <3>3, Zenon DEF Min
    <3>5. m \in 1 .. Len(l) /\ Len(l) \in Nat
      BY <2>1, <2>2, <3>4
    <3>6. SubSeq(l, 1, m - 1) \in Seq(T) /\ SubSeq(l, m + 1, Len(l)) \in Seq(T)
      BY <2>1, <3>5
    <3>7. RemoveAt(l, m) \in Seq(T)
      BY <3>6 DEF RemoveAt
    <3> QED
      BY <2>1, <2>2, <3>3, <3>7 DEF TrimStep
  <2>4. CASE settled = {}
    BY <2>1, <2>2, <2>4 DEF TrimStep
  <2> QED
    BY <2>3, <2>4
<1> HIDE DEF I, n
<1>4. << n, Trimming!Run(0, list, list) >> \in I
  BY <1>1, <1>2, <1>3, Trimming!RunKeeps
<1>5. Trimming!Run(0, list, list) = Trimmed(list)
  BY Zenon DEF Trimming!Run, Trimmed, TrimStep, FoldLeft, Trimming!FoldLeft, MapThenFoldSet,
               Trimming!MapThenFoldSet, Max, Trimming!Max
<1> QED
  BY <1>4, <1>5 DEF I

(* Nothing but where it is, what it is called and what it can do.             *)
Same(r, reg) ==
  /\ Entities(r) = Entities(reg)
  /\ \A e \in Entities(reg) : /\ r[e].owned = reg[e].owned /\ r[e].model = reg[e].model
                              /\ r[e].slots = reg[e].slots /\ r[e].body = reg[e].body

LEMMA MovedFacts ==
  ASSUME NEW reg \in Registries, NEW s \in Seq(Entities(reg)), NEW under \in Nat \cup {None},
         None \notin EntityRecords
  PROVE  Moving!Run(under, reg, s) \in Registries /\ Same(Moving!Run(under, reg, s), reg)
<1> DEFINE n == Len(s)
           T == { x \in Registries : Same(x, reg) }
           I == (0 .. n) \X T
<1>1. n \in Nat /\ DOMAIN s = 1 .. n /\ \A i \in 1 .. n : s[i] \in Entities(reg)
  BY ElementsOf, Zenon
<1>0. reg \in T
  BY DEF Same
<1> HIDE DEF T
<1>2. << 0, reg >> \in I
  BY <1>0, <1>1
<1>3. ASSUME NEW i \in 1 .. n, NEW x, << i - 1, x >> \in I
      PROVE  << i, MoveStep(under, x, s[i]) >> \in I
  <2>1. x \in T /\ i \in 0 .. n
    BY <1>1, <1>3
  <2>2. PICK e : e = s[i]
    OBVIOUS
  <2>12. x \in Registries /\ Same(x, reg)
    BY <2>1 DEF T
  <2>3. e \in Entities(x)
    BY <1>1, <2>2, <2>12 DEF Same
  <2>4. PICK y : y = [x[e] EXCEPT !.parent = under]
    OBVIOUS
  <2>5. x[e] \in EntityRecords
    BY <2>3, <2>12, RegistryFacts
  <2>6. /\ y \in EntityRecords /\ y.owned = x[e].owned /\ y.model = x[e].model
        /\ y.slots = x[e].slots /\ y.body = x[e].body
    BY <2>4, <2>5 DEF EntityRecords
  <2>7. PICK z : z = [x EXCEPT ![e] = y]
    OBVIOUS
  <2>8. /\ z \in Registries /\ Entities(z) = Entities(x) /\ z[e] = y
        /\ \A o \in Entities(x) : o # e => z[o] = x[o]
    <3>1. x \in Registries /\ e \in Entities(x) /\ y \in EntityRecords
      BY <2>3, <2>6, <2>12
    <3>2. Rewritten(z, x, e, y)
      BY <2>7, <3>1, RegistryReplaced
    <3> QED
      BY <3>2 DEF Rewritten
  <2>9. z \in T
    BY <2>6, <2>8, <2>12 DEF Same, T
  <2>10. [x EXCEPT ![e].parent = under] = z
    BY <2>4, <2>7
  <2>11. MoveStep(under, x, e) \in T
    BY <2>1, <2>9, <2>10 DEF MoveStep, Moved
  <2> QED
    BY <2>1, <2>2, <2>11
<1> HIDE DEF I, n
<1>4. << n, Moving!Run(under, reg, s) >> \in I
  BY <1>1, <1>2, <1>3, Moving!RunKeeps
<1> QED
  BY <1>4 DEF I, T

LEMMA MovedIs ==
  ASSUME NEW under, NEW reg, NEW s
  PROVE  FoldLeft(LAMBDA x, e : Moved(under, x, e), reg, s) = Moving!Run(under, reg, s)
BY Zenon DEF Moving!Run, MoveStep, FoldLeft, Moving!FoldLeft, MapThenFoldSet,
             Moving!MapThenFoldSet, Max, Moving!Max

LEMMA SameHoldings ==
  ASSUME EditorInv, NEW r \in Registries, Becomes(r), Same(r, Reg), bodies' = bodies,
         playing' = playing, stored' = stored, materials' = materials,
         pendingDeletions' = pendingDeletions
  PROVE  ScenesKept' /\ ModelsHeld' /\ MaterialsHeld'
<1>1. ScenesKept /\ Reg \in Registries
  BY SceneFacts DEF EditorInv
<1>2. Alike(r, Reg, Entities(Reg)) /\ Entities(r) = Entities(Reg)
  BY DEF Same, Alike
<1>3. Owned(r) = Owned(Reg) /\ Placed(r) = Placed(Reg)
  BY <1>1, <1>2, RegistryAlike
<1>4. Descends(r, Reg)
  BY DEF Same, Descends
<1>5. Embodied(Reg, bodies) /\ (playing = 0 => bodies = {})
  BY <1>1, ShownIsEmbodied
<1>6. Embodied(r, bodies') /\ (playing = 0 => bodies' = {})
  BY <1>5 DEF Same, Embodied
<1> QED
  BY <1>3, <1>4, <1>6, HoldingsUntouched

(* The scenes are left alone.                                               *)
LEMMA NothingHappens ==
  ASSUME EditorInv, registry' = registry, bodies' = bodies, playing' = playing,
         stored' = stored, materials' = materials, pendingDeletions' = pendingDeletions
  PROVE  ScenesKept' /\ ModelsHeld' /\ MaterialsHeld'
BY DEF EditorInv, ScenesKept, ModelsKept, BodiesKept, ModelsHeld, MaterialsHeld

-----------------------------------------------------------------------------
(* What the panels leave of the session.                                    *)

(* A selection of the scene that is shown.                                  *)
Fits(s) == s \in Selections /\ (s.ids # << >> => s.of = playing)

LEMMA SelectionsFit ==
  ASSUME SessionKept
  PROVE  /\ Fits(selection) /\ Fits(Chosen) /\ Fits(Cleared)
         /\ \A s \in Seq(Nat) : Fits(Assigned(s))
<1>1. playing \in Nat /\ selection \in Selections /\ (selection.ids # << >> => selection.of = playing)
  BY DEF SessionKept
<1>2. Fits(Chosen)
  BY <1>1, ChosenFacts DEF Fits
<1>3. Fits(Cleared)
  <2>1. PICK none : none = << >>
    OBVIOUS
  <2>2. Cleared = [of |-> 0, ids |-> none, primary |-> None] /\ none \in Seq(Nat)
    BY <2>1 DEF Cleared
  <2>3. Cleared.ids = << >> /\ Cleared \in Selections
    BY <2>1, <2>2 DEF Selections
  <2> QED
    BY <2>3 DEF Fits
<1>4. \A s \in Seq(Nat) : Fits(Assigned(s))
  BY <1>1, AssignedFacts DEF Fits
<1> QED
  BY <1>1, <1>2, <1>3, <1>4 DEF Fits

LEMMA SessionStays ==
  ASSUME SessionKept, UNCHANGED << playing, plays, renaming, typed, loads >>, Fits(selection')
  PROVE  SessionKept'
BY DEF SessionKept, Fits, LoadsOf

LEMMA MouseStays ==
  ASSUME MouseKept, UNCHANGED << playing, mouse >>
  PROVE  MouseKept'
BY DEF MouseKept

LEMMA NoneFacts ==
  /\ None \notin Nat /\ None \notin EntityRecords /\ None \notin Models
  /\ \A n \in {"a", "b"} : Named(n) \in EntityRecords
  /\ \A n \in {"a", "b"} : Named(n).model = None /\ Named(n).owned = FALSE /\ Named(n).body = FALSE
                            /\ \A s \in Places : Named(n).slots[s] = None
<1>1. None \notin Nat /\ None \notin EntityRecords /\ None \notin Models
  BY EditorAssumption
<1> QED
  BY <1>1 DEF Named, EntityRecords

(* An entity is added to the scene that is shown.                           *)
RefsGrow(given) ==
  /\ stored' \in [Models -> [refs: Int, state: ModelStates]]
  /\ \A m \in Models : stored'[m].refs = stored[m].refs + given[m]

LEMMA AdditionKeeps ==
  ASSUME EditorInv, NEW x \in EntityRecords, \A s \in Places : x.slots[s] = None,
         Becomes(Append(Reg, x)), Backed(x), x.body => playing # 0 /\ Len(Reg) + 1 \in bodies',
         bodies \subseteq bodies', playing = 0 => bodies' = bodies, playing' = playing,
         NEW given, \A m \in Models : given[m] = (IF x.owned /\ x.model = m THEN 1 ELSE 0),
         RefsGrow(given), UNCHANGED << materials, pendingDeletions >>
  PROVE  ScenesKept' /\ ModelsHeld' /\ MaterialsHeld'
<1>1. ScenesKept /\ ModelsHeld /\ MaterialsHeld /\ Reg \in Registries
  BY SceneFacts DEF EditorInv
<1>2. PICK r : r = Append(Reg, x)
  OBVIOUS
<1>3. None \notin Nat \cup EntityRecords
  BY NoneFacts
<1>4. /\ r \in Registries /\ Entities(r) = Entities(Reg) \cup {Len(Reg) + 1}
      /\ Len(Reg) + 1 \notin Entities(Reg) /\ r[Len(Reg) + 1] = x
      /\ \A e \in Entities(Reg) : r[e] = Reg[e]
      /\ OwnedChanges(r, Reg, given, NoneOf(Models))
      /\ PlacedChanges(r, Reg, NoneOf(Materials), NoneOf(Materials))
  <2>1. Appended(r, Reg, x)
    BY <1>1, <1>2, <1>3, RegistryAppended
  <2> QED
    BY <2>1 DEF Appended
<1>5. Becomes(r)
  BY <1>2
<1>6. Descends(r, Reg)
  BY <1>4 DEF Descends
<1>7. Embodied(Reg, bodies) /\ (playing = 0 => bodies = {})
  BY <1>1, ShownIsEmbodied
<1>8. Embodied(r, bodies')
  BY <1>4, <1>7 DEF Embodied
<1>9. ScenesKept'
  BY <1>1, <1>4, <1>5, <1>6, <1>7, <1>8, ShownKeeps
<1>10. ModelsHeld'
  <2>1. /\ stored' \in [Models -> [refs: Int, state: ModelStates]]
        /\ \A m \in Models : stored'[m].refs = stored[m].refs + given[m] - NoneOf(Models)[m]
    BY <1>1 DEF RefsGrow, NoneOf, ModelsHeld
  <2> QED
    BY <1>1, <1>4, <1>5, <2>1, ModelsStayHeld
<1>11. MaterialsHeld'
  BY <1>1, <1>4, <1>5, MaterialsUntouched
<1> QED
  BY <1>9, <1>10, <1>11

LEMMA AddChildKeeps ==
  ASSUME EditorInv, NEW under \in Entities(Reg) \cup {None}, AddChild(under)
  PROVE  EditorInv'
<1> DEFINE x == [Named("b") EXCEPT !.parent = under]
<1>1. ScenesKept /\ ModelsHeld /\ SessionKept /\ MouseKept /\ Reg \in Registries
  BY SceneFacts DEF EditorInv
<1>2. under \in Nat \cup {None} /\ Len(Reg) + 1 \in Nat
  BY <1>1, RegistryFacts
<1>3. /\ x \in EntityRecords /\ \A s \in Places : x.slots[s] = None
      /\ x.model = None /\ x.owned = FALSE /\ x.body = FALSE
  BY <1>2 DEF Named, EntityRecords
<1>4. /\ Becomes(Append(Reg, x)) /\ selection' = Assigned(<< Len(Reg) + 1 >>)
      /\ UNCHANGED << stored, materials, pendingDeletions, playing, plays, mouse,
                      renaming, typed, bodies, loads >>
  BY DEF AddChild, Put, Becomes, Assets, Session, Typing, Physics
<1> HIDE DEF x
<1>5. Backed(x)
  BY <1>3 DEF Backed
<1>6. ScenesKept' /\ ModelsHeld' /\ MaterialsHeld'
  <2>1. \A m \in Models : NoneOf(Models)[m] = IF x.owned /\ x.model = m THEN 1 ELSE 0
    BY <1>3 DEF NoneOf
  <2>2. RefsGrow(NoneOf(Models))
    BY <1>1, <1>4 DEF RefsGrow, NoneOf, ModelsHeld
  <2> QED
    BY <1>3, <1>4, <1>5, <2>1, <2>2, AdditionKeeps
<1>7. SessionKept'
  <2>1. << Len(Reg) + 1 >> \in Seq(Nat)
    BY <1>2
  <2>2. Fits(selection')
    BY <1>1, <1>4, <2>1, SelectionsFit
  <2> QED
    BY <1>1, <1>4, <2>2, SessionStays
<1>8. MouseKept'
  BY <1>1, <1>4, MouseStays
<1> QED
  BY <1>6, <1>7, <1>8 DEF EditorInv


-----------------------------------------------------------------------------
(* Duplicating.                                                             *)

LEMMA TargetsFacts ==
  ASSUME Reg \in Registries, None \notin Nat, selection \in Selections
  PROVE  /\ Targets \in Seq(Entities(Reg)) /\ Copied \in Seq(Entities(Reg))
         /\ Range(Copied) \subseteq Entities(Reg)
         /\ \A i \in DOMAIN Targets : \E j \in DOMAIN Copied : Copied[j] = Targets[i]
<1> DEFINE E == Entities(Reg)
           free == { e \in E : Above(Reg, e) \cap Range(Chosen.ids) = {} }
           parts == [ i \in DOMAIN Targets |-> Subtree(Reg, Targets[i]) ]
<1>1. PICK n \in Nat : DOMAIN Reg = 1 .. n
  BY RegistryFacts
<1>2. Targets \in Seq(E)
  <2>1. Chosen.ids \in Seq(Nat)
    BY ChosenFacts DEF Selections
  <2>2. Targets = Among(Chosen.ids, free)
    BY DEF Targets, SelectionRoots
  <2>3. free \cap Nat \subseteq E
    OBVIOUS
  <2> HIDE DEF free, E
  <2>4. Among(Chosen.ids, free) \in Seq(free \cap Nat)
    BY <2>1, AmongFacts
  <2> QED
    BY <2>2, <2>3, <2>4, MoreSequences
<1>3. PICK k \in Nat : DOMAIN Targets = 1 .. k
  BY <1>2
<1>4. ASSUME NEW i \in 1 .. k
      PROVE  /\ parts[i] \in Seq(E) /\ 1 \in DOMAIN parts[i]
             /\ parts[i][1] = Targets[i]
  <2>1. Targets[i] \in E
    BY <1>2, <1>3
  <2> QED
    BY <1>1, <1>3, <2>1, SubtreeFacts
<1>5. parts \in Seq(Seq(E)) /\ DOMAIN parts = 1 .. k
  BY <1>3, <1>4
<1>6. Copied = FlattenSeq(parts)
  BY DEF Copied
<1> HIDE DEF parts, E
<1>7. /\ Copied \in Seq(E)
      /\ \A i \in 1 .. k : \E j \in DOMAIN Copied : Copied[j] = Targets[i]
  <2>1. /\ FlattenSeq(parts) \in Seq(E)
        /\ \A i \in DOMAIN parts : \A j \in DOMAIN parts[i] :
             \E l \in DOMAIN FlattenSeq(parts) : FlattenSeq(parts)[l] = parts[i][j]
    BY <1>5, FlattenedIs
  <2>2. ASSUME NEW i \in 1 .. k PROVE \E j \in DOMAIN Copied : Copied[j] = Targets[i]
    <3>1. 1 \in DOMAIN parts[i] /\ parts[i][1] = Targets[i] /\ i \in DOMAIN parts
      BY <1>4, <1>5
    <3>2. \E l \in DOMAIN FlattenSeq(parts) : FlattenSeq(parts)[l] = parts[i][1]
      BY <2>1, <3>1, Zenon
    <3> QED
      BY <1>6, <3>1, <3>2
  <2> QED
    BY <1>6, <2>1, <2>2, Zenon
<1>8. Range(Copied) \subseteq E
  BY <1>7 DEF Range
<1> QED
  BY <1>2, <1>3, <1>7, <1>8 DEF E

LEMMA CopyFacts ==
  ASSUME Reg \in Registries, None \notin Nat, None \notin EntityRecords, selection \in Selections
  PROVE  /\ [ i \in DOMAIN Targets |-> CopyOf(Targets[i]) ] \in Seq(Nat)
         /\ Copies \in Seq(EntityRecords) /\ DOMAIN Copies = DOMAIN Copied
         /\ \A i \in DOMAIN Copied :
              /\ Copied[i] \in Entities(Reg) /\ Copies[i].body = FALSE
              /\ Copies[i].model = Reg[Copied[i]].model /\ Copies[i].owned = Reg[Copied[i]].owned
              /\ Copies[i].slots = Reg[Copied[i]].slots
<1>1. /\ Targets \in Seq(Entities(Reg)) /\ Copied \in Seq(Entities(Reg))
      /\ \A i \in DOMAIN Targets : \E j \in DOMAIN Copied : Copied[j] = Targets[i]
  BY TargetsFacts
<1>2. /\ \A e \in Entities(Reg) : Reg[e] \in EntityRecords
      /\ Len(Reg) \in Nat
  BY RegistryFacts
<1>3. PICK n \in Nat : DOMAIN Copied = 1 .. n /\ \A i \in 1 .. n : Copied[i] \in Entities(Reg)
  BY <1>1, ElementsOf, Zenon
<1>4. \A e : (\E j \in DOMAIN Copied : Copied[j] = e) => CopyOf(e) \in Nat
  BY <1>2, <1>3 DEF CopyOf
<1>5. [ i \in DOMAIN Targets |-> CopyOf(Targets[i]) ] \in Seq(Nat)
  <2>1. PICK k \in Nat : DOMAIN Targets = 1 .. k
    BY <1>1
  <2>2. \A i \in 1 .. k : CopyOf(Targets[i]) \in Nat
    BY <1>1, <1>4, <2>1
  <2> QED
    BY <2>1, <2>2
<1>6. ASSUME NEW i \in 1 .. n
      PROVE  /\ Copies[i] \in EntityRecords /\ Copies[i].body = FALSE
             /\ Copies[i].model = Reg[Copied[i]].model /\ Copies[i].owned = Reg[Copied[i]].owned
             /\ Copies[i].slots = Reg[Copied[i]].slots
  <2>1. PICK x : x = Reg[Copied[i]]
    OBVIOUS
  <2>2. x \in EntityRecords
    BY <1>2, <1>3, <2>1
  <2>3. PICK p : p = IF x.parent \in Range(Copied) THEN CopyOf(x.parent) ELSE x.parent
    OBVIOUS
  <2>4. p \in Nat \cup {None}
    <3>1. x.parent \in Nat \cup {None}
      BY <2>2 DEF EntityRecords
    <3>2. x.parent \in Range(Copied) => CopyOf(x.parent) \in Nat
      BY <1>4 DEF Range
    <3> QED
      BY <2>3, <3>1, <3>2
  <2>5. Copies[i] = [x EXCEPT !.body = FALSE, !.parent = p]
    BY <1>3, <2>1, <2>3 DEF Copies
  <2>6. PICK c : c = Copies[i]
    OBVIOUS
  <2>7. /\ c \in EntityRecords /\ c.body = FALSE /\ c.model = x.model /\ c.owned = x.owned
        /\ c.slots = x.slots
    BY <2>2, <2>4, <2>5, <2>6 DEF EntityRecords
  <2> QED
    BY <2>1, <2>6, <2>7
<1>7. DOMAIN Copies = 1 .. n
  BY <1>3 DEF Copies
<1>8. Copies \in Seq(EntityRecords)
  <2>1. PICK c : c = Copies
    OBVIOUS
  <2>2. DOMAIN c = 1 .. n /\ c = [i \in 1 .. n |-> c[i]]
    BY <1>3, <1>7, <2>1 DEF Copies
  <2>3. \A i \in 1 .. n : c[i] \in EntityRecords
    BY <1>6, <2>1
  <2>4. c \in [1 .. n -> EntityRecords]
    BY <2>2, <2>3, Zenon
  <2> QED
    BY <2>1, <2>4
<1> QED
  BY <1>3, <1>5, <1>6, <1>7, <1>8

LEMMA DuplicateKeeps ==
  ASSUME EditorInv, Duplicate
  PROVE  EditorInv'
<1>1. ScenesKept /\ ModelsHeld /\ MaterialsHeld /\ SessionKept /\ MouseKept /\ Reg \in Registries
  BY SceneFacts DEF EditorInv
<1>2. None \notin Nat /\ None \notin EntityRecords /\ selection \in Selections
  BY <1>1, NoneFacts DEF SessionKept
<1>3. PICK r : r = Reg \o Copies
  OBVIOUS
<1>4. PICK given : given = OwnedIn(Copies, DOMAIN Copies)
  OBVIOUS
<1>5. PICK put : put = PlacedIn(Copies, DOMAIN Copies)
  OBVIOUS
<1>6. /\ Becomes(r) /\ stored' = Exchanged(given, NoneOf(Models))
      /\ materials' = Reheld(materials, put, NoneOf(Materials))
      /\ selection' = Assigned([ i \in DOMAIN Targets |-> CopyOf(Targets[i]) ])
      /\ UNCHANGED << pendingDeletions, playing, plays, mouse, renaming, typed, bodies, loads >>
  BY <1>3, <1>4, <1>5 DEF Duplicate, Put, Becomes, Session, Typing, Physics
<1>7. /\ [ i \in DOMAIN Targets |-> CopyOf(Targets[i]) ] \in Seq(Nat)
      /\ Copies \in Seq(EntityRecords) /\ DOMAIN Copies = DOMAIN Copied
      /\ \A i \in DOMAIN Copied :
           /\ Copied[i] \in Entities(Reg) /\ Copies[i].body = FALSE
           /\ Copies[i].model = Reg[Copied[i]].model /\ Copies[i].owned = Reg[Copied[i]].owned
           /\ Copies[i].slots = Reg[Copied[i]].slots
  BY <1>1, <1>2, CopyFacts
<1>8. /\ r \in Registries /\ DOMAIN Copies = 1 .. Len(Copies)
      /\ Entities(r) = Entities(Reg) \cup (Len(Reg) + 1 .. Len(Reg) + Len(Copies))
      /\ \A e \in Entities(Reg) : r[e] = Reg[e]
      /\ \A i \in 1 .. Len(Copies) : r[Len(Reg) + i] = Copies[i]
      /\ OwnedChanges(r, Reg, OwnedIn(Copies, DOMAIN Copies), NoneOf(Models))
      /\ PlacedChanges(r, Reg, PlacedIn(Copies, DOMAIN Copies), NoneOf(Materials))
  <2>1. Joined(r, Reg, Copies)
    BY <1>1, <1>2, <1>3, <1>7, RegistryJoined
  <2> QED
    BY <2>1, Zenon DEF Joined
<1>9. \A e \in Entities(r) : e \in Entities(Reg) \/ \E i \in DOMAIN Copied : r[e] = Copies[i]
  <2>1. Len(Reg) \in Nat /\ Len(Copies) \in Nat
    BY <1>1, <1>7, RegistryFacts
  <2>2. ASSUME NEW e \in Len(Reg) + 1 .. Len(Reg) + Len(Copies)
        PROVE  e - Len(Reg) \in 1 .. Len(Copies) /\ e = Len(Reg) + (e - Len(Reg))
    BY <2>1
  <2>3. ASSUME NEW e \in Len(Reg) + 1 .. Len(Reg) + Len(Copies)
        PROVE  e - Len(Reg) \in DOMAIN Copied /\ r[e] = Copies[e - Len(Reg)]
    <3>1. e - Len(Reg) \in 1 .. Len(Copies) /\ e = Len(Reg) + (e - Len(Reg))
      BY <2>2
    <3> QED
      BY <1>7, <1>8, <3>1, Zenon
  <2> QED
    BY <1>8, <2>3, Zenon
<1>10. Descends(r, Reg)
  BY <1>7, <1>8, <1>9 DEF Descends
<1>11. Embodied(r, bodies') /\ (playing = 0 => bodies' = {})
  <2>1. Embodied(Reg, bodies) /\ (playing = 0 => bodies = {})
    BY <1>1, ShownIsEmbodied
  <2> QED
    BY <1>6, <1>7, <1>8, <1>9, <2>1 DEF Embodied
<1>12. ScenesKept'
  BY <1>1, <1>6, <1>8, <1>10, <1>11, ShownKeeps
<1>13. OwnedChanges(r, Reg, given, NoneOf(Models)) /\ PlacedChanges(r, Reg, put, NoneOf(Materials))
  BY <1>4, <1>5, <1>8
<1>14. ModelsHeld'
  BY <1>1, <1>6, <1>13, ModelsExchanged
<1>15. ASSUME NEW m \in Materials, put[m] > 0 PROVE materials[m].born
  <2>1. IsFiniteSet(DOMAIN Copies) /\ IsFiniteSet(Entities(Reg))
    <3>1. Len(Copies) \in Nat
      BY <1>7
    <3>2. IsFiniteSet(1 .. Len(Copies))
      BY <3>1, FS_Interval
    <3> QED
      BY <1>1, <1>8, <3>2, RegistryFacts
  <2>2. PICK i \in DOMAIN Copies, s \in Places : Copies[i].slots[s] = m
    <3>1. put[m] # 0
      BY <1>15
    <3> QED
      BY <1>5, <2>1, <3>1, NothingPlaced
  <2>3. Copied[i] \in Entities(Reg) /\ Reg[Copied[i]].slots[s] = m
    BY <1>7, <2>2
  <2>4. PlacedIn(Reg, Entities(Reg))[m] >= 1
    BY <2>1, <2>3, PlacedCounts
  <2>5. Placed(Reg)[m] # 0 /\ Reg \in {registry.editor, registry.runtime}
    BY <1>1, <2>4, SceneFacts DEF Placed
  <2> QED
    BY <1>1, <2>5, PlacedIsBorn
<1>16. MaterialsHeld'
  BY <1>1, <1>6, <1>12, <1>13, <1>15, MaterialsReheld
<1>17. SessionKept'
  <2>1. Fits(selection')
    BY <1>1, <1>6, <1>7, SelectionsFit
  <2> QED
    BY <1>1, <1>6, <2>1, SessionStays
<1>18. MouseKept'
  BY <1>1, <1>6, MouseStays
<1> QED
  BY <1>12, <1>14, <1>16, <1>17, <1>18 DEF EditorInv

(* What is destroyed gives back what it had.                                *)
LEMMA GivenBackKeeps ==
  ASSUME EditorInv, NEW gone \in SUBSET Entities(Reg), GivenBack(gone), playing' = playing,
         pendingDeletions' = pendingDeletions, bodies' \subseteq bodies,
         \A e \in Entities(Reg) : e \notin gone /\ Reg[e].body => e \in bodies'
  PROVE  ScenesKept' /\ ModelsHeld' /\ MaterialsHeld'
<1>1. ScenesKept /\ ModelsHeld /\ MaterialsHeld /\ Reg \in Registries
  BY SceneFacts DEF EditorInv
<1>2. PICK r : r = Destroyed(Reg, gone)
  OBVIOUS
<1>3. PICK taken : taken = OwnedIn(Reg, gone)
  OBVIOUS
<1>4. PICK lost : lost = PlacedIn(Reg, gone)
  OBVIOUS
<1>5. /\ Becomes(r) /\ stored' = Exchanged(NoneOf(Models), taken)
      /\ materials' = Reheld(materials, NoneOf(Materials), lost)
  BY <1>2, <1>3, <1>4 DEF GivenBack, Put, Becomes
<1>6. /\ r \in Registries /\ Entities(r) = Entities(Reg) \ gone
      /\ \A e \in Entities(Reg) : e \notin gone => r[e] = Reg[e]
      /\ OwnedChanges(r, Reg, NoneOf(Models), OwnedIn(Reg, gone))
      /\ PlacedChanges(r, Reg, NoneOf(Materials), PlacedIn(Reg, gone))
  BY <1>1, <1>2, RegistryEmptied
<1>7. Descends(r, Reg)
  BY <1>6 DEF Descends
<1>8. Embodied(r, bodies') /\ (playing = 0 => bodies' = {})
  <2>1. Embodied(Reg, bodies) /\ (playing = 0 => bodies = {})
    BY <1>1, ShownIsEmbodied
  <2> QED
    BY <1>6, <2>1 DEF Embodied
<1>9. ScenesKept'
  BY <1>1, <1>5, <1>6, <1>7, <1>8, ShownKeeps
<1>10. /\ OwnedChanges(r, Reg, NoneOf(Models), taken)
       /\ PlacedChanges(r, Reg, NoneOf(Materials), lost)
  BY <1>3, <1>4, <1>6
<1>11. ModelsHeld'
  BY <1>1, <1>5, <1>10, ModelsExchanged
<1>12. ASSUME NEW m \in Materials, NoneOf(Materials)[m] > 0 PROVE materials[m].born
  BY <1>12 DEF NoneOf
<1>13. MaterialsHeld'
  BY <1>1, <1>5, <1>9, <1>10, <1>12, MaterialsReheld
<1> QED
  BY <1>9, <1>11, <1>13

LEMMA DeleteSelectedKeeps ==
  ASSUME EditorInv, DeleteSelected
  PROVE  EditorInv'
<1>1. ScenesKept /\ SessionKept /\ MouseKept /\ Reg \in Registries
  BY SceneFacts DEF EditorInv
<1>2. Range(Copied) \subseteq Entities(Reg)
  BY <1>1, TargetsFacts, NoneFacts DEF SessionKept
<1>3. /\ GivenBack(Range(Copied)) /\ selection' = Cleared /\ renaming' \in {None, renaming}
      /\ UNCHANGED << pendingDeletions, playing, plays, mouse, typed, bodies, loads >>
  BY DEF DeleteSelected, Session, Physics
<1>4. \A e \in Entities(Reg) : Reg[e].body => e \in bodies'
  BY <1>1, <1>3, ShownIsEmbodied DEF Embodied
<1>5. ScenesKept' /\ ModelsHeld' /\ MaterialsHeld'
  <2>1. PICK gone : gone = Range(Copied)
    OBVIOUS
  <2> QED
    BY <1>2, <1>3, <1>4, <2>1, GivenBackKeeps
<1>6. SessionKept'
  <2>1. Fits(Cleared)
    BY <1>1, SelectionsFit
  <2> QED
    BY <1>1, <1>3, <2>1 DEF SessionKept, Fits, LoadsOf
<1>7. MouseKept'
  BY <1>1, <1>3, MouseStays
<1> QED
  BY <1>5, <1>6, <1>7 DEF EditorInv

LEMMA ExpireKeeps ==
  ASSUME EditorInv, NEW e \in Entities(Reg), Expire(e)
  PROVE  EditorInv'
<1>1. ScenesKept /\ SessionKept /\ MouseKept /\ Reg \in Registries
  BY SceneFacts DEF EditorInv
<1>2. PICK gone : gone = {e}
  OBVIOUS
<1>3. /\ GivenBack(gone) /\ bodies' = IF Reg[e].body THEN bodies \ {e} ELSE bodies
      /\ UNCHANGED << pendingDeletions, playing, plays, mouse, renaming, typed, loads, selection >>
  BY <1>2 DEF Expire, Session, Typing
<1>4. /\ bodies' \subseteq bodies
      /\ \A x \in Entities(Reg) : x \notin gone /\ Reg[x].body => x \in bodies'
  BY <1>1, <1>2, <1>3, ShownIsEmbodied DEF Embodied
<1>5. ScenesKept' /\ ModelsHeld' /\ MaterialsHeld'
  <2>1. gone \in SUBSET Entities(Reg)
    BY <1>2
  <2> QED
    BY <1>3, <1>4, <2>1, GivenBackKeeps
<1>6. SessionKept'
  BY <1>1, <1>3, SelectionsFit, SessionStays DEF Fits
<1>7. MouseKept'
  BY <1>1, <1>3, MouseStays
<1> QED
  BY <1>5, <1>6, <1>7 DEF EditorInv

-----------------------------------------------------------------------------
(* Steps that only write where an entity is, or what it is called.          *)

LEMMA RowEntitiesFacts ==
  ASSUME Reg \in Registries, None \notin Nat
  PROVE  /\ RowEntities \in Seq(Entities(Reg)) /\ Range(RowEntities) \subseteq Entities(Reg)
         /\ Entities(Reg) \subseteq Nat
<1>1. PICK n \in Nat : DOMAIN Reg = 1 .. n
  BY RegistryFacts
<1>2. Entities(Reg) \subseteq Nat
  BY <1>1 DEF Entities
<1>3. EntitiesOf(Rows(Reg, view)) \in Seq(Nat \cup {None})
  BY <1>1, RowsFacts
<1>4. PICK E : E = Entities(Reg)
  OBVIOUS
<1>5. RowEntities \in Seq(E \cap (Nat \cup {None}))
  <2>1. RowEntities = Among(EntitiesOf(Rows(Reg, view)), E)
    BY <1>4 DEF RowEntities
  <2> QED
    BY <1>3, <2>1, AmongFacts
<1>6. RowEntities \in Seq(E)
  <2>1. E \cap (Nat \cup {None}) \subseteq E
    OBVIOUS
  <2> QED
    BY <1>5, <2>1, MoreSequences
<1>7. Range(RowEntities) \subseteq E
  BY <1>6 DEF Range
<1> QED
  BY <1>2, <1>4, <1>6, <1>7

LEMMA ReparentKeeps ==
  ASSUME EditorInv, NEW e \in Range(RowEntities), NEW under \in Range(RowEntities) \cup {None},
         Reparent(e, under)
  PROVE  EditorInv'
<1>1. ScenesKept /\ SessionKept /\ MouseKept /\ Reg \in Registries
  BY SceneFacts DEF EditorInv
<1>2. None \notin Nat /\ None \notin EntityRecords /\ selection \in Selections
  BY <1>1, NoneFacts DEF SessionKept
<1>3. Range(RowEntities) \subseteq Entities(Reg) /\ Entities(Reg) \subseteq Nat
  BY <1>1, <1>2, RowEntitiesFacts
<1>4. Targets \in Seq(Entities(Reg))
  BY <1>1, <1>2, TargetsFacts
<1>5. PICK s : s = Dragged(e)
  OBVIOUS
<1>6. s \in Seq(Entities(Reg))
  <2>1. PICK one : one = << e >>
    OBVIOUS
  <2>2. one \in Seq(Entities(Reg))
    BY <1>3, <2>1
  <2> QED
    BY <1>4, <1>5, <2>1, <2>2 DEF Dragged
<1>7. PICK r : r = Moving!Run(under, Reg, s)
  OBVIOUS
<1>8. r \in Registries /\ Same(r, Reg)
  BY <1>1, <1>2, <1>3, <1>6, <1>7, MovedFacts
<1>9. Becomes(r)
  <2>1. Becomes(FoldLeft(LAMBDA reg, x : Moved(under, reg, x), Reg, s))
    BY <1>5, Zenon DEF Reparent, Put, Becomes
  <2>2. FoldLeft(LAMBDA reg, x : Moved(under, reg, x), Reg, s) = r
    BY <1>7, MovedIs, Zenon
  <2> QED
    BY <2>1, <2>2, Zenon
<1>10. /\ selection' = Chosen
       /\ UNCHANGED << stored, materials, pendingDeletions, playing, plays, mouse, renaming,
                       typed, bodies, loads >>
  BY Zenon DEF Reparent, Assets, Session, Typing, Physics
<1>11. ScenesKept' /\ ModelsHeld' /\ MaterialsHeld'
  BY <1>8, <1>9, <1>10, SameHoldings
<1>12. SessionKept'
  BY <1>1, <1>10, SelectionsFit, SessionStays
<1>13. MouseKept'
  BY <1>1, <1>10, MouseStays
<1> QED
  BY <1>11, <1>12, <1>13 DEF EditorInv

-----------------------------------------------------------------------------
(* Steps of the panels that leave the scenes alone.                         *)

(* What names an entity, if it does, names one of the scene that is shown.  *)
Names(x) == x # None => x.of = playing

LEMMA PanelKeeps ==
  ASSUME EditorInv,
         UNCHANGED << registry, stored, materials, pendingDeletions, bodies, loads, playing,
                      plays, mouse >>,
         Fits(selection'), Names(renaming'), Names(typed')
  PROVE  EditorInv'
<1>1. ScenesKept' /\ ModelsHeld' /\ MaterialsHeld'
  BY NothingHappens
<1>2. SessionKept'
  BY DEF EditorInv, SessionKept, Fits, Names, LoadsOf
<1>3. MouseKept'
  BY MouseStays DEF EditorInv
<1> QED
  BY <1>1, <1>2, <1>3 DEF EditorInv

LEMMA SetOnFits ==
  ASSUME NEW s \in Selections, NEW e \in Nat, playing \in Nat
  PROVE  Fits([SetOn(s, e) EXCEPT !.of = playing])
<1>1. PICK ids : ids = IF e \in Range(s.ids) THEN s.ids ELSE Append(s.ids, e)
  OBVIOUS
<1>2. ids \in Seq(Nat)
  BY <1>1 DEF Selections
<1>3. PICK on : on = [SetOn(s, e) EXCEPT !.of = playing]
  OBVIOUS
<1>4. on = [[s EXCEPT !.ids = ids, !.primary = e] EXCEPT !.of = playing]
  BY <1>1, <1>3 DEF SetOn
<1>5. on \in Selections /\ on.of = playing
  BY <1>2, <1>4 DEF Selections
<1> QED
  BY <1>3, <1>5 DEF Fits

LEMMA SelectionRequestsKeep ==
  ASSUME EditorInv, SelectionRequests
  PROVE  EditorInv'
<1>1. SessionKept /\ ScenesKept /\ Reg \in Registries /\ selection \in Selections /\ playing \in Nat
  BY SceneFacts DEF EditorInv, SessionKept
<1>2. /\ RowEntities \in Seq(Entities(Reg)) /\ Range(RowEntities) \subseteq Entities(Reg)
      /\ Entities(Reg) \subseteq Nat
  BY <1>1, RowEntitiesFacts, NoneFacts
<1>3. /\ Fits(Chosen) /\ Fits(Cleared) /\ \A s \in Seq(Nat) : Fits(Assigned(s))
      /\ Chosen \in Selections
  BY <1>1, SelectionsFit DEF Fits
<1>4. ASSUME NEW e \in Range(RowEntities)
      PROVE  /\ Fits(Assigned(<< e >>)) /\ Fits([SetOn(Chosen, e) EXCEPT !.of = playing])
             /\ Fits(SetOff(Chosen, e))
  <2>1. e \in Nat /\ << e >> \in Seq(Nat)
    BY <1>2
  <2>2. SetOff(Chosen, e) \in Selections /\ SetOff(Chosen, e).of = Chosen.of
    BY <1>3, SetOffFacts
  <2>3. SetOff(Chosen, e).ids # << >> => Chosen.ids # << >>
    BY <1>3, SetOffFacts
  <2> QED
    BY <1>1, <1>3, <2>1, <2>2, <2>3, SetOnFits DEF Fits
<1>5. ASSUME NEW i \in DOMAIN RowEntities, NEW j \in DOMAIN RowEntities
      PROVE  Fits(Assigned(SubSeq(RowEntities, i, j)))
  <2>1. PICK s : s = RowEntities
    OBVIOUS
  <2>2. s \in Seq(Nat) /\ i \in 1 .. Len(s) /\ j \in 1 .. Len(s)
    BY <1>2, <2>1, MoreSequences
  <2>3. SubSeq(s, i, j) \in Seq(Nat)
    BY <2>2
  <2> QED
    BY <1>3, <2>1, <2>3
<1>6. Fits(Assigned(InOrder(Reg, SelfMatch(Reg, view.filter))))
  <2>1. PICK n \in Nat : DOMAIN Reg = 1 .. n
    BY <1>1, RegistryFacts
  <2>2. PICK S : S = SelfMatch(Reg, view.filter)
    OBVIOUS
  <2>3. InOrder(Reg, S) \in Seq(S \cap DOMAIN Reg)
    BY <2>1, InOrderFacts
  <2>4. S \cap DOMAIN Reg \subseteq Nat
    BY <2>1
  <2>5. InOrder(Reg, S) \in Seq(Nat)
    BY <2>3, <2>4, MoreSequences
  <2> QED
    BY <1>3, <2>2, <2>5
<1>7. Fits(selection')
  <2>1. CASE \E e \in Range(RowEntities) :
               selection' \in { Assigned(<< e >>),
                                IF e \in Range(Chosen.ids) THEN SetOff(Chosen, e)
                                  ELSE [ SetOn(Chosen, e) EXCEPT !.of = playing ] }
    BY <1>4, <2>1
  <2>2. CASE \E i, j \in DOMAIN RowEntities :
               i < j /\ selection' = Assigned(SubSeq(RowEntities, i, j))
    BY <1>5, <2>2
  <2>3. CASE selection' \in { Cleared, Assigned(InOrder(Reg, SelfMatch(Reg, view.filter))) }
    BY <1>3, <1>6, <2>3
  <2> QED
    BY <2>1, <2>2, <2>3 DEF SelectionRequests
<1>8. UNCHANGED << registry, stored, materials, pendingDeletions, bodies, loads, playing,
                   plays, mouse, renaming, typed >>
  BY DEF SelectionRequests, Assets, Session, Typing, Physics
<1>9. Names(renaming') /\ Names(typed')
  BY <1>1, <1>8 DEF SessionKept, Names
<1> QED
  BY <1>7, <1>8, <1>9, PanelKeeps

LEMMA LookingKeeps ==
  ASSUME EditorInv,
         LookAround \/ TypeName \/ OpenBrowser \/ \E e \in Range(RowEntities) : BeginRename(e)
  PROVE  EditorInv'
<1>1. SessionKept
  BY DEF EditorInv
<1>2. /\ Fits(selection) /\ Fits(Chosen)
      /\ Names(renaming) /\ Names(typed) /\ Names(None)
      /\ \A e : Names(At(e))
  BY <1>1, SelectionsFit DEF SessionKept, Names, At
<1>3. /\ UNCHANGED << registry, stored, materials, pendingDeletions, bodies, loads, playing,
                      plays, mouse >>
      /\ selection' \in {selection, Chosen}
      /\ renaming' = renaming \/ \E e : renaming' = At(e)
      /\ typed' = typed \/ \E e : typed' = At(e)
  <2>1. CASE LookAround
    BY <2>1 DEF LookAround, Assets, Session, Typing, Physics
  <2>2. CASE TypeName
    BY <2>2 DEF TypeName, Assets, Session, Physics
  <2>3. CASE OpenBrowser
    BY <2>3 DEF OpenBrowser, Assets, Session, Typing, Physics
  <2>4. CASE \E e \in Range(RowEntities) : BeginRename(e)
    BY <2>4 DEF BeginRename, Assets, Session, Physics
  <2> QED
    BY <2>1, <2>2, <2>3, <2>4
<1>4. Fits(selection') /\ Names(renaming') /\ Names(typed')
  <2>1. Fits(selection')
    BY <1>1, <1>2, <1>3
  <2>2. playing' = playing /\ (\A e : At(e).of = playing)
    BY <1>3 DEF At
  <2> QED
    BY <1>2, <1>3, <2>1, <2>2 DEF Names
<1> QED
  BY <1>3, <1>4, PanelKeeps

LEMMA MouseKeeps ==
  ASSUME EditorInv,
         \/ PressMouse \/ ReleaseMouse \/ SetFullscreen
         \/ /\ Escape /\ mouse.game
  PROVE  EditorInv'
<1>1. SessionKept /\ MouseKept
  BY DEF EditorInv
<1>2. /\ UNCHANGED << registry, stored, materials, pendingDeletions, bodies, loads, playing,
                      plays, renaming, typed, selection >>
  BY DEF PressMouse, ReleaseMouse, SetFullscreen, Escape, MouseOnly, Assets, Typing, Physics
<1>3. ScenesKept' /\ ModelsHeld' /\ MaterialsHeld'
  BY <1>2, NothingHappens
<1>4. SessionKept'
  BY <1>1, <1>2, SelectionsFit, SessionStays DEF Fits
<1>5. MouseKept'
  <2>1. CASE PressMouse
    <3>1. PICK right \in BOOLEAN, hovered \in BOOLEAN :
            LET turns == playing = 0 /\ right
                takes == playing # 0 /\ ~mouse.fullscreen /\ hovered /\ ~mouse.game
            IN  mouse' = [ mouse EXCEPT !.captured = @ \/ turns \/ takes,
                                        !.game = @ \/ takes, !.dragging = @ \/ right ]
      BY <2>1 DEF PressMouse
    <3>2. PICK turns \in BOOLEAN : turns <=> playing = 0 /\ right
      OBVIOUS
    <3>3. PICK takes \in BOOLEAN :
            takes <=> playing # 0 /\ ~mouse.fullscreen /\ hovered /\ ~mouse.game
      OBVIOUS
    <3>4. /\ mouse' \in [captured: BOOLEAN, game: BOOLEAN, dragging: BOOLEAN,
                         fullscreen: BOOLEAN, keyboardOff: BOOLEAN]
          /\ mouse'.captured <=> mouse.captured \/ turns \/ takes
          /\ mouse'.game <=> mouse.game \/ takes
          /\ mouse'.dragging <=> mouse.dragging \/ right
          /\ mouse'.fullscreen = mouse.fullscreen /\ mouse'.keyboardOff = mouse.keyboardOff
      BY <1>1, <3>1, <3>2, <3>3, Zenon DEF MouseKept
    <3> QED
      BY <1>1, <1>2, <3>2, <3>3, <3>4 DEF MouseKept
  <2>2. CASE ReleaseMouse
    <3>1. /\ mouse' = [ mouse EXCEPT !.dragging = FALSE, !.captured = @ /\ playing # 0 ]
          /\ mouse.dragging
      BY <2>2 DEF ReleaseMouse
    <3> QED
      BY <1>1, <1>2, <3>1 DEF MouseKept
  <2>3. CASE SetFullscreen
    BY <1>1, <1>2, <2>3 DEF MouseKept, SetFullscreen, Edit, AtPanels
  <2>4. CASE Escape /\ mouse.game
    BY <1>1, <1>2, <2>4 DEF MouseKept, Escape
  <2> QED
    BY <2>1, <2>2, <2>3, <2>4
<1> QED
  BY <1>3, <1>4, <1>5 DEF EditorInv

LEMMA ModelArrivesKeeps ==
  ASSUME EditorInv, ModelArrives
  PROVE  EditorInv'
<1>1. ScenesKept /\ ModelsHeld /\ SessionKept /\ MouseKept
  BY DEF EditorInv
<1>2. UNCHANGED << registry, materials, pendingDeletions, bodies, loads, playing,
                   plays, renaming, typed, selection, mouse >>
  BY DEF ModelArrives, Session, Typing, Physics
<1>3. PICK s \in {"loaded", "failed"} : stored' = [stored EXCEPT !["file"].state = s]
  BY DEF ModelArrives
<1>4. /\ stored' \in [Models -> [refs: Int, state: ModelStates]]
      /\ \A m \in Models : stored'[m].refs = stored[m].refs
  BY <1>1, <1>3 DEF ModelsHeld, ModelStates, Models
<1>5. ModelsHeld'
  BY <1>1, <1>2, <1>4 DEF ModelsHeld
<1>6. ScenesKept' /\ MaterialsHeld'
  BY <1>2 DEF EditorInv, ScenesKept, ModelsKept, BodiesKept, MaterialsHeld
<1>7. SessionKept'
  BY <1>1, <1>2, SelectionsFit, SessionStays DEF Fits
<1>8. MouseKept'
  BY <1>1, <1>2, MouseStays
<1> QED
  BY <1>5, <1>6, <1>7, <1>8 DEF EditorInv

-----------------------------------------------------------------------------
(* One entity is written again.                                             *)

(* e is written again, as x; and it can be, since x has what it stands for. *)
Puts(e, x) == Becomes([Reg EXCEPT ![e] = x])
Bears(e, x) ==
  /\ Backed(x) \/ (x.model = Reg[e].model /\ x.owned = Reg[e].owned)
  /\ bodies' \subseteq bodies /\ (x.body => Reg[e].body /\ e \in bodies')
  /\ \A o \in Entities(Reg) : o # e /\ Reg[o].body => o \in bodies'
Tag(x, m) == IF x.owned /\ x.model = m THEN 1 ELSE 0

LEMMA RewriteKeeps ==
  ASSUME ScenesKept, NEW e \in Entities(Reg), NEW x \in EntityRecords, Puts(e, x), Bears(e, x),
         playing' = playing
  PROVE  ScenesKept' /\ \E r : Becomes(r) /\ Rewritten(r, Reg, e, x)
<1>1. Reg \in Registries /\ None \notin EntityRecords
  BY SceneFacts, NoneFacts
<1>2. PICK r : r = [Reg EXCEPT ![e] = x]
  OBVIOUS
<1>3. Becomes(r)
  BY <1>2 DEF Puts
<1>4. Rewritten(r, Reg, e, x)
  BY <1>1, <1>2, RegistryReplaced
<1>5. /\ r \in Registries /\ Entities(r) = Entities(Reg) /\ r[e] = x
      /\ \A o \in Entities(Reg) : o # e => r[o] = Reg[o]
  BY <1>4 DEF Rewritten
<1>6. Descends(r, Reg)
  BY <1>5 DEF Descends, Bears
<1>7. Embodied(r, bodies') /\ (playing = 0 => bodies' = {})
  <2>1. Embodied(Reg, bodies) /\ (playing = 0 => bodies = {})
    BY ShownIsEmbodied
  <2> QED
    BY <1>5, <2>1 DEF Embodied, Bears
<1>8. ScenesKept'
  BY <1>3, <1>5, <1>6, <1>7, ShownKeeps
<1> QED
  BY <1>3, <1>4, <1>8

LEMMA RewrittenModels ==
  ASSUME ScenesKept, ModelsHeld, NEW e \in Entities(Reg), NEW x, NEW r, Becomes(r),
         Rewritten(r, Reg, e, x), stored' \in [Models -> [refs: Int, state: ModelStates]],
         \A m \in Models : stored'[m].refs = stored[m].refs + Tag(x, m) - Tag(Reg[e], m)
  PROVE  ModelsHeld'
<1>1. PICK E : E = {e}
  OBVIOUS
<1>2. PICK given : given = OwnedIn(r, E)
  OBVIOUS
<1>3. PICK taken : taken = OwnedIn(Reg, E)
  OBVIOUS
<1>4. OwnedChanges(r, Reg, given, taken) /\ r[e] = x
  BY <1>1, <1>2, <1>3, Zenon DEF Rewritten
<1>5. \A m \in Models : given[m] = Tag(x, m) /\ taken[m] = Tag(Reg[e], m)
  BY <1>1, <1>2, <1>3, <1>4, OneOwns DEF Tag
<1>6. \A m \in Models : stored'[m].refs = stored[m].refs + given[m] - taken[m]
  BY <1>5
<1> QED
  BY <1>4, <1>6, ModelsStayHeld

LEMMA PlacedAlike ==
  ASSUME NEW r, NEW s, NEW A, \A e \in A : r[e].slots = s[e].slots
  PROVE  PlacedIn(r, A) = PlacedIn(s, A)
<1>1. \A m : { p \in A \X Places : r[p[1]].slots[p[2]] = m }
               = { p \in A \X Places : s[p[1]].slots[p[2]] = m }
  OBVIOUS
<1> QED
  BY <1>1, Zenon DEF PlacedIn

LEMMA RewrittenMaterials ==
  ASSUME ScenesKept, MaterialsHeld, NEW e \in Entities(Reg), NEW x, NEW r, Becomes(r),
         Rewritten(r, Reg, e, x), x.slots = Reg[e].slots,
         materials' = materials, pendingDeletions' = pendingDeletions
  PROVE  MaterialsHeld'
<1>1. PICK E : E = {e}
  OBVIOUS
<1>2. PICK held : held = PlacedIn(Reg, E)
  OBVIOUS
<1>3. PlacedChanges(r, Reg, PlacedIn(r, E), PlacedIn(Reg, E)) /\ r[e] = x
  BY <1>1, Zenon DEF Rewritten
<1>4. PlacedIn(r, E) = held
  BY <1>1, <1>2, <1>3, PlacedAlike
<1>5. PlacedChanges(r, Reg, held, held)
  BY <1>2, <1>3, <1>4
<1>6. \A m \in Materials : Placed(Reg)[m] \in Nat
  BY SceneFacts, RegistryFacts
<1>7. PlacedChanges(r, Reg, NoneOf(Materials), NoneOf(Materials))
  BY <1>5, <1>6 DEF PlacedChanges, NoneOf
<1> QED
  BY <1>7, MaterialsUntouched

(* An inspected entity is.                                                  *)
LEMMA InspectFacts ==
  ASSUME EditorInv, NEW x, Inspect(x)
  PROVE  /\ Puts(Primary, x) /\ SessionKept' /\ MouseKept'
         /\ UNCHANGED << pendingDeletions, playing >>
<1>1. /\ SessionKept /\ MouseKept
  BY DEF EditorInv
<1>2. /\ Puts(Primary, x)
      /\ UNCHANGED << pendingDeletions, playing, plays, mouse, renaming, typed, loads, selection >>
  BY Zenon DEF Inspect, Put, Puts, Becomes, Session, Typing
<1>3. SessionKept'
  BY <1>1, <1>2, SelectionsFit, SessionStays DEF Fits
<1>4. MouseKept'
  BY <1>1, <1>2, MouseStays
<1> QED
  BY <1>2, <1>3, <1>4

(* What it holds stays, or its model goes, or comes.                        *)
LEMMA InspectKeeps ==
  ASSUME EditorInv, Primary \in Entities(Reg), NEW x \in EntityRecords, Inspect(x),
         Bears(Primary, x), x.slots = Reg[Primary].slots, materials' = materials,
         stored' \in [Models -> [refs: Int, state: ModelStates]],
         \A m \in Models : stored'[m].refs = stored[m].refs + Tag(x, m) - Tag(Reg[Primary], m)
  PROVE  EditorInv'
<1>1. ScenesKept /\ ModelsHeld /\ MaterialsHeld
  BY DEF EditorInv
<1>2. /\ Puts(Primary, x) /\ SessionKept' /\ MouseKept'
      /\ UNCHANGED << pendingDeletions, playing >>
  BY InspectFacts
<1>3. PICK e : e = Primary
  OBVIOUS
<1>4. /\ e \in Entities(Reg) /\ Puts(e, x) /\ Bears(e, x) /\ x.slots = Reg[e].slots
      /\ \A m \in Models : stored'[m].refs = stored[m].refs + Tag(x, m) - Tag(Reg[e], m)
  BY <1>2, <1>3
<1>5. ScenesKept' /\ \E r : Becomes(r) /\ Rewritten(r, Reg, e, x)
  BY <1>1, <1>2, <1>4, RewriteKeeps
<1>6. PICK r : Becomes(r) /\ Rewritten(r, Reg, e, x)
  BY <1>5
<1>7. ModelsHeld'
  BY <1>1, <1>4, <1>6, RewrittenModels
<1>8. MaterialsHeld'
  BY <1>1, <1>2, <1>4, <1>6, RewrittenMaterials
<1> QED
  BY <1>2, <1>5, <1>7, <1>8 DEF EditorInv

(* Nothing of it is held otherwise.                                         *)
LEMMA InspectPlainly ==
  ASSUME EditorInv, Primary \in Entities(Reg), NEW x \in EntityRecords, Inspect(x),
         Bears(Primary, x), x.slots = Reg[Primary].slots, x.model = Reg[Primary].model,
         x.owned = Reg[Primary].owned, materials' = materials, stored' = stored
  PROVE  EditorInv'
<1>1. stored' \in [Models -> [refs: Int, state: ModelStates]]
  BY DEF EditorInv, ModelsHeld
<1>2. \A m \in Models : stored'[m].refs = stored[m].refs + Tag(x, m) - Tag(Reg[Primary], m)
  <2>1. ASSUME NEW m \in Models
        PROVE  stored[m].refs \in Int /\ Tag(x, m) \in Int /\ Tag(x, m) = Tag(Reg[Primary], m)
    BY DEF EditorInv, ModelsHeld, Tag
  <2> QED
    BY <2>1
<1> QED
  BY <1>1, <1>2, InspectKeeps

-----------------------------------------------------------------------------
(* The Inspector's sections.                                                *)

LEMMA BearsStill ==
  ASSUME ScenesKept, NEW e \in Entities(Reg), NEW x, bodies' = bodies, x.body => Reg[e].body,
         Backed(x) \/ (x.model = Reg[e].model /\ x.owned = Reg[e].owned)
  PROVE  Bears(e, x)
BY ShownIsEmbodied DEF Bears, Embodied

(* A header closed or a component added that holds nothing.                 *)
PlainSection(e, x) ==
  \/ x = [ e EXCEPT !.transform = FALSE ] \/ x = [ e EXCEPT !.bullet = FALSE ]
  \/ x = [ e EXCEPT !.lifetime = FALSE ] \/ x = [ e EXCEPT !.transform = TRUE ]
  \/ x = [ e EXCEPT !.rigid = TRUE ] \/ x = [ e EXCEPT !.lifetime = TRUE ]

LEMMA PlainSectionKeeps ==
  ASSUME EditorInv, AtInspector, NEW x, PlainSection(Reg[Primary], x), Inspect(x),
         UNCHANGED << stored, materials, bodies >>
  PROVE  EditorInv'
<1>1. ScenesKept /\ Reg \in Registries /\ Primary \in Entities(Reg)
  BY SceneFacts DEF EditorInv, AtInspector
<1>2. PICK e : e = Reg[Primary]
  OBVIOUS
<1>3. e \in EntityRecords
  BY <1>1, <1>2, RegistryFacts
<1>4. /\ x \in EntityRecords /\ x.body = e.body /\ x.model = e.model /\ x.owned = e.owned
      /\ x.slots = e.slots
  BY <1>2, <1>3 DEF EntityRecords, PlainSection
<1>5. Bears(Primary, x)
  BY <1>1, <1>2, <1>4, BearsStill
<1> QED
  BY <1>1, <1>2, <1>4, <1>5, InspectPlainly

LEMMA CloseSectionKeeps ==
  ASSUME EditorInv, CloseSection
  PROVE  EditorInv'
<1>1. /\ ScenesKept /\ ModelsHeld /\ MaterialsHeld /\ Reg \in Registries
      /\ AtInspector /\ Primary \in Entities(Reg)
  BY SceneFacts DEF EditorInv, AtInspector, CloseSection
<1>2. PICK e : e = Reg[Primary]
  OBVIOUS
<1>3. e \in EntityRecords
  BY <1>1, <1>2, RegistryFacts
<1>4. Embodied(Reg, bodies)
  BY <1>1, ShownIsEmbodied
<1>5. CASE \E x : PlainSection(e, x) /\ Inspect(x) /\ UNCHANGED << stored, materials, bodies >>
  BY <1>1, <1>2, <1>5, PlainSectionKeeps
<1>6. CASE /\ Inspect([ e EXCEPT !.rigid = FALSE, !.body = FALSE ])
           /\ bodies' = IF e.body THEN bodies \ {Primary} ELSE bodies
           /\ UNCHANGED << stored, materials >>
  <2>1. PICK x : x = [ e EXCEPT !.rigid = FALSE, !.body = FALSE ]
    OBVIOUS
  <2>2. /\ x \in EntityRecords /\ x.body = FALSE /\ x.model = e.model /\ x.owned = e.owned
        /\ x.slots = e.slots
    BY <1>3, <2>1 DEF EntityRecords
  <2>3. Inspect(x) /\ UNCHANGED << stored, materials >>
    BY <1>6, <2>1
  <2>4. Bears(Primary, x)
    BY <1>2, <1>4, <1>6, <2>2 DEF Bears, Embodied
  <2> QED
    BY <1>1, <1>2, <2>2, <2>3, <2>4, InspectPlainly
<1>7. CASE /\ Inspect([ e EXCEPT !.model = None, !.owned = FALSE ])
           /\ stored' = Exchanged(NoneOf(Models), OwnedIn(Reg, {Primary}))
           /\ UNCHANGED << materials, bodies >>
  <2>1. PICK x : x = [ e EXCEPT !.model = None, !.owned = FALSE ]
    OBVIOUS
  <2>2. /\ x \in EntityRecords /\ x.body = e.body /\ x.model = None /\ x.owned = FALSE
        /\ x.slots = e.slots
    BY <1>3, <2>1 DEF EntityRecords
  <2>3. Inspect(x) /\ UNCHANGED << materials, bodies >>
    BY <1>7, <2>1
  <2>4. Bears(Primary, x)
    BY <1>1, <1>2, <2>2, <2>3, BearsStill DEF Backed
  <2>5. PICK E : E = {Primary}
    OBVIOUS
  <2>6. PICK taken : taken = OwnedIn(Reg, E)
    OBVIOUS
  <2>7. \A m \in Models : taken[m] = Tag(e, m)
    BY <1>2, <2>5, <2>6, OneOwns DEF Tag
  <2>8. stored' = Exchanged(NoneOf(Models), taken)
    BY <1>7, <2>5, <2>6
  <2>9. Counts(Models, taken) /\ Counts(Models, NoneOf(Models))
    BY <2>7 DEF Counts, Tag, NoneOf
  <2>10. /\ stored' \in [Models -> [refs: Int, state: ModelStates]]
         /\ \A m \in Models : stored'[m].refs = stored[m].refs + NoneOf(Models)[m] - taken[m]
    BY <1>1, <2>8, <2>9, ExchangedFacts
  <2>11. \A m \in Models : stored'[m].refs = stored[m].refs + Tag(x, m) - Tag(Reg[Primary], m)
    <3>1. \A m \in Models : NoneOf(Models)[m] = Tag(x, m)
      BY <2>2 DEF NoneOf, Tag
    <3> QED
      BY <1>2, <2>7, <2>10, <3>1
  <2> QED
    BY <1>1, <1>2, <2>2, <2>3, <2>4, <2>10, <2>11, InspectKeeps
<1>8. CASE /\ Inspect([ e EXCEPT !.slots = [ s \in Places |-> None ] ])
           /\ materials' = Reheld(materials, NoneOf(Materials), PlacedIn(Reg, {Primary}))
           /\ UNCHANGED << stored, bodies >>
  <2>1. PICK x : x = [ e EXCEPT !.slots = [ s \in Places |-> None ] ]
    OBVIOUS
  <2>2. PICK empty : empty = [ s \in Places |-> None ]
    OBVIOUS
  <2>3. empty \in [ Places -> Materials \cup {None} ] /\ \A s \in Places : empty[s] = None
    BY <2>2
  <2>4. /\ x \in EntityRecords /\ x.body = e.body /\ x.model = e.model /\ x.owned = e.owned
        /\ x.slots = empty
    BY <1>3, <2>1, <2>2, <2>3 DEF EntityRecords
  <2>5. Inspect(x) /\ UNCHANGED << stored, bodies >>
    BY <1>8, <2>1
  <2>6. Bears(Primary, x)
    BY <1>1, <1>2, <2>4, <2>5, BearsStill
  <2>7. /\ Puts(Primary, x) /\ SessionKept' /\ MouseKept'
        /\ UNCHANGED << pendingDeletions, playing >>
    BY <2>5, InspectFacts
  <2>8. PICK p : p = Primary
    OBVIOUS
  <2>9. p \in Entities(Reg) /\ Puts(p, x) /\ Bears(p, x) /\ e = Reg[p]
    BY <1>1, <1>2, <2>6, <2>7, <2>8
  <2>10. ScenesKept' /\ \E r : Becomes(r) /\ Rewritten(r, Reg, p, x)
    BY <1>1, <2>4, <2>7, <2>9, RewriteKeeps
  <2>11. PICK r : Becomes(r) /\ Rewritten(r, Reg, p, x)
    BY <2>10
  <2>12. ModelsHeld'
    <3>1. stored' \in [Models -> [refs: Int, state: ModelStates]]
      BY <1>1, <2>5 DEF ModelsHeld
    <3>2. ASSUME NEW m \in Models
          PROVE  stored'[m].refs = stored[m].refs + Tag(x, m) - Tag(Reg[p], m)
      <4>1. stored[m].refs \in Int /\ Tag(x, m) \in Int /\ Tag(x, m) = Tag(Reg[p], m)
        BY <1>1, <2>4, <2>9 DEF ModelsHeld, Tag
      <4> QED
        BY <2>5, <4>1
    <3> QED
      BY <1>1, <2>9, <2>11, <3>1, <3>2, RewrittenModels
  <2>13. MaterialsHeld'
    <3>1. PICK E : E = {p}
      OBVIOUS
    <3>2. PICK taken : taken = PlacedIn(Reg, E)
      OBVIOUS
    <3>3. PlacedChanges(r, Reg, PlacedIn(r, E), taken) /\ r[p] = x
      BY <2>11, <3>1, <3>2, Zenon DEF Rewritten
    <3>4. ASSUME NEW m \in Materials PROVE PlacedIn(r, E)[m] = 0
      <4>1. m # None
        BY EditorAssumption DEF Materials
      <4>2. \A o \in E : \A s \in Places : r[o].slots[s] # m
        BY <2>3, <2>4, <3>1, <3>3, <4>1
      <4>3. IsFiniteSet(E)
        BY <3>1, FS_Singleton
      <4> QED
        BY <4>2, <4>3, NothingPlaced
    <3>5. PlacedChanges(r, Reg, NoneOf(Materials), taken)
      BY <3>3, <3>4 DEF PlacedChanges, NoneOf
    <3>6. materials' = Reheld(materials, NoneOf(Materials), taken)
      BY <1>8, <2>8, <3>1, <3>2
    <3>7. ASSUME NEW m \in Materials, NoneOf(Materials)[m] > 0 PROVE materials[m].born
      BY <3>7 DEF NoneOf
    <3> QED
      BY <1>1, <2>7, <2>10, <2>11, <3>5, <3>6, <3>7, MaterialsReheld
  <2> QED
    BY <2>7, <2>10, <2>12, <2>13 DEF EditorInv
<1> QED
  BY <1>2, <1>5, <1>6, <1>7, <1>8 DEF CloseSection, PlainSection

LEMMA AddComponentKeeps ==
  ASSUME EditorInv, AddComponent
  PROVE  EditorInv'
<1>1. /\ ScenesKept /\ ModelsHeld /\ Reg \in Registries
      /\ AtInspector /\ Primary \in Entities(Reg)
  BY SceneFacts DEF EditorInv, AtInspector, AddComponent
<1>2. PICK e : e = Reg[Primary]
  OBVIOUS
<1>3. e \in EntityRecords
  BY <1>1, <1>2, RegistryFacts
<1>4. CASE \E x : PlainSection(e, x) /\ Inspect(x) /\ UNCHANGED << stored, materials, bodies >>
  BY <1>1, <1>2, <1>4, PlainSectionKeeps
<1>5. CASE \E m \in Models :
             /\ e.transform /\ e.model = None /\ stored[m].refs > 0
             /\ Inspect([ e EXCEPT !.model = m, !.owned = TRUE ])
             /\ stored' = Exchanged(One(Models, m), NoneOf(Models))
             /\ UNCHANGED << materials, bodies >>
  <2>1. PICK m \in Models :
             /\ e.model = None
             /\ Inspect([ e EXCEPT !.model = m, !.owned = TRUE ])
             /\ stored' = Exchanged(One(Models, m), NoneOf(Models))
             /\ UNCHANGED << materials, bodies >>
    BY <1>5
  <2>2. PICK x : x = [ e EXCEPT !.model = m, !.owned = TRUE ]
    OBVIOUS
  <2>3. /\ x \in EntityRecords /\ x.body = e.body /\ x.model = m /\ x.owned = TRUE
        /\ x.slots = e.slots
    BY <1>3, <2>2 DEF EntityRecords
  <2>4. Inspect(x)
    BY <2>1, <2>2
  <2>5. Bears(Primary, x)
    BY <1>1, <1>2, <2>1, <2>3, BearsStill DEF Backed
  <2>6. /\ Counts(Models, One(Models, m)) /\ Counts(Models, NoneOf(Models))
        /\ \A y \in Models : NoneOf(Models)[y] = 0 /\ One(Models, m)[y] = IF y = m THEN 1 ELSE 0
    BY OneFacts
  <2>7. /\ stored' \in [Models -> [refs: Int, state: ModelStates]]
        /\ \A y \in Models : stored'[y].refs = stored[y].refs + One(Models, m)[y] - NoneOf(Models)[y]
    BY <1>1, <2>1, <2>6, ExchangedFacts
  <2>8. \A y \in Models : One(Models, m)[y] = Tag(x, y)
    BY <2>3, <2>6 DEF Tag
  <2>9. \A y \in Models : NoneOf(Models)[y] = Tag(Reg[Primary], y)
    BY <1>2, <2>1, <2>6, NoneFacts DEF Tag
  <2>10. \A y \in Models : stored'[y].refs = stored[y].refs + Tag(x, y) - Tag(Reg[Primary], y)
    BY <2>7, <2>8, <2>9
  <2> QED
    BY <1>1, <1>2, <2>1, <2>3, <2>4, <2>5, <2>7, <2>10, InspectKeeps
<1> QED
  BY <1>2, <1>4, <1>5 DEF AddComponent, PlainSection

LEMMA NamesKeep ==
  ASSUME EditorInv, EndRename \/ CommitName
  PROVE  EditorInv'
<1>1. ScenesKept /\ SessionKept /\ MouseKept /\ Reg \in Registries
  BY SceneFacts DEF EditorInv
<1>2. /\ UNCHANGED << stored, materials, pendingDeletions, playing, plays, mouse, bodies, loads,
                      selection >>
      /\ renaming' \in {None, renaming} /\ typed' \in {None, typed}
  BY DEF EndRename, CommitName, Assets, Session, Physics
<1>3. UNCHANGED registry \/ \E e : Becomes(Renamed(e))
  BY Zenon DEF EndRename, CommitName, Put, Becomes
<1>4. ScenesKept' /\ ModelsHeld' /\ MaterialsHeld'
  <2>1. CASE UNCHANGED registry
    BY <1>2, <2>1, NothingHappens
  <2>2. CASE \E e : Becomes(Renamed(e))
    <3>1. PICK e : Becomes(Renamed(e))
      BY <2>2
    <3>2. PICK r : r = Renamed(e)
      OBVIOUS
    <3>3. Becomes(r)
      BY <3>1, <3>2
    <3>4. r \in Registries /\ Same(r, Reg)
      <4>1. CASE e \notin Entities(Reg)
        BY <1>1, <3>2, <4>1 DEF Renamed, Same
      <4>2. CASE e \in Entities(Reg)
        <5>1. PICK old : old = Reg[e]
          OBVIOUS
        <5>2. PICK x : x = [old EXCEPT !.name = IF @ = "a" THEN "b" ELSE "a"]
          OBVIOUS
        <5>3. old \in EntityRecords
          BY <1>1, <4>2, <5>1, RegistryFacts
        <5>4. /\ x \in EntityRecords /\ x.owned = old.owned /\ x.model = old.model
              /\ x.slots = old.slots /\ x.body = old.body
          BY <5>2, <5>3 DEF EntityRecords
        <5>5. r = [Reg EXCEPT ![e] = x]
          BY <3>2, <4>2, <5>1, <5>2 DEF Renamed
        <5>6. Rewritten(r, Reg, e, x)
          BY <1>1, <4>2, <5>4, <5>5, RegistryReplaced, NoneFacts
        <5>7. /\ r \in Registries /\ Entities(r) = Entities(Reg) /\ r[e] = x
              /\ \A o \in Entities(Reg) : o # e => r[o] = Reg[o]
          BY <5>6, Zenon DEF Rewritten
        <5> QED
          BY <5>1, <5>4, <5>7 DEF Same
      <4> QED
        BY <4>1, <4>2
    <3> QED
      BY <1>2, <3>3, <3>4, SameHoldings
  <2> QED
    BY <1>3, <2>1, <2>2
<1>5. SessionKept'
  BY <1>1, <1>2 DEF SessionKept, LoadsOf
<1>6. MouseKept'
  BY <1>1, <1>2, MouseStays
<1> QED
  BY <1>4, <1>5, <1>6 DEF EditorInv

-----------------------------------------------------------------------------
(* A model chosen for an entity.                                            *)

LEMMA SetEntityModelKeeps ==
  ASSUME EditorInv, NEW e \in Entities(Reg), NEW m \in Models, NEW brought,
         brought[m].state \in ModelStates, SetEntityModel(e, m, brought),
         UNCHANGED << materials, pendingDeletions, bodies, playing >>
  PROVE  ScenesKept' /\ ModelsHeld' /\ MaterialsHeld'
<1>1. ScenesKept /\ ModelsHeld /\ MaterialsHeld /\ Reg \in Registries
  BY SceneFacts DEF EditorInv
<1>2. PICK old : old = Reg[e]
  OBVIOUS
<1>3. PICK x : x = [old EXCEPT !.model = m, !.owned = TRUE]
  OBVIOUS
<1>4. old \in EntityRecords
  BY <1>1, <1>2, RegistryFacts
<1>5. /\ x \in EntityRecords /\ x.body = old.body /\ x.model = m /\ x.owned = TRUE
      /\ x.slots = old.slots
  BY <1>3, <1>4 DEF EntityRecords
<1>6. Puts(e, x)
  <2>1. Becomes([Reg EXCEPT ![e].model = m, ![e].owned = TRUE])
    BY Zenon DEF SetEntityModel, Put, Becomes
  <2>2. [Reg EXCEPT ![e].model = m, ![e].owned = TRUE] = [Reg EXCEPT ![e] = x]
    <3>1. DOMAIN Reg = 1 .. Len(Reg) /\ e \in 1 .. Len(Reg)
      BY <1>1, RegistryFacts
    <3> QED
      BY <1>2, <1>3, <3>1
  <2> QED
    BY <2>1, <2>2, Zenon DEF Puts
<1>7. Bears(e, x)
  BY <1>1, <1>2, <1>5, BearsStill DEF Backed
<1>8. ScenesKept' /\ \E r : Becomes(r) /\ Rewritten(r, Reg, e, x)
  BY <1>1, <1>5, <1>6, <1>7, RewriteKeeps
<1>9. PICK r : Becomes(r) /\ Rewritten(r, Reg, e, x)
  BY <1>8
<1>10. MaterialsHeld'
  BY <1>1, <1>2, <1>5, <1>9, RewrittenMaterials
<1>11. PICK E : E = {e}
  OBVIOUS
<1>12. PICK taken : taken = OwnedIn(Reg, E)
  OBVIOUS
<1>13. PICK after : after = Exchanged(One(Models, m), taken)
  OBVIOUS
<1>14. stored' = [ y \in Models |-> IF y = m THEN [ after[y] EXCEPT !.state = brought[m].state ]
                                    ELSE after[y] ]
  BY <1>11, <1>12, <1>13 DEF SetEntityModel
<1>15. \A y \in Models : taken[y] = Tag(Reg[e], y)
  BY <1>11, <1>12, OneOwns DEF Tag
<1>16. \A y \in Models : One(Models, m)[y] = Tag(x, y)
  BY <1>5 DEF One, Tag
<1>17. Counts(Models, taken) /\ Counts(Models, One(Models, m))
  BY <1>15, <1>16 DEF Counts, Tag
<1>18. /\ after \in [Models -> [refs: Int, state: ModelStates]]
       /\ \A y \in Models : after[y].refs = stored[y].refs + One(Models, m)[y] - taken[y]
  BY <1>1, <1>13, <1>17, ExchangedFacts
<1>19. ASSUME NEW y \in Models
       PROVE  /\ stored'[y] \in [refs: Int, state: ModelStates]
              /\ stored'[y].refs = after[y].refs
  <2>1. after[y] \in [refs: Int, state: ModelStates]
    BY <1>18
  <2>2. stored'[y] = IF y = m THEN [ after[y] EXCEPT !.state = brought[m].state ] ELSE after[y]
    BY <1>14
  <2> QED
    BY <2>1, <2>2
<1>20. stored' \in [Models -> [refs: Int, state: ModelStates]]
  BY <1>14, <1>19
<1>21. \A y \in Models : stored'[y].refs = stored[y].refs + Tag(x, y) - Tag(Reg[e], y)
  BY <1>15, <1>16, <1>18, <1>19
<1>22. ModelsHeld'
  BY <1>1, <1>9, <1>20, <1>21, RewrittenModels
<1> QED
  BY <1>8, <1>10, <1>22

LEMMA ChooseModelKeeps ==
  ASSUME EditorInv, NEW m \in Models, ChooseModel(m)
  PROVE  EditorInv'
<1>1. ScenesKept /\ ModelsHeld /\ SessionKept /\ MouseKept
  BY DEF EditorInv
<1>2. /\ Primary \in Entities(Reg) /\ SetEntityModel(Primary, m, stored)
      /\ UNCHANGED << materials, pendingDeletions, bodies, playing, plays, mouse, renaming, typed,
                      loads, selection >>
  BY DEF ChooseModel, AtInspector, Session, Typing, Physics
<1>3. stored[m].state \in ModelStates
  BY <1>1 DEF ModelsHeld
<1>4. ScenesKept' /\ ModelsHeld' /\ MaterialsHeld'
  <2>1. PICK e : e = Primary
    OBVIOUS
  <2> QED
    BY <1>2, <1>3, <2>1, SetEntityModelKeeps
<1>5. SessionKept'
  BY <1>1, <1>2, SelectionsFit, SessionStays DEF Fits
<1>6. MouseKept'
  BY <1>1, <1>2, MouseStays
<1> QED
  BY <1>4, <1>5, <1>6 DEF EditorInv

-----------------------------------------------------------------------------
(* Materials.                                                               *)

LEMMA AssetKeeps ==
  ASSUME EditorInv, UNCHANGED << registry, stored, bodies, loads, playing, plays, mouse, renaming,
                                 typed, selection >>,
         StandFor(materials', PlacedInBoth),
         \A m \in pendingDeletions' : m \in Materials /\ materials'[m].named
  PROVE  EditorInv'
<1>1. SessionKept /\ MouseKept
  BY DEF EditorInv
<1>2. ScenesKept' /\ ModelsHeld'
  BY DEF EditorInv, ScenesKept, ModelsKept, BodiesKept, ModelsHeld
<1>3. PlacedInBoth' = PlacedInBoth
  BY DEF PlacedInBoth
<1>4. MaterialsHeld'
  BY <1>3 DEF MaterialsHeld, StandFor, PlacedInBoth, MaterialRecords
<1>5. SessionKept'
  BY <1>1, SelectionsFit, SessionStays DEF Fits
<1>6. MouseKept'
  BY <1>1, MouseStays
<1> QED
  BY <1>2, <1>4, <1>5, <1>6 DEF EditorInv

LEMMA AssetPanelKeeps ==
  ASSUME EditorInv, NewMaterial \/ \E m \in Materials : DeleteOrRestore(m) \/ CommitDeletion(m)
  PROVE  EditorInv'
<1>1. /\ StandFor(materials, PlacedInBoth) /\ Counts(Materials, PlacedInBoth)
      /\ \A m \in pendingDeletions : m \in Materials /\ materials[m].named
  BY MaterialsStand, PlacedInBothIs DEF EditorInv
<1>2. UNCHANGED << registry, stored, bodies, loads, playing, plays, mouse, renaming,
                   typed, selection >>
  BY DEF NewMaterial, DeleteOrRestore, CommitDeletion, Asset, Session, Typing, Physics
<1>3. CASE NewMaterial
  <2>1. PICK m \in Materials : /\ ~materials[m].born
                               /\ materials' = [ materials EXCEPT ![m] = Created(m, TRUE) ]
    BY <1>3 DEF NewMaterial, Fresh, Unborn
  <2>2. PICK new : new = Created(m, TRUE)
    OBVIOUS
  <2>3. new \in MaterialRecords /\ new.born = TRUE /\ new.refs = 1 /\ new.named = TRUE
    BY <2>2 DEF Created, MaterialRecords
  <2>4. PlacedInBoth[m] = 0 /\ ~materials[m].named
    <3>1. materials[m].refs = 0 /\ PlacedInBoth[m] \in Nat /\ materials[m].named \in BOOLEAN
      BY <1>1, <2>1 DEF StandFor, Counts, MaterialRecords
    <3>2. materials[m].refs = PlacedInBoth[m] + (IF materials[m].named THEN 1 ELSE 0)
      BY <1>1 DEF StandFor
    <3> QED
      BY <3>1, <3>2
  <2>5. materials' = [ materials EXCEPT ![m] = new ]
    BY <2>1, <2>2
  <2>6. StandFor(materials', PlacedInBoth)
    BY <1>1, <2>3, <2>4, <2>5 DEF StandFor
  <2>7. pendingDeletions' = pendingDeletions
    BY <1>3 DEF NewMaterial
  <2>8. \A x \in pendingDeletions' : x \in Materials /\ materials'[x].named
    BY <1>1, <2>3, <2>5, <2>7 DEF StandFor
  <2> QED
    BY <1>2, <2>6, <2>8, AssetKeeps
<1>4. CASE \E m \in Materials : DeleteOrRestore(m)
  <2>1. PICK m \in Materials : /\ materials[m].named \/ m \in pendingDeletions
                               /\ materials' = materials
                               /\ pendingDeletions' = Toggled(pendingDeletions, m)
    BY <1>4 DEF DeleteOrRestore
  <2>2. \A x \in pendingDeletions' : x \in Materials /\ materials'[x].named
    BY <1>1, <2>1 DEF Toggled
  <2> QED
    BY <1>1, <1>2, <2>1, <2>2, AssetKeeps
<1>5. CASE \E m \in Materials : CommitDeletion(m)
  <2>1. PICK m \in Materials :
          /\ m \in pendingDeletions /\ pendingDeletions' = pendingDeletions \ {m}
          /\ materials' = IF materials[m].refs = 0 THEN materials
                          ELSE Reheld([ materials EXCEPT ![m].named = FALSE ],
                                      NoneOf(Materials), One(Materials, m))
    BY <1>5 DEF CommitDeletion
  <2>2. \A x \in Materials :
          /\ materials[x].refs = PlacedInBoth[x] + (IF materials[x].named THEN 1 ELSE 0)
          /\ ~materials[x].born => materials[x].refs = 0
          /\ materials[x] \in MaterialRecords /\ PlacedInBoth[x] \in Nat
    BY <1>1 DEF StandFor, Counts
  <2>3. materials[m].refs = PlacedInBoth[m] + 1 /\ materials[m].born /\ materials[m].named
    BY <1>1, <2>1, <2>2 DEF MaterialRecords
  <2>4. PICK held : held = [ materials EXCEPT ![m].named = FALSE ]
    OBVIOUS
  <2>5. PICK taken : taken = One(Materials, m)
    OBVIOUS
  <2>6. materials' = Reheld(held, NoneOf(Materials), taken)
    BY <2>1, <2>2, <2>3, <2>4, <2>5 DEF MaterialRecords
  <2>7. ASSUME NEW x \in Materials
        PROVE  /\ held[x] \in MaterialRecords /\ held[x].born = materials[x].born
               /\ held[x].refs = materials[x].refs
               /\ held[x].named = IF x = m THEN FALSE ELSE materials[x].named
               /\ NoneOf(Materials)[x] = 0 /\ taken[x] = IF x = m THEN 1 ELSE 0
    <3>1. held[x] = IF x = m THEN [materials[x] EXCEPT !.named = FALSE] ELSE materials[x]
      BY <1>1, <2>4 DEF StandFor
    <3>2. materials[x] \in MaterialRecords
      BY <2>2
    <3> QED
      BY <2>5, <3>1, <3>2 DEF MaterialRecords, NoneOf, One
  <2>8. Balances(held, NoneOf(Materials), taken, PlacedInBoth)
    <3>1. held \in [Materials -> MaterialRecords]
      <4>1. held = [x \in Materials |-> held[x]]
        BY <1>1, <2>4 DEF StandFor
      <4> QED
        BY <2>7, <4>1
    <3>2. ASSUME NEW x \in Materials
          PROVE  /\ NoneOf(Materials)[x] \in Nat /\ taken[x] \in Nat /\ PlacedInBoth[x] \in Nat
                 /\ held[x].refs + NoneOf(Materials)[x] - taken[x]
                      = PlacedInBoth[x] + (IF held[x].named THEN 1 ELSE 0)
                 /\ ~held[x].born => held[x].refs + NoneOf(Materials)[x] - taken[x] = 0
      <4>1. PICK refs \in Int, total \in Nat : refs = held[x].refs /\ total = PlacedInBoth[x]
        BY <2>2, <2>7 DEF MaterialRecords
      <4>2. NoneOf(Materials)[x] = 0 /\ taken[x] = IF x = m THEN 1 ELSE 0
        BY <2>7
      <4>3. CASE x = m
        <5>1. refs = total + 1 /\ ~held[x].named /\ held[x].born
          BY <2>3, <2>7, <4>1, <4>3
        <5> QED
          BY <4>1, <4>2, <4>3, <5>1
      <4>4. CASE x # m
        <5>1. /\ refs = total + (IF held[x].named THEN 1 ELSE 0)
              /\ ~held[x].born => refs = 0
          BY <2>2, <2>7, <4>1, <4>4
        <5> QED
          BY <4>1, <4>2, <4>4, <5>1
      <4> QED
        BY <4>3, <4>4
    <3> QED
      BY <3>1, <3>2, Zenon DEF Balances
  <2>9. /\ StandFor(materials', PlacedInBoth)
        /\ \A x \in Materials : materials'[x].named = held[x].named
    BY <2>6, <2>8, ReheldFacts
  <2>10. \A x \in pendingDeletions' : x \in Materials /\ materials'[x].named
    BY <1>1, <2>1, <2>7, <2>9
  <2> QED
    BY <1>2, <2>9, <2>10, AssetKeeps
<1> QED
  BY <1>3, <1>4, <1>5

LEMMA SaveAsAssetKeeps ==
  ASSUME EditorInv, NEW s \in Places, SaveAsAsset(s)
  PROVE  EditorInv'
<1>1. /\ ScenesKept /\ MaterialsHeld /\ Reg \in Registries
      /\ StandFor(materials, PlacedInBoth) /\ Counts(Materials, PlacedInBoth)
      /\ \A m \in pendingDeletions : m \in Materials /\ materials[m].named
  BY MaterialsStand, PlacedInBothIs, SceneFacts DEF EditorInv
<1>2. UNCHANGED << registry, stored, bodies, loads, playing, plays, mouse, renaming,
                   typed, selection, pendingDeletions >>
  BY DEF SaveAsAsset, Session, Typing, Physics
<1>3. PICK e \in Entities(Reg) : e = Primary
  BY DEF SaveAsAsset, AtInspector
<1>4. PICK m : m = Reg[e].slots[s]
  OBVIOUS
<1>5. m \in Materials /\ Reg[e] \in EntityRecords
  <2>1. Reg[e] \in EntityRecords
    BY <1>1, RegistryFacts
  <2>2. m # None
    BY <1>3, <1>4 DEF SaveAsAsset
  <2> QED
    BY <1>4, <2>1, <2>2 DEF EntityRecords
<1>6. /\ ~materials[m].named
      /\ materials' = [ materials EXCEPT ![m].named = TRUE, ![m].refs = @ + 1 ]
  BY <1>3, <1>4 DEF SaveAsAsset
<1>7. materials[m].born
  <2>1. PlacedIn(Reg, Entities(Reg))[m] >= 1
    BY <1>1, <1>4, <1>5, RegistryFacts, PlacedCounts
  <2>2. Placed(Reg)[m] # 0 /\ Reg \in {registry.editor, registry.runtime}
    BY <1>1, <2>1, SceneFacts DEF Placed
  <2> QED
    BY <1>1, <1>5, <2>2, PlacedIsBorn
<1>15. PICK old : old = materials[m]
  OBVIOUS
<1>16. PICK more : more = old.refs + 1
  OBVIOUS
<1>8. PICK new : new = [ old EXCEPT !.named = TRUE, !.refs = more ]
  OBVIOUS
<1>9. materials[m] \in MaterialRecords /\ PlacedInBoth[m] \in Nat
  BY <1>1, <1>5 DEF StandFor, Counts
<1>10. /\ new \in MaterialRecords /\ new.born = materials[m].born /\ new.named = TRUE
       /\ new.refs = materials[m].refs + 1
  <2>1. old \in MaterialRecords /\ more \in Int
    BY <1>9, <1>15, <1>16 DEF MaterialRecords
  <2>2. new \in MaterialRecords /\ new.born = old.born /\ new.named = TRUE /\ new.refs = more
    BY <1>8, <2>1 DEF MaterialRecords
  <2> QED
    BY <1>15, <1>16, <2>2
<1>11. materials' = [ materials EXCEPT ![m] = new ]
  BY <1>1, <1>5, <1>6, <1>8, <1>15, <1>16 DEF StandFor
<1>12. new.refs = PlacedInBoth[m] + 1
  BY <1>1, <1>5, <1>6, <1>9, <1>10 DEF StandFor
<1>13. StandFor(materials', PlacedInBoth)
  BY <1>1, <1>7, <1>10, <1>11, <1>12 DEF StandFor
<1>14. \A x \in pendingDeletions' : x \in Materials /\ materials'[x].named
  BY <1>1, <1>2, <1>10, <1>11 DEF StandFor
<1> QED
  BY <1>2, <1>13, <1>14, AssetKeeps

LEMMA ChooseMaterialKeeps ==
  ASSUME EditorInv, NEW s \in Places, ChooseMaterial(s)
  PROVE  EditorInv'
<1>1. /\ ScenesKept /\ ModelsHeld /\ MaterialsHeld /\ Reg \in Registries
      /\ StandFor(materials, PlacedInBoth) /\ Counts(Materials, PlacedInBoth)
      /\ \A n \in pendingDeletions : n \in Materials /\ materials[n].named
  BY MaterialsStand, PlacedInBothIs, SceneFacts DEF EditorInv
<1>2. PICK p \in Entities(Reg) : p = Primary
  BY DEF ChooseMaterial, AtInspector
<1>3. PICK m : /\ m = None \/ (m \in Materials /\ (m \in Unborn \/ materials[m].named))
               /\ Place(s, m) /\ UNCHANGED << stored, bodies >>
  BY DEF ChooseMaterial, Fresh, Unborn
<1>4. PICK old : old = Reg[p]
  OBVIOUS
<1>5. old \in EntityRecords
  BY <1>1, <1>4, RegistryFacts
<1>6. PICK after : after = [ Reg EXCEPT ![p].slots[s] = m ]
  OBVIOUS
<1>7. PICK slots : slots = [ old.slots EXCEPT ![s] = m ]
  OBVIOUS
<1>8. PICK x : x = after[p]
  OBVIOUS
<1>9. /\ slots \in [ Places -> Materials \cup {None} ]
      /\ \A t \in Places : slots[t] = IF t = s THEN m ELSE old.slots[t]
  BY <1>3, <1>5, <1>7 DEF EntityRecords
<1>10. x = [ old EXCEPT !.slots = slots ]
  BY <1>1, <1>4, <1>6, <1>7, <1>8, RegistryFacts
<1>11. /\ x \in EntityRecords /\ x.body = old.body /\ x.model = old.model /\ x.owned = old.owned
       /\ x.slots = slots
  BY <1>5, <1>9, <1>10 DEF EntityRecords
<1>12. PICK born : born = IF m \in Unborn THEN [ materials EXCEPT ![m] = Created(m, FALSE) ]
                          ELSE materials
  OBVIOUS
<1>13. PICK creation : creation = IF m \in Unborn THEN One(Materials, m) ELSE NoneOf(Materials)
  OBVIOUS
<1>14. PICK E : E = {p}
  OBVIOUS
<1>15. PICK before : before = PlacedIn(Reg, E)
  OBVIOUS
<1>16. PICK given : given = PlacedIn(after, E)
  OBVIOUS
<1>17. PICK taken : taken = [ y \in Materials |-> before[y] + creation[y] ]
  OBVIOUS
<1>18. materials' = Reheld(born, given, taken) /\ Inspect(x)
  <2>1. Place(s, m) /\ Primary = p
    BY <1>2, <1>3
  <2> QED
    BY <1>2, <1>6, <1>8, <1>12, <1>13, <1>14, <1>15, <1>16, <1>17, <2>1, Zenon DEF Place
<1>19. /\ Puts(p, x) /\ SessionKept' /\ MouseKept' /\ UNCHANGED << pendingDeletions, playing >>
  BY <1>2, <1>18, InspectFacts
<1>20. Bears(p, x)
  BY <1>1, <1>3, <1>4, <1>11, BearsStill
<1>21. ScenesKept' /\ \E r : Becomes(r) /\ Rewritten(r, Reg, p, x)
  BY <1>1, <1>11, <1>19, <1>20, RewriteKeeps
<1>22. PICK r : Becomes(r) /\ Rewritten(r, Reg, p, x)
  BY <1>21
<1>23. ModelsHeld'
  <2>1. stored' \in [Models -> [refs: Int, state: ModelStates]]
    BY <1>1, <1>3 DEF ModelsHeld
  <2>2. ASSUME NEW y \in Models
        PROVE  stored'[y].refs = stored[y].refs + Tag(x, y) - Tag(Reg[p], y)
    <3>1. stored[y].refs \in Int /\ Tag(x, y) \in Int /\ Tag(x, y) = Tag(Reg[p], y)
      BY <1>1, <1>4, <1>11 DEF ModelsHeld, Tag
    <3> QED
      BY <1>3, <3>1
  <2> QED
    BY <1>1, <1>22, <2>1, <2>2, RewrittenModels
<1>24. PlacedChanges(r, Reg, given, before)
  <2>1. PlacedChanges(r, Reg, PlacedIn(r, E), before) /\ r[p] = x
    BY <1>14, <1>15, <1>22, Zenon DEF Rewritten
  <2>2. PlacedIn(r, E) = given
    BY <1>8, <1>14, <1>16, <2>1, PlacedAlike
  <2> QED
    BY <2>1, <2>2
<1>25. ASSUME NEW y \in Materials
       PROVE  /\ given[y] \in Nat /\ before[y] \in Nat
              /\ PlacedInBoth'[y] = PlacedInBoth[y] + given[y] - before[y]
  BY <1>1, <1>22, <1>24, PlacedInBothChanges DEF PlacedChanges
<1>26. Counts(Materials, PlacedInBoth)'
  <2>1. registry'.editor \in Registries /\ registry'.runtime \in Registries
    BY <1>21 DEF ScenesKept
  <2>2. ASSUME NEW y \in Materials
        PROVE  Placed(registry'.editor)[y] \in Nat /\ Placed(registry'.runtime)[y] \in Nat
    BY <2>1, RegistryFacts
  <2> QED
    BY <2>2 DEF Counts, PlacedInBoth
<1>27. \A y \in Materials :
         /\ materials[y].refs = PlacedInBoth[y] + (IF materials[y].named THEN 1 ELSE 0)
         /\ ~materials[y].born => materials[y].refs = 0
         /\ materials[y] \in MaterialRecords /\ PlacedInBoth[y] \in Nat
  BY <1>1 DEF StandFor, Counts
<1>28. ASSUME NEW y \in Materials, ~materials[y].born
       PROVE  ~materials[y].named /\ \A t \in Places : old.slots[t] # y
  <2>1. ~materials[y].named
    BY <1>27, <1>28 DEF MaterialRecords
  <2>2. ASSUME NEW t \in Places, old.slots[t] = y PROVE FALSE
    <3>1. PlacedIn(Reg, Entities(Reg))[y] >= 1
      BY <1>1, <1>4, <2>2, RegistryFacts, PlacedCounts
    <3>2. Placed(Reg)[y] # 0 /\ Reg \in {registry.editor, registry.runtime}
      BY <1>1, <3>1, SceneFacts DEF Placed
    <3> QED
      BY <1>1, <1>28, <3>2, PlacedIsBorn
  <2> QED
    BY <2>1, <2>2
<1>29. ASSUME NEW y \in Materials
       PROVE  /\ born[y] \in MaterialRecords /\ creation[y] \in {0, 1}
              /\ born[y].refs = materials[y].refs + creation[y]
              /\ born[y].named = materials[y].named
              /\ ~born[y].born => ~materials[y].born /\ y # m /\ creation[y] = 0
  <2>1. CASE m \in Unborn /\ y = m
    <3>1. ~materials[y].born /\ materials[y].refs = 0 /\ materials[y].named = FALSE
      BY <1>27, <1>28, <2>1 DEF Unborn, MaterialRecords
    <3>2. creation[y] = 1
      BY <1>13, <2>1 DEF One
    <3>3. born[y] = [born |-> TRUE, refs |-> 1, named |-> FALSE]
      BY <1>1, <1>12, <2>1 DEF Created, StandFor
    <3>4. /\ born[y] \in MaterialRecords /\ born[y].refs = 1 /\ born[y].named = FALSE
          /\ born[y].born = TRUE
      BY <3>3 DEF MaterialRecords
    <3>5. materials[y].refs + creation[y] = 1
      BY <3>1, <3>2
    <3>6. creation[y] \in {0, 1} /\ born[y].refs = materials[y].refs + creation[y]
      BY <3>2, <3>4, <3>5
    <3>7. born[y].named = materials[y].named
      BY <3>1, <3>4
    <3> QED
      BY <3>4, <3>6, <3>7, Zenon
  <2>2. CASE ~(m \in Unborn /\ y = m)
    <3>1. creation[y] = 0
      BY <1>13, <2>2 DEF One, NoneOf
    <3>2. born[y] = materials[y]
      BY <1>1, <1>12, <2>2 DEF StandFor, Unborn
    <3>3. ~materials[y].born => y # m
      <4>1. m # None => m \in Unborn \/ materials[m].named
        BY <1>3
      <4>2. y # None
        BY NoneFacts DEF Materials
      <4> QED
        BY <1>28, <2>2, <4>1, <4>2
    <3>4. materials[y].refs \in Int
      BY <1>27 DEF MaterialRecords
    <3> QED
      BY <1>27, <3>1, <3>2, <3>3, <3>4
  <2> QED
    BY <2>1, <2>2
<1>30. born \in [Materials -> MaterialRecords]
  <2>1. born = [y \in Materials |-> born[y]]
    BY <1>1, <1>12 DEF StandFor
  <2> QED
    BY <1>29, <2>1
<1>31. ASSUME NEW y \in Materials, ~born[y].born
       PROVE  given[y] = 0 /\ before[y] = 0
  <2>1. IsFiniteSet(E)
    BY <1>14, FS_Singleton
  <2>2. \A t \in Places : old.slots[t] # y /\ slots[t] # y
    BY <1>9, <1>28, <1>29, <1>31
  <2>3. /\ \A o \in E : \A t \in Places : Reg[o].slots[t] # y
        /\ \A o \in E : \A t \in Places : after[o].slots[t] # y
    BY <1>4, <1>8, <1>11, <1>14, <2>2
  <2> QED
    BY <1>15, <1>16, <2>1, <2>3, NothingPlaced
<1>32. PICK total : total = PlacedInBoth'
  OBVIOUS
<1>33. Balances(born, given, taken, total)
  <2>1. ASSUME NEW y \in Materials
        PROVE  /\ given[y] \in Nat /\ taken[y] \in Nat /\ total[y] \in Nat
               /\ born[y].refs + given[y] - taken[y]
                    = total[y] + (IF born[y].named THEN 1 ELSE 0)
               /\ ~born[y].born => born[y].refs + given[y] - taken[y] = 0
    <3>1. PICK g \in Nat, b \in Nat, k \in Nat : g = given[y] /\ b = before[y] /\ k = PlacedInBoth[y]
      BY <1>25, <1>27
    <3>2. PICK c \in Nat : c = creation[y]
      BY <1>29
    <3>3. PICK n \in {0, 1} : n = IF materials[y].named THEN 1 ELSE 0
      OBVIOUS
    <3>4. taken[y] = b + c /\ total[y] = k + g - b /\ total[y] \in Nat
      BY <1>17, <1>25, <1>26, <1>32, <3>1, <3>2 DEF Counts
    <3>5. born[y].refs = k + n + c /\ n = IF born[y].named THEN 1 ELSE 0
      BY <1>27, <1>29, <3>1, <3>2, <3>3
    <3>6. ~born[y].born => g = 0 /\ b = 0 /\ c = 0 /\ born[y].refs = 0
      <4>1. ASSUME ~born[y].born PROVE born[y].refs = 0
        <5>1. ~materials[y].born /\ creation[y] = 0 /\ born[y].refs = materials[y].refs + creation[y]
          BY <1>29, <4>1
        <5>2. materials[y].refs = 0
          BY <1>27, <5>1
        <5> QED
          BY <5>1, <5>2
      <4> QED
        BY <1>29, <1>31, <3>1, <3>2, <4>1
    <3> QED
      BY <3>1, <3>4, <3>5, <3>6
  <2> QED
    BY <1>30, <2>1, Zenon DEF Balances
<1>34. /\ StandFor(materials', total)
       /\ \A y \in Materials : materials'[y].named = born[y].named
  BY <1>18, <1>33, ReheldFacts
<1>35. MaterialsHeld'
  <2>1. \A y \in pendingDeletions' : y \in Materials /\ materials'[y].named
    BY <1>1, <1>19, <1>29, <1>34
  <2>2. StandFor(materials', PlacedInBoth')
    BY <1>32, <1>34
  <2> QED
    BY <2>1, <2>2 DEF MaterialsHeld, StandFor, PlacedInBoth, MaterialRecords
<1> QED
  BY <1>19, <1>21, <1>23, <1>35 DEF EditorInv

-----------------------------------------------------------------------------
(* Models from files, and bullets.                                          *)

LEMMA SpawnKeeps ==
  ASSUME EditorInv, NEW m \in Models, SpawnStreamedModel(m)
  PROVE  EditorInv'
<1>1. ScenesKept /\ ModelsHeld /\ SessionKept /\ MouseKept /\ Reg \in Registries
  BY SceneFacts DEF EditorInv
<1>2. PICK n \in Nat : n = Len(Reg) + 1
  BY <1>1, RegistryFacts
<1>3. PICK x : x = [Named("a") EXCEPT !.model = m, !.owned = TRUE]
  OBVIOUS
<1>4. /\ x \in EntityRecords /\ x.model = m /\ x.owned = TRUE /\ x.body = FALSE
      /\ \A s \in Places : x.slots[s] = None
  BY <1>3 DEF Named, EntityRecords
<1>5. PICK begun : begun = [of |-> playing, entity |-> n, model |-> m, settled |-> FALSE]
  OBVIOUS
<1>6. /\ Becomes(Append(Reg, x)) /\ stored' = Requested(m)
      /\ selection' = Assigned(<< n >>) /\ loads' = Trimmed(Append(loads, begun))
      /\ UNCHANGED << materials, pendingDeletions, playing, plays, mouse, renaming, typed, bodies >>
  BY <1>2, <1>3, <1>5 DEF SpawnStreamedModel, Put, Becomes, Session, Typing
<1>7. ScenesKept' /\ ModelsHeld' /\ MaterialsHeld'
  <2>1. PICK given : given = One(Models, m)
    OBVIOUS
  <2>2. \A y \in Models : given[y] = IF x.owned /\ x.model = y THEN 1 ELSE 0
    BY <1>4, <2>1 DEF One
  <2>3. /\ Requested(m) \in [Models -> [refs: Int, state: ModelStates]]
        /\ \A y \in Models : Requested(m)[y].refs = stored[y].refs + (IF y = m THEN 1 ELSE 0)
    BY <1>1, RequestedFacts
  <2>4. RefsGrow(given)
    BY <1>6, <2>1, <2>3 DEF RefsGrow, One
  <2>5. Backed(x)
    BY <1>4 DEF Backed
  <2> QED
    BY <1>4, <1>6, <2>2, <2>4, <2>5, AdditionKeeps
<1>8. SessionKept'
  <2>1. << n >> \in Seq(Nat)
    OBVIOUS
  <2>2. Fits(Assigned(<< n >>))
    BY <1>1, <2>1, SelectionsFit
  <2>3. begun \in LoadsOf({0, playing}) /\ loads \in Seq(LoadsOf({0, playing}))
    BY <1>1, <1>5 DEF LoadsOf, SessionKept
  <2>4. Append(loads, begun) \in Seq(LoadsOf({0, playing}))
    BY <2>3
  <2>5. loads' \in Seq(LoadsOf({0, playing}))
    BY <1>6, <2>4, TrimmedFacts
  <2> QED
    BY <1>1, <1>6, <2>2, <2>5 DEF SessionKept, Fits, LoadsOf
<1>9. MouseKept'
  BY <1>1, <1>6, MouseStays
<1> QED
  BY <1>7, <1>8, <1>9 DEF EditorInv

LEMMA PickKeeps ==
  ASSUME EditorInv, Pick
  PROVE  EditorInv'
<1>1. ScenesKept /\ ModelsHeld /\ SessionKept /\ MouseKept
  BY DEF EditorInv
<1>2. CASE \E m \in Models : SpawnStreamedModel(m)
  BY <1>2, SpawnKeeps
<1>3. CASE \E m \in Models :
             /\ IF browse.entity \in Entities(Reg)
                  THEN SetEntityModel(browse.entity, m, Requested(m))
                  ELSE UNCHANGED << registry, stored, view >>
             /\ UNCHANGED << materials, pendingDeletions, Session, Typing, Physics, selection >>
  <2>1. PICK m \in Models :
             /\ IF browse.entity \in Entities(Reg)
                  THEN SetEntityModel(browse.entity, m, Requested(m))
                  ELSE UNCHANGED << registry, stored, view >>
             /\ UNCHANGED << materials, pendingDeletions, Session, Typing, Physics, selection >>
    BY <1>3
  <2>2. UNCHANGED << materials, pendingDeletions, bodies, loads, playing, plays, mouse, renaming,
                     typed, selection >>
    BY <2>1 DEF Session, Typing, Physics
  <2>3. ScenesKept' /\ ModelsHeld' /\ MaterialsHeld'
    <3>1. CASE browse.entity \in Entities(Reg)
      <4>1. PICK e \in Entities(Reg) : e = browse.entity
        BY <3>1
      <4>2. PICK brought : brought = Requested(m)
        OBVIOUS
      <4>3. brought[m].state \in ModelStates
        BY <1>1, <4>2, RequestedFacts
      <4>4. SetEntityModel(e, m, brought)
        BY <2>1, <4>1, <4>2
      <4> QED
        BY <2>2, <4>3, <4>4, SetEntityModelKeeps
    <3>2. CASE browse.entity \notin Entities(Reg)
      BY <2>1, <2>2, <3>2, NothingHappens
    <3> QED
      BY <3>1, <3>2
  <2>4. SessionKept'
    BY <1>1, <2>2, SelectionsFit, SessionStays DEF Fits
  <2>5. MouseKept'
    BY <1>1, <2>2, MouseStays
  <2> QED
    BY <2>3, <2>4, <2>5 DEF EditorInv
<1> QED
  BY <1>2, <1>3 DEF Pick

LEMMA ShootKeeps ==
  ASSUME EditorInv, Shoot
  PROVE  EditorInv'
<1>1. ScenesKept /\ ModelsHeld /\ SessionKept /\ MouseKept
  BY DEF EditorInv
<1>2. PICK x : x = [ Named("b") EXCEPT !.model = "cube", !.rigid = TRUE, !.body = TRUE,
                                       !.lifetime = TRUE, !.bullet = TRUE ]
  OBVIOUS
<1>3. /\ x \in EntityRecords /\ x.model = "cube" /\ x.owned = FALSE
      /\ \A s \in Places : x.slots[s] = None
  BY <1>2 DEF Named, EntityRecords, Models
<1>4. /\ Becomes(Append(Reg, x)) /\ bodies' = bodies \cup {Len(Reg) + 1} /\ playing # 0
      /\ UNCHANGED << stored, materials, pendingDeletions, playing, plays, mouse, renaming,
                      typed, loads, selection >>
  BY <1>2 DEF Shoot, Put, Becomes, Assets, Session, Typing
<1>5. ScenesKept' /\ ModelsHeld' /\ MaterialsHeld'
  <2>1. \A m \in Models : NoneOf(Models)[m] = IF x.owned /\ x.model = m THEN 1 ELSE 0
    BY <1>3 DEF NoneOf
  <2>2. RefsGrow(NoneOf(Models))
    BY <1>1, <1>4 DEF RefsGrow, NoneOf, ModelsHeld
  <2>3. Backed(x)
    BY <1>3 DEF Backed
  <2>4. bodies \subseteq bodies' /\ Len(Reg) + 1 \in bodies'
    BY <1>4
  <2> QED
    BY <1>3, <1>4, <2>1, <2>2, <2>3, <2>4, AdditionKeeps
<1>6. SessionKept'
  BY <1>1, <1>4, SelectionsFit, SessionStays DEF Fits
<1>7. MouseKept'
  BY <1>1, <1>4, MouseStays
<1> QED
  BY <1>5, <1>6, <1>7 DEF EditorInv

LEMMA UpdateModelLoadsKeeps ==
  ASSUME EditorInv, UpdateModelLoads
  PROVE  EditorInv'
<1>1. ScenesKept /\ SessionKept /\ MouseKept /\ Reg \in Registries
  BY SceneFacts DEF EditorInv
<1>2. PICK r : r = [ e \in DOMAIN Reg |->
                       IF \E i \in DOMAIN loads : GetsCollider(loads[i]) /\ loads[i].entity = e
                         THEN [ Reg[e] EXCEPT !.rigid = TRUE ] ELSE Reg[e] ]
  OBVIOUS
<1>3. /\ Becomes(r)
      /\ UNCHANGED << stored, materials, pendingDeletions, playing, plays, mouse, renaming,
                      typed, bodies, selection >>
  BY <1>2, Zenon DEF UpdateModelLoads, Becomes, Assets, Session, Typing
<1>4. r \in Registries /\ Same(r, Reg)
  <2>1. PICK n \in Nat : DOMAIN Reg = 1 .. n
    BY <1>1, RegistryFacts
  <2>2. ASSUME NEW e \in 1 .. n
        PROVE  /\ r[e] = Reg[e] \/ (Reg[e] # None /\ r[e] = [ Reg[e] EXCEPT !.rigid = TRUE ])
               /\ Reg[e] \in EntityRecords \cup {None}
    <3>1. Reg[e] \in EntityRecords \cup {None}
      BY <1>1, <2>1 DEF Registries
    <3> QED
      BY <1>2, <2>1, <3>1 DEF GetsCollider, Entities
  <2>3. ASSUME NEW e \in 1 .. n
        PROVE  /\ r[e] \in EntityRecords \cup {None} /\ (r[e] = None <=> Reg[e] = None)
               /\ Reg[e] # None => /\ r[e].owned = Reg[e].owned /\ r[e].model = Reg[e].model
                                   /\ r[e].slots = Reg[e].slots /\ r[e].body = Reg[e].body
    <3>1. CASE r[e] = Reg[e]
      BY <2>2, <3>1
    <3>2. CASE Reg[e] # None /\ r[e] = [ Reg[e] EXCEPT !.rigid = TRUE ]
      <4>1. PICK old : old = Reg[e]
        OBVIOUS
      <4>2. PICK x : x = [ old EXCEPT !.rigid = TRUE ]
        OBVIOUS
      <4>3. old \in EntityRecords
        BY <2>2, <3>2, <4>1
      <4>4. /\ x \in EntityRecords /\ x.owned = old.owned /\ x.model = old.model
            /\ x.slots = old.slots /\ x.body = old.body
        BY <4>2, <4>3 DEF EntityRecords
      <4>5. x # None /\ r[e] = x
        BY <3>2, <4>1, <4>2, <4>4, NoneFacts
      <4> QED
        BY <3>2, <4>1, <4>4, <4>5
    <3> QED
      BY <2>2, <3>1, <3>2
  <2>4. r \in Registries
    <3>1. r = [e \in 1 .. n |-> r[e]]
      BY <1>2, <2>1
    <3>2. r \in [1 .. n -> EntityRecords \cup {None}]
      BY <2>3, <3>1, Zenon
    <3> QED
      BY <3>2 DEF Registries
  <2>5. DOMAIN r = 1 .. n
    BY <1>2, <2>1
  <2>6. Entities(r) = Entities(Reg)
    BY <2>1, <2>3, <2>5 DEF Entities
  <2>7. Same(r, Reg)
    BY <2>1, <2>3, <2>6 DEF Same, Entities
  <2> QED
    BY <2>4, <2>7
<1>5. ScenesKept' /\ ModelsHeld' /\ MaterialsHeld'
  BY <1>3, <1>4, SameHoldings
<1>6. loads' \in Seq(LoadsOf({0, playing}))
  <2>1. PICK L : L = LoadsOf({0, playing})
    OBVIOUS
  <2>2. PICK k \in Nat : DOMAIN loads = 1 .. k /\ \A i \in 1 .. k : loads[i] \in L
    BY <1>1, <2>1, ElementsOf, Zenon DEF SessionKept
  <2>3. PICK list : list = loads'
    OBVIOUS
  <2>4. list = [ i \in DOMAIN loads |->
                  IF Ends(loads[i]) THEN [ loads[i] EXCEPT !.settled = TRUE ] ELSE loads[i] ]
    BY <2>3 DEF UpdateModelLoads
  <2>5. ASSUME NEW i \in 1 .. k PROVE list[i] \in L
    <3>1. PICK l \in L : l = loads[i]
      BY <2>2
    <3>2. list[i] \in {l, [l EXCEPT !.settled = TRUE]}
      BY <2>2, <2>4, <3>1
    <3>3. [l EXCEPT !.settled = TRUE] \in L
      BY <2>1 DEF LoadsOf
    <3> QED
      BY <3>2, <3>3
  <2>6. DOMAIN list = 1 .. k /\ list = [i \in 1 .. k |-> list[i]]
    BY <2>2, <2>4
  <2>7. list \in [1 .. k -> L]
    BY <2>5, <2>6, Zenon
  <2>8. list \in Seq(L)
    BY <2>7
  <2> QED
    BY <2>1, <2>3, <2>8
<1>7. SessionKept'
  BY <1>1, <1>3, <1>6 DEF SessionKept, LoadsOf
<1>8. MouseKept'
  BY <1>1, <1>3, MouseStays
<1> QED
  BY <1>5, <1>7, <1>8 DEF EditorInv

-----------------------------------------------------------------------------
(* Playing, stopping, and building the game's scene again.                  *)

LEMMA NoOwners ==
  ASSUME NEW reg, NEW m \in Models, \A e \in Entities(reg) : ~reg[e].owned
  PROVE  Owned(reg)[m] = 0
<1>1. { e \in Entities(reg) : reg[e].owned /\ reg[e].model = m } = {}
  OBVIOUS
<1>2. OwnedIn(reg, Entities(reg))[m] = Cardinality({})
  BY <1>1, Zenon DEF OwnedIn
<1> QED
  BY <1>2, FS_EmptySet DEF Owned

LEMMA EmptyScene ==
  ASSUME NEW reg, Entities(reg) = {}
  PROVE  /\ \A m \in Models : Owned(reg)[m] = 0
         /\ \A m \in Materials : Placed(reg)[m] = 0
<1>1. IsFiniteSet({})
  BY FS_EmptySet
<1>2. \A m \in Models : Owned(reg)[m] = 0
  BY NoOwners
<1>3. ASSUME NEW m \in Materials PROVE PlacedIn(reg, {})[m] = 0
  BY <1>1, NothingPlaced
<1> QED
  BY <1>2, <1>3 DEF Placed

LEMMA NoEntities ==
  ASSUME NEW reg, reg = << >>
  PROVE  Entities(reg) = {} /\ reg \in Registries
BY DEF Entities, Registries

(* The clone has what the editor's scene has, but for the tags.             *)
LEMMA ClonedFacts ==
  ASSUME NEW reg \in Registries
  PROVE  /\ Cloned(reg) \in Registries /\ Entities(Cloned(reg)) = Entities(reg)
         /\ \A e \in Entities(reg) : /\ Cloned(reg)[e].owned = FALSE
                                     /\ Cloned(reg)[e].model = reg[e].model
                                     /\ Cloned(reg)[e].slots = reg[e].slots
<1>1. PICK n \in Nat : DOMAIN reg = 1 .. n
  BY RegistryFacts
<1>2. PICK r : r = Cloned(reg)
  OBVIOUS
<1>3. DOMAIN r = 1 .. n /\ r = [e \in 1 .. n |-> r[e]]
  BY <1>1, <1>2 DEF Cloned
<1>4. ASSUME NEW e \in 1 .. n
      PROVE  /\ r[e] \in EntityRecords \cup {None} /\ (r[e] = None <=> reg[e] = None)
             /\ reg[e] # None => /\ r[e].owned = FALSE /\ r[e].model = reg[e].model
                                 /\ r[e].slots = reg[e].slots
  <2>1. reg[e] \in EntityRecords \cup {None}
    BY <1>1 DEF Registries
  <2>2. CASE reg[e] = None
    BY <1>1, <1>2, <2>2 DEF Cloned
  <2>3. CASE reg[e] # None
    <3>1. PICK old \in EntityRecords : old = reg[e]
      BY <2>1, <2>3
    <3>2. PICK b \in BOOLEAN : b = (old.transform /\ old.rigid)
      OBVIOUS
    <3>3. PICK x : x = [ old EXCEPT !.owned = FALSE, !.bullet = FALSE, !.body = b ]
      OBVIOUS
    <3>4. /\ x \in EntityRecords /\ x.owned = FALSE /\ x.model = old.model /\ x.slots = old.slots
      BY <3>2, <3>3 DEF EntityRecords
    <3>5. r[e] = x
      BY <1>1, <1>2, <2>3, <3>1, <3>2, <3>3 DEF Cloned
    <3>6. x # None
      BY <3>4, NoneFacts
    <3> QED
      BY <2>3, <3>1, <3>4, <3>5, <3>6
  <2> QED
    BY <2>2, <2>3
<1>5. r \in Registries
  <2>1. r \in [1 .. n -> EntityRecords \cup {None}]
    BY <1>3, <1>4, Zenon
  <2> QED
    BY <2>1 DEF Registries
<1>6. Entities(r) = Entities(reg)
  BY <1>1, <1>3, <1>4 DEF Entities
<1>7. \A e \in Entities(reg) : r[e].owned = FALSE /\ r[e].model = reg[e].model
                                /\ r[e].slots = reg[e].slots
  BY <1>1, <1>4 DEF Entities
<1> QED
  BY <1>2, <1>5, <1>6, <1>7

LEMMA PlayKeeps ==
  ASSUME EditorInv, Play
  PROVE  EditorInv'
<1>1. /\ ScenesKept /\ ModelsHeld /\ MaterialsHeld /\ SessionKept /\ MouseKept
      /\ registry.editor \in Registries
      /\ StandFor(materials, PlacedInBoth) /\ Counts(Materials, PlacedInBoth)
      /\ \A n \in pendingDeletions : n \in Materials /\ materials[n].named
  BY MaterialsStand, PlacedInBothIs, SceneFacts DEF EditorInv
<1>2. PICK clone : clone = Cloned(registry.editor)
  OBVIOUS
<1>3. PICK put : put = PlacedIn(clone, Entities(clone))
  OBVIOUS
<1>4. /\ playing = 0 /\ playing' = plays + 1 /\ plays' = plays + 1
      /\ registry' = [ registry EXCEPT !.runtime = clone ]
      /\ bodies' = { e \in Entities(clone) : clone[e].body }
      /\ materials' = Reheld(materials, put, NoneOf(Materials))
      /\ UNCHANGED << stored, pendingDeletions, loads >>
  BY <1>2, <1>3 DEF Play
<1>5. /\ selection' = Cleared /\ renaming' = None /\ typed' = None
      /\ mouse' = [ mouse EXCEPT !.game = FALSE, !.captured = mouse.fullscreen,
                                 !.keyboardOff = mouse.fullscreen ]
  BY DEF Play
<1>6. /\ clone \in Registries /\ Entities(clone) = Entities(registry.editor)
      /\ \A e \in Entities(registry.editor) : /\ clone[e].owned = FALSE
                                              /\ clone[e].model = registry.editor[e].model
                                              /\ clone[e].slots = registry.editor[e].slots
  BY <1>1, <1>2, ClonedFacts
<1>7. playing' \in Nat /\ plays' \in Nat /\ playing' # 0
  BY <1>1, <1>4 DEF SessionKept
<1>8. /\ registry' \in [editor: Registries, runtime: Registries]
      /\ registry'.editor = registry.editor /\ registry'.runtime = clone
  BY <1>1, <1>4, <1>6 DEF ScenesKept
<1>9. ScenesKept'
  <2>1. /\ \A e \in Entities(registry.editor) : Backed(registry.editor[e])
        /\ \A e \in Entities(registry.editor) : ~registry.editor[e].body
    BY <1>1 DEF ScenesKept, ModelsKept, BodiesKept
  <2>2. \A e \in Entities(clone) :
          \/ Backed(clone[e])
          \/ \E x \in Entities(registry.editor) :
               registry.editor[x].owned /\ registry.editor[x].model = clone[e].model
    BY <1>6, <2>1 DEF Backed
  <2>3. ModelsKept'
    BY <1>8, <2>1, <2>2 DEF ModelsKept
  <2>4. BodiesKept'
    BY <1>4, <1>7, <1>8, <2>1 DEF BodiesKept
  <2> QED
    BY <1>8, <2>3, <2>4 DEF ScenesKept
<1>10. /\ \A m \in Models : Owned(registry.runtime)[m] = 0
       /\ \A m \in Materials : Placed(registry.runtime)[m] = 0
  <2>1. Entities(registry.runtime) = {}
    BY <1>1, <1>4, NoEntities DEF ScenesKept, BodiesKept
  <2> QED
    BY <2>1, EmptyScene
<1>11. ModelsHeld'
  <2>1. \A m \in Models : Owned(clone)[m] = 0
    BY <1>6, NoOwners
  <2>2. ASSUME NEW m \in Models
        PROVE  stored'[m].refs = Owned(registry'.editor)[m] + Owned(registry'.runtime)[m]
                                   + (IF m = "cube" THEN 1 ELSE 0)
    BY <1>1, <1>4, <1>8, <1>10, <2>1 DEF ModelsHeld
  <2> QED
    BY <1>1, <1>4, <2>2 DEF ModelsHeld
<1>12. put = Placed(registry.editor)
  <2>1. PlacedIn(clone, Entities(registry.editor))
          = PlacedIn(registry.editor, Entities(registry.editor))
    BY <1>6, PlacedAlike
  <2> QED
    BY <1>3, <1>6, <2>1 DEF Placed
<1>13. PICK total : total = PlacedInBoth'
  OBVIOUS
<1>14. ASSUME NEW m \in Materials
       PROVE  /\ total[m] = put[m] + put[m] /\ put[m] \in Nat /\ PlacedInBoth[m] = put[m]
  <2>1. Placed(clone) = put
    BY <1>3 DEF Placed
  <2>2. total[m] = Placed(registry'.editor)[m] + Placed(registry'.runtime)[m]
    BY <1>13 DEF PlacedInBoth
  <2>3. put[m] \in Nat
    BY <1>1, <1>12, RegistryFacts
  <2>4. PlacedInBoth[m] = Placed(registry.editor)[m] + Placed(registry.runtime)[m]
    BY DEF PlacedInBoth
  <2> QED
    BY <1>8, <1>10, <1>12, <2>1, <2>2, <2>3, <2>4
<1>15. Balances(materials, put, NoneOf(Materials), total)
  <2>1. ASSUME NEW m \in Materials
        PROVE  /\ put[m] \in Nat /\ NoneOf(Materials)[m] \in Nat /\ total[m] \in Nat
               /\ materials[m].refs + put[m] - NoneOf(Materials)[m]
                    = total[m] + (IF materials[m].named THEN 1 ELSE 0)
               /\ ~materials[m].born
                    => materials[m].refs + put[m] - NoneOf(Materials)[m] = 0
    <3>1. PICK k \in Nat : k = put[m]
      BY <1>14
    <3>2. NoneOf(Materials)[m] = 0
      BY DEF NoneOf
    <3>3. PICK n \in {0, 1} : n = IF materials[m].named THEN 1 ELSE 0
      OBVIOUS
    <3>4. materials[m].refs = k + n /\ (~materials[m].born => materials[m].refs = 0)
      BY <1>1, <1>14, <3>1, <3>3 DEF StandFor
    <3>5. total[m] = k + k
      BY <1>14, <3>1
    <3> QED
      BY <3>1, <3>2, <3>3, <3>4, <3>5
  <2>2. materials \in [Materials -> MaterialRecords]
    BY <1>1 DEF StandFor
  <2> QED
    BY <2>1, <2>2, Zenon DEF Balances
<1>16. MaterialsHeld'
  <2>1. /\ StandFor(materials', PlacedInBoth')
        /\ \A m \in Materials : materials'[m].named = materials[m].named
    BY <1>4, <1>13, <1>15, ReheldFacts
  <2>2. \A m \in pendingDeletions' : m \in Materials /\ materials'[m].named
    BY <1>1, <1>4, <2>1
  <2> QED
    BY <2>1, <2>2 DEF MaterialsHeld, StandFor, PlacedInBoth, MaterialRecords
<1>17. SessionKept'
  <2>1. Cleared \in Selections /\ Cleared.ids = << >>
    <3>1. PICK none : none = << >>
      OBVIOUS
    <3>2. Cleared = [of |-> 0, ids |-> none, primary |-> None] /\ none \in Seq(Nat)
      BY <3>1 DEF Cleared
    <3> QED
      BY <3>1, <3>2 DEF Selections
  <2>2. loads' \in Seq(LoadsOf({0, playing'}))
    <3>1. LoadsOf({0, playing}) \subseteq LoadsOf({0, playing'})
      BY <1>4 DEF LoadsOf
    <3>2. loads \in Seq(LoadsOf({0, playing}))
      BY <1>1 DEF SessionKept
    <3> QED
      BY <1>4, <3>1, <3>2, MoreSequences
  <2> QED
    BY <1>5, <1>7, <2>1, <2>2 DEF SessionKept, LoadsOf
<1>18. MouseKept'
  BY <1>1, <1>5, <1>7 DEF MouseKept
<1> QED
  BY <1>9, <1>11, <1>16, <1>17, <1>18 DEF EditorInv

(* The scenes are emptied of what they hold.                                *)
Spare(left, S) ==
  /\ left \in Registries
  /\ \A e \in Entities(left) : Backed(left[e]) /\ ~left[e].body
  /\ \A m \in Models : Owned(left)[m] = IF "editor" \in S THEN 0 ELSE Owned(registry.editor)[m]
  /\ \A m \in Materials :
       Placed(left)[m] = IF "editor" \in S THEN 0 ELSE Placed(registry.editor)[m]

LEMMA SummedIs ==
  ASSUME NEW S
  PROVE  /\ \A m \in Models :
              Summed(Models, OwnedIn, S)[m]
                = OwnedIn(registry.editor, IF "editor" \in S THEN Entities(registry.editor) ELSE {})[m]
                  + OwnedIn(registry.runtime,
                            IF "runtime" \in S THEN Entities(registry.runtime) ELSE {})[m]
         /\ \A m \in Materials :
              Summed(Materials, PlacedIn, S)[m]
                = PlacedIn(registry.editor, IF "editor" \in S THEN Entities(registry.editor) ELSE {})[m]
                  + PlacedIn(registry.runtime,
                             IF "runtime" \in S THEN Entities(registry.runtime) ELSE {})[m]
BY DEF Summed

LEMMA TakenIs ==
  ASSUME ScenesKept, NEW S
  PROVE  /\ \A m \in Models :
              Summed(Models, OwnedIn, S)[m]
                = (IF "editor" \in S THEN Owned(registry.editor)[m] ELSE 0)
                  + (IF "runtime" \in S THEN Owned(registry.runtime)[m] ELSE 0)
         /\ \A m \in Materials :
              Summed(Materials, PlacedIn, S)[m]
                = (IF "editor" \in S THEN Placed(registry.editor)[m] ELSE 0)
                  + (IF "runtime" \in S THEN Placed(registry.runtime)[m] ELSE 0)
<1>1. PICK E : E = IF "editor" \in S THEN Entities(registry.editor) ELSE {}
  OBVIOUS
<1>2. PICK R : R = IF "runtime" \in S THEN Entities(registry.runtime) ELSE {}
  OBVIOUS
<1>3. \A reg : /\ \A m \in Models : OwnedIn(reg, {})[m] = 0
               /\ \A m \in Materials : PlacedIn(reg, {})[m] = 0
  BY NobodyOwns, NothingPlaced, FS_EmptySet
<1>4. ASSUME NEW m \in Models
      PROVE  /\ OwnedIn(registry.editor, E)[m]
                  = IF "editor" \in S THEN Owned(registry.editor)[m] ELSE 0
             /\ OwnedIn(registry.runtime, R)[m]
                  = IF "runtime" \in S THEN Owned(registry.runtime)[m] ELSE 0
  BY <1>1, <1>2, <1>3 DEF Owned
<1>5. ASSUME NEW m \in Materials
      PROVE  /\ PlacedIn(registry.editor, E)[m]
                  = IF "editor" \in S THEN Placed(registry.editor)[m] ELSE 0
             /\ PlacedIn(registry.runtime, R)[m]
                  = IF "runtime" \in S THEN Placed(registry.runtime)[m] ELSE 0
  BY <1>1, <1>2, <1>3 DEF Placed
<1>6. \A m \in Models : Summed(Models, OwnedIn, S)[m]
                          = OwnedIn(registry.editor, E)[m] + OwnedIn(registry.runtime, R)[m]
  BY <1>1, <1>2, SummedIs
<1>7. \A m \in Materials : Summed(Materials, PlacedIn, S)[m]
                          = PlacedIn(registry.editor, E)[m] + PlacedIn(registry.runtime, R)[m]
  BY <1>1, <1>2, SummedIs
<1> QED
  BY <1>4, <1>5, <1>6, <1>7

LEMMA EmptiedKeeps ==
  ASSUME EditorInv, NEW S, NEW left, Spare(left, S), playing # 0 => "runtime" \in S,
         Emptied(S, left), playing' = 0, bodies' = {}, pendingDeletions' = pendingDeletions
  PROVE  ScenesKept' /\ ModelsHeld' /\ MaterialsHeld'
<1>1. /\ ScenesKept /\ ModelsHeld /\ MaterialsHeld
      /\ StandFor(materials, PlacedInBoth)
      /\ \A n \in pendingDeletions : n \in Materials /\ materials[n].named
  BY MaterialsStand DEF EditorInv
<1>2. PICK owned : owned = Summed(Models, OwnedIn, S)
  OBVIOUS
<1>3. PICK placed : placed = Summed(Materials, PlacedIn, S)
  OBVIOUS
<1>4. PICK none : none = << >>
  OBVIOUS
<1>5. /\ stored' = Exchanged(NoneOf(Models), owned)
      /\ materials' = Reheld(materials, NoneOf(Materials), placed)
      /\ registry' = [ editor |-> left, runtime |-> none ]
  BY <1>2, <1>3, <1>4 DEF Emptied
<1>6. Entities(none) = {} /\ none \in Registries
  BY <1>4, NoEntities
<1>7. /\ registry' \in [editor: Registries, runtime: Registries]
      /\ registry'.editor = left /\ registry'.runtime = none
  BY <1>5, <1>6 DEF Spare
<1>8. ScenesKept'
  <2>1. ModelsKept'
    BY <1>6, <1>7 DEF ModelsKept, Spare
  <2>2. BodiesKept'
    BY <1>4, <1>6, <1>7 DEF BodiesKept, Spare
  <2> QED
    BY <1>7, <2>1, <2>2 DEF ScenesKept
<1>9. "runtime" \notin S => /\ \A m \in Models : Owned(registry.runtime)[m] = 0
                            /\ \A m \in Materials : Placed(registry.runtime)[m] = 0
  <2>1. "runtime" \notin S => registry.runtime = << >>
    BY <1>1 DEF ScenesKept, BodiesKept
  <2> QED
    BY <2>1, NoEntities, EmptyScene
<1>10. /\ \A m \in Models : Owned(none)[m] = 0
       /\ \A m \in Materials : Placed(none)[m] = 0
  BY <1>6, EmptyScene
<1>11. ASSUME NEW m \in Models
       PROVE  /\ owned[m] \in Nat
              /\ Owned(left)[m] + Owned(none)[m]
                   = Owned(registry.editor)[m] + Owned(registry.runtime)[m] - owned[m]
  <2>1. PICK e \in Nat, r \in Nat : e = Owned(registry.editor)[m] /\ r = Owned(registry.runtime)[m]
    BY <1>1, SceneFacts
  <2>2. owned[m] = (IF "editor" \in S THEN e ELSE 0) + (IF "runtime" \in S THEN r ELSE 0)
    BY <1>1, <1>2, <2>1, TakenIs
  <2>3. Owned(left)[m] = (IF "editor" \in S THEN 0 ELSE e) /\ Owned(none)[m] = 0
    BY <1>10, <2>1 DEF Spare
  <2>4. "runtime" \notin S => r = 0
    BY <1>9, <2>1
  <2> QED
    BY <2>1, <2>2, <2>3, <2>4
<1>12. ASSUME NEW m \in Materials
       PROVE  /\ placed[m] \in Nat /\ PlacedInBoth[m] \in Nat
              /\ Placed(left)[m] + Placed(none)[m] = PlacedInBoth[m] - placed[m]
              /\ Placed(left)[m] + Placed(none)[m] \in Nat /\ placed[m] <= PlacedInBoth[m]
  <2>1. PICK e \in Nat, r \in Nat : e = Placed(registry.editor)[m] /\ r = Placed(registry.runtime)[m]
    BY <1>1, SceneFacts
  <2>2. placed[m] = (IF "editor" \in S THEN e ELSE 0) + (IF "runtime" \in S THEN r ELSE 0)
    BY <1>1, <1>3, <2>1, TakenIs
  <2>3. Placed(left)[m] = (IF "editor" \in S THEN 0 ELSE e) /\ Placed(none)[m] = 0
    BY <1>10, <2>1 DEF Spare
  <2>4. "runtime" \notin S => r = 0
    BY <1>9, <2>1
  <2>5. PlacedInBoth[m] = e + r
    BY <2>1 DEF PlacedInBoth
  <2> QED
    BY <2>1, <2>2, <2>3, <2>4, <2>5
<1>13. ModelsHeld'
  <2>1. Counts(Models, NoneOf(Models)) /\ Counts(Models, owned)
    BY <1>11 DEF Counts, NoneOf
  <2>2. /\ stored' \in [Models -> [refs: Int, state: ModelStates]]
        /\ \A m \in Models : stored'[m].refs = stored[m].refs + NoneOf(Models)[m] - owned[m]
    BY <1>1, <1>5, <2>1, ExchangedFacts
  <2>3. ASSUME NEW m \in Models
        PROVE  stored'[m].refs = Owned(left)[m] + Owned(none)[m] + (IF m = "cube" THEN 1 ELSE 0)
    <3>1. PICK e \in Nat, r \in Nat, o \in Nat :
            e = Owned(registry.editor)[m] /\ r = Owned(registry.runtime)[m] /\ o = owned[m]
      BY <1>1, <1>11, SceneFacts
    <3>2. stored[m].refs = e + r + (IF m = "cube" THEN 1 ELSE 0)
      BY <1>1, <3>1 DEF ModelsHeld
    <3>3. stored'[m].refs = stored[m].refs + 0 - o
      BY <2>2, <3>1 DEF NoneOf
    <3>4. Owned(left)[m] + Owned(none)[m] = e + r - o
      BY <1>11, <3>1
    <3> QED
      BY <3>1, <3>2, <3>3, <3>4
  <2> QED
    BY <1>7, <2>2, <2>3 DEF ModelsHeld
<1>14. PICK total : total = PlacedInBoth'
  OBVIOUS
<1>15. \A m \in Materials : total[m] = Placed(left)[m] + Placed(none)[m]
  BY <1>7, <1>14 DEF PlacedInBoth
<1>16. Balances(materials, NoneOf(Materials), placed, total)
  <2>1. ASSUME NEW m \in Materials
        PROVE  /\ NoneOf(Materials)[m] \in Nat /\ placed[m] \in Nat /\ total[m] \in Nat
               /\ materials[m].refs + NoneOf(Materials)[m] - placed[m]
                    = total[m] + (IF materials[m].named THEN 1 ELSE 0)
               /\ ~materials[m].born
                    => materials[m].refs + NoneOf(Materials)[m] - placed[m] = 0
    <3>1. PICK k \in Nat, p \in Nat : k = PlacedInBoth[m] /\ p = placed[m]
      BY <1>12
    <3>2. NoneOf(Materials)[m] = 0
      BY DEF NoneOf
    <3>3. PICK n \in {0, 1} : n = IF materials[m].named THEN 1 ELSE 0
      OBVIOUS
    <3>4. materials[m].refs = k + n /\ (~materials[m].born => materials[m].refs = 0)
      BY <1>1, <3>1, <3>3 DEF StandFor
    <3>5. total[m] = k - p /\ total[m] \in Nat /\ p <= k
      BY <1>12, <1>15, <3>1
    <3>6. ~materials[m].born => k = 0 /\ n = 0 /\ p = 0
      BY <3>1, <3>3, <3>4, <3>5
    <3> QED
      BY <3>1, <3>2, <3>3, <3>4, <3>5, <3>6
  <2>2. materials \in [Materials -> MaterialRecords]
    BY <1>1 DEF StandFor
  <2> QED
    BY <2>1, <2>2, Zenon DEF Balances
<1>17. MaterialsHeld'
  <2>1. /\ StandFor(materials', PlacedInBoth')
        /\ \A m \in Materials : materials'[m].named = materials[m].named
    BY <1>5, <1>14, <1>16, ReheldFacts
  <2>2. \A m \in pendingDeletions' : m \in Materials /\ materials'[m].named
    BY <1>1, <2>1
  <2> QED
    BY <2>1, <2>2 DEF MaterialsHeld, StandFor, PlacedInBoth, MaterialRecords
<1> QED
  BY <1>8, <1>13, <1>17

LEMMA StopKeeps ==
  ASSUME SessionKept, MouseKept, Stop, plays' = plays
  PROVE  SessionKept' /\ MouseKept' /\ playing' = 0 /\ bodies' = {}
<1>1. /\ playing' = 0 /\ bodies' = {} /\ loads' = LoadsLeft
      /\ selection' = Cleared /\ renaming' = None /\ typed' = None
      /\ mouse' = [ mouse EXCEPT !.game = FALSE, !.captured = FALSE, !.keyboardOff = FALSE ]
  BY DEF Stop
<1>2. Cleared \in Selections /\ Cleared.ids = << >>
  <2>1. PICK none : none = << >>
    OBVIOUS
  <2>2. Cleared = [of |-> 0, ids |-> none, primary |-> None] /\ none \in Seq(Nat)
    BY <2>1 DEF Cleared
  <2> QED
    BY <2>1, <2>2 DEF Selections
<1>3. loads' \in Seq(LoadsOf({0, playing'}))
  <2>1. PICK rest : rest = { l \in Range(loads) : l.of # playing }
    OBVIOUS
  <2>2. loads \in Seq(LoadsOf({0, playing}))
    BY DEF SessionKept
  <2>3. LoadsLeft \in Seq(rest \cap LoadsOf({0, playing}))
    <3>1. LoadsLeft = Among(loads, rest)
      BY <2>1 DEF LoadsLeft
    <3> QED
      BY <2>2, <3>1, AmongFacts
  <2>4. rest \cap LoadsOf({0, playing}) \subseteq LoadsOf({0, playing'})
    <3>1. ASSUME NEW l \in LoadsOf({0, playing}), l.of # playing
          PROVE  l \in LoadsOf({0, playing'})
      BY <3>1 DEF LoadsOf
    <3>2. \A l \in rest : l.of # playing
      BY <2>1
    <3> QED
      BY <3>1, <3>2
  <2> QED
    BY <1>1, <2>3, <2>4, MoreSequences
<1>4. SessionKept'
  BY <1>1, <1>2, <1>3 DEF SessionKept, LoadsOf
<1>5. MouseKept'
  BY <1>1 DEF MouseKept
<1> QED
  BY <1>1, <1>4, <1>5

LEMMA EndPlayKeeps ==
  ASSUME EditorInv, EndPlay
  PROVE  EditorInv'
<1>1. ScenesKept /\ SessionKept /\ MouseKept
  BY DEF EditorInv
<1>2. PICK S : S = {"runtime"}
  OBVIOUS
<1>3. PICK left : left = registry.editor
  OBVIOUS
<1>4. /\ Stop /\ Emptied(S, left) /\ pendingDeletions' = pendingDeletions /\ plays' = plays
  BY <1>2, <1>3 DEF EndPlay
<1>5. Spare(left, S)
  <2>1. left \in Registries /\ "editor" \notin S
    BY <1>1, <1>2, <1>3, SceneFacts
  <2>2. \A e \in Entities(left) : Backed(left[e]) /\ ~left[e].body
    BY <1>1, <1>3 DEF ScenesKept, ModelsKept, BodiesKept
  <2> QED
    BY <1>3, <2>1, <2>2 DEF Spare
<1>6. SessionKept' /\ MouseKept' /\ playing' = 0 /\ bodies' = {}
  BY <1>1, <1>4, StopKeeps
<1>7. ScenesKept' /\ ModelsHeld' /\ MaterialsHeld'
  BY <1>2, <1>4, <1>5, <1>6, EmptiedKeeps
<1> QED
  BY <1>6, <1>7 DEF EditorInv

LEMMA RepopulateKeeps ==
  ASSUME EditorInv, Repopulate
  PROVE  EditorInv'
<1>1. ScenesKept /\ SessionKept /\ MouseKept /\ registry.editor \in Registries
  BY SceneFacts DEF EditorInv
<1>2. PICK S : S = {"editor"} \cup (IF playing # 0 THEN {"runtime"} ELSE {})
  OBVIOUS
<1>3. PICK gone : gone = Destroyed(registry.editor, DOMAIN registry.editor)
  OBVIOUS
<1>4. PICK x : x = [ Named("a") EXCEPT !.model = "cube", !.rigid = TRUE ]
  OBVIOUS
<1>5. PICK left : left = Append(gone, x)
  OBVIOUS
<1>6. /\ IF playing # 0 THEN Stop
         ELSE UNCHANGED << playing, bodies, loads, selection, renaming, typed, mouse >>
      /\ Emptied(S, left) /\ pendingDeletions' = pendingDeletions /\ plays' = plays
  BY <1>2, <1>3, <1>4, <1>5, Zenon DEF Repopulate
<1>7. /\ x \in EntityRecords /\ x.model = "cube" /\ x.owned = FALSE /\ x.body = FALSE
      /\ \A s \in Places : x.slots[s] = None
  BY <1>4 DEF Named, EntityRecords, Models
<1>8. gone \in Registries /\ Entities(gone) = {}
  <2>1. PICK n \in Nat : DOMAIN registry.editor = 1 .. n
    BY <1>1, RegistryFacts
  <2>2. DOMAIN gone = 1 .. n /\ \A e \in 1 .. n : gone[e] = None
    BY <1>3, <2>1 DEF Destroyed
  <2>3. gone = [e \in 1 .. n |-> None]
    BY <1>3, <2>1 DEF Destroyed
  <2> QED
    BY <2>2, <2>3 DEF Registries, Entities
<1>9. Appended(left, gone, x)
  BY <1>5, <1>7, <1>8, RegistryAppended, NoneFacts
<1>10. /\ left \in Registries /\ Entities(left) = {Len(gone) + 1}
       /\ left[Len(gone) + 1] = x
       /\ OwnedChanges(left, gone, NoneOf(Models), NoneOf(Models))
       /\ PlacedChanges(left, gone, NoneOf(Materials), NoneOf(Materials))
  <2>1. \A m \in Models : NoneOf(Models)[m] = IF x.owned /\ x.model = m THEN 1 ELSE 0
    BY <1>7 DEF NoneOf
  <2> QED
    BY <1>8, <1>9, <2>1 DEF Appended
<1>11. /\ \A m \in Models : Owned(gone)[m] = 0
       /\ \A m \in Materials : Placed(gone)[m] = 0
  BY <1>8, EmptyScene
<1>12. /\ \A m \in Models : Owned(left)[m] = 0
       /\ \A m \in Materials : Placed(left)[m] = 0
  BY <1>10, <1>11 DEF OwnedChanges, PlacedChanges, NoneOf
<1>13. Spare(left, S)
  BY <1>2, <1>7, <1>10, <1>12 DEF Spare, Backed
<1>14. SessionKept' /\ MouseKept' /\ playing' = 0 /\ bodies' = {}
  <2>1. CASE playing # 0
    BY <1>1, <1>6, <2>1, StopKeeps
  <2>2. CASE playing = 0
    <3>1. UNCHANGED << playing, plays, bodies, loads, selection, renaming, typed, mouse >>
      BY <1>6, <2>2
    <3>2. SessionKept'
      BY <1>1, <3>1, SelectionsFit, SessionStays DEF Fits
    <3>3. MouseKept'
      BY <1>1, <3>1, MouseStays
    <3>4. bodies = {}
      BY <1>1, <2>2 DEF ScenesKept, BodiesKept
    <3> QED
      BY <2>2, <3>1, <3>2, <3>3, <3>4
  <2> QED
    BY <2>1, <2>2
<1>15. ScenesKept' /\ ModelsHeld' /\ MaterialsHeld'
  BY <1>2, <1>6, <1>13, <1>14, EmptiedKeeps
<1> QED
  BY <1>14, <1>15 DEF EditorInv

-----------------------------------------------------------------------------
(* It starts kept, and every step keeps it.                                 *)

LEMMA EditorStarts ==
  EditorInit => EditorInv
<1> SUFFICES ASSUME EditorInit PROVE EditorInv
  OBVIOUS
<1>1. /\ InitialScene \in Seq(EntityRecords)
      /\ \A e \in DOMAIN InitialScene :
           /\ InitialScene[e].model \in { "cube", None } /\ ~InitialScene[e].owned
           /\ ~InitialScene[e].body
           /\ \A s \in Places : InitialScene[e].slots[s] = None
  BY EditorAssumption
<1>2. PICK none : none = << >>
  OBVIOUS
<1>3. Entities(none) = {} /\ none \in Registries
  BY <1>2, NoEntities
<1>4. InitialScene \in Registries
  BY <1>1, MoreSequences DEF Registries
<1>5. Entities(InitialScene) \subseteq DOMAIN InitialScene
  BY DEF Entities
<1>6. /\ registry \in [editor: Registries, runtime: Registries]
      /\ registry.editor = InitialScene /\ registry.runtime = none
  <2>1. registry = [ editor |-> InitialScene, runtime |-> none ]
    BY <1>2 DEF EditorInit
  <2> QED
    BY <1>3, <1>4, <2>1
<1>7. ScenesKept
  <2>1. ModelsKept
    BY <1>1, <1>3, <1>5, <1>6 DEF ModelsKept, Backed
  <2>2. BodiesKept
    BY <1>1, <1>2, <1>3, <1>5, <1>6 DEF BodiesKept, EditorInit
  <2> QED
    BY <1>6, <2>1, <2>2 DEF ScenesKept
<1>8. \A m \in Models : Owned(InitialScene)[m] = 0 /\ Owned(none)[m] = 0
  BY <1>1, <1>3, <1>5, NoOwners, EmptyScene
<1>9. \A m \in Materials : Placed(InitialScene)[m] = 0 /\ Placed(none)[m] = 0
  <2>1. IsFiniteSet(Entities(InitialScene))
    BY <1>4, RegistryFacts
  <2>2. ASSUME NEW m \in Materials PROVE PlacedIn(InitialScene, Entities(InitialScene))[m] = 0
    <3>1. m # None
      BY NoneFacts DEF Materials
    <3>2. \A e \in Entities(InitialScene) : \A s \in Places : InitialScene[e].slots[s] # m
      BY <1>1, <1>5, <3>1
    <3> QED
      BY <2>1, <3>2, NothingPlaced
  <2> QED
    BY <1>3, <2>2, EmptyScene DEF Placed
<1>10. ModelsHeld
  <2>1. stored = [ m \in Models |-> [ refs |-> IF m = "cube" THEN 1 ELSE 0, state |-> "none" ] ]
    BY DEF EditorInit
  <2>2. /\ stored \in [Models -> [refs: Int, state: ModelStates]]
        /\ \A m \in Models : stored[m].refs = IF m = "cube" THEN 1 ELSE 0
    BY <2>1 DEF ModelStates
  <2> QED
    BY <1>6, <1>8, <2>2 DEF ModelsHeld
<1>11. MaterialsHeld
  <2>1. /\ materials = [ m \in Materials |-> [ born |-> FALSE, refs |-> 0, named |-> FALSE ] ]
        /\ pendingDeletions = {}
    BY DEF EditorInit
  <2>2. /\ materials \in [Materials -> [born: BOOLEAN, refs: Int, named: BOOLEAN]]
        /\ \A m \in Materials : materials[m].refs = 0 /\ materials[m].named = FALSE
    BY <2>1
  <2> QED
    BY <1>6, <1>9, <2>1, <2>2 DEF MaterialsHeld
<1>12. SessionKept
  <2>1. Cleared \in Selections /\ Cleared.ids = << >>
    <3>1. Cleared = [of |-> 0, ids |-> none, primary |-> None] /\ none \in Seq(Nat)
      BY <1>2 DEF Cleared
    <3> QED
      BY <1>2, <3>1 DEF Selections
  <2>2. << >> \in Seq(LoadsOf({0, playing}))
    OBVIOUS
  <2> QED
    BY <2>1, <2>2 DEF SessionKept, EditorInit
<1>13. MouseKept
  <2>1. mouse = [ captured |-> FALSE, game |-> FALSE, dragging |-> FALSE,
                  fullscreen |-> FALSE, keyboardOff |-> FALSE ]
    BY DEF EditorInit
  <2> QED
    BY <2>1 DEF MouseKept
<1> QED
  BY <1>7, <1>10, <1>11, <1>12, <1>13 DEF EditorInv

LEMMA EditorSteps ==
  EditorInv /\ [EditorNext]_editorVars => EditorInv'
<1> SUFFICES ASSUME EditorInv, [EditorNext]_editorVars PROVE EditorInv'
  OBVIOUS
<1>1. CASE UNCHANGED editorVars
  <2>1. /\ UNCHANGED << registry, bodies, playing, stored, materials, pendingDeletions >>
        /\ UNCHANGED << plays, renaming, typed, loads, selection, mouse >>
    BY <1>1 DEF editorVars
  <2> QED
    BY <2>1 DEF EditorInv, ScenesKept, ModelsKept, BodiesKept, ModelsHeld, MaterialsHeld,
                SessionKept, MouseKept, LoadsOf
<1>2. CASE \E under \in Entities(Reg) \cup { None } : AddChild(under)
  BY <1>2, AddChildKeeps
<1>3. CASE Duplicate
  BY <1>3, DuplicateKeeps
<1>4. CASE DeleteSelected
  BY <1>4, DeleteSelectedKeeps
<1>5. CASE \E e \in Range(RowEntities), under \in Range(RowEntities) \cup { None } :
             Reparent(e, under)
  BY <1>5, ReparentKeeps
<1>6. CASE SelectionRequests
  BY <1>6, SelectionRequestsKeep
<1>7. CASE LookAround \/ TypeName \/ OpenBrowser \/ \E e \in Range(RowEntities) : BeginRename(e)
  BY <1>7, LookingKeeps
<1>8. CASE EndRename \/ CommitName
  BY <1>8, NamesKeep
<1>9. CASE CloseSection
  BY <1>9, CloseSectionKeeps
<1>10. CASE AddComponent
  BY <1>10, AddComponentKeeps
<1>11. CASE \E m \in Models : ChooseModel(m)
  BY <1>11, ChooseModelKeeps
<1>12. CASE \E s \in Places : ChooseMaterial(s) \/ SaveAsAsset(s)
  BY <1>12, ChooseMaterialKeeps, SaveAsAssetKeeps
<1>13. CASE NewMaterial \/ \E m \in Materials : DeleteOrRestore(m) \/ CommitDeletion(m)
  BY <1>13, AssetPanelKeeps
<1>14. CASE Pick
  BY <1>14, PickKeeps
<1>15. CASE DropFile
  BY <1>15, SpawnKeeps DEF DropFile
<1>16. CASE ModelArrives
  BY <1>16, ModelArrivesKeeps
<1>17. CASE UpdateModelLoads
  BY <1>17, UpdateModelLoadsKeeps
<1>18. CASE Play
  BY <1>18, PlayKeeps
<1>19. CASE EndPlay
  BY <1>19, EndPlayKeeps
<1>20. CASE Repopulate
  BY <1>20, RepopulateKeeps
<1>21. CASE Shoot
  BY <1>21, ShootKeeps
<1>22. CASE \E e \in Entities(Reg) : Expire(e)
  BY <1>22, ExpireKeeps
<1>23. CASE PressMouse \/ ReleaseMouse \/ SetFullscreen \/ (Escape /\ mouse.game)
  BY <1>23, MouseKeeps
<1>24. CASE PressStop \/ FocusLost \/ (Escape /\ ~mouse.game)
  BY <1>24, EndPlayKeeps DEF PressStop, FocusLost, Escape
<1> QED
  BY <1>1, <1>2, <1>3, <1>4, <1>5, <1>6, <1>7, <1>8, <1>9, <1>10, <1>11, <1>12, <1>13, <1>14,
     <1>15, <1>16, <1>17, <1>18, <1>19, <1>20, <1>21, <1>22, <1>23, <1>24 DEF EditorNext

LEMMA EditorAlways ==
  EditorSpec => []EditorInv
BY EditorStarts, EditorSteps, PTL DEF EditorSpec

LEMMA RefsFollow ==
  EditorInv => RefsAreHeld
<1> SUFFICES ASSUME EditorInv PROVE RefsAreHeld
  OBVIOUS
<1>1. ScenesKept /\ ModelsHeld /\ MaterialsHeld
  BY DEF EditorInv
<1>2. PICK S : S = DOMAIN registry
  OBVIOUS
<1>3. S = {"editor", "runtime"}
  BY <1>1, <1>2 DEF ScenesKept
<1>4. /\ \A m \in Models : Summed(Models, OwnedIn, S)[m]
                             = Owned(registry.editor)[m] + Owned(registry.runtime)[m]
      /\ \A m \in Materials : Summed(Materials, PlacedIn, S)[m]
                             = Placed(registry.editor)[m] + Placed(registry.runtime)[m]
  BY <1>1, <1>3, TakenIs
<1>5. \A m \in Models :
        stored[m].refs = Summed(Models, OwnedIn, S)[m] + (IF m = "cube" THEN 1 ELSE 0)
  BY <1>1, <1>4 DEF ModelsHeld
<1>6. \A m \in Materials :
        materials[m].refs = Summed(Materials, PlacedIn, S)[m]
                              + (IF materials[m].named THEN 1 ELSE 0)
  BY <1>1, <1>4 DEF MaterialsHeld
<1>7. ASSUME NEW m \in Models
      PROVE  /\ Owned(registry.editor)[m] \in Nat /\ Owned(registry.runtime)[m] \in Nat
             /\ stored[m].refs = Owned(registry.editor)[m] + Owned(registry.runtime)[m]
                                   + (IF m = "cube" THEN 1 ELSE 0)
  BY <1>1, SceneFacts DEF ModelsHeld
<1>8. ASSUME NEW reg, reg \in {registry.editor, registry.runtime}, NEW e \in Entities(reg),
             reg[e].owned, reg[e].model \in Models
      PROVE  stored[reg[e].model].refs > 0
  <2>1. PICK m \in Models : m = reg[e].model
    BY <1>8
  <2>2. IsFiniteSet(Entities(reg))
    BY <1>1, <1>8, SceneFacts, RegistryFacts
  <2>3. Owned(reg)[m] >= 1
    BY <1>8, <2>1, <2>2, OwnerCounts DEF Owned
  <2>4. PICK a \in Nat, b \in Nat : /\ a = Owned(registry.editor)[m] /\ b = Owned(registry.runtime)[m]
                                    /\ (a >= 1 \/ b >= 1)
    BY <1>7, <1>8, <2>3
  <2>5. stored[m].refs = a + b + (IF m = "cube" THEN 1 ELSE 0)
    BY <1>7, <2>4
  <2>6. stored[m].refs > 0
    BY <2>4, <2>5
  <2> QED
    BY <2>1, <2>6
<1>9. stored["cube"].refs > 0
  <2>1. PICK a \in Nat, b \in Nat : stored["cube"].refs = a + b + 1
    BY <1>7 DEF Models
  <2> QED
    BY <2>1
<1>10. ASSUME NEW s \in S, NEW e \in Entities(registry[s]), registry[s][e].model # None
       PROVE  stored[registry[s][e].model].refs > 0
  <2>1. PICK reg : reg = registry[s]
    OBVIOUS
  <2>2. reg \in {registry.editor, registry.runtime} /\ reg \in Registries
    BY <1>1, <1>3, <2>1, SceneFacts
  <2>3. reg[e] \in EntityRecords
    BY <1>10, <2>1, <2>2, RegistryFacts
  <2>4. reg[e].model \in Models
    BY <1>10, <2>1, <2>3 DEF EntityRecords
  <2>5. CASE Backed(reg[e])
    <3>1. reg[e].model = "cube" \/ reg[e].owned
      BY <1>10, <2>1, <2>5 DEF Backed
    <3> QED
      BY <1>8, <1>9, <1>10, <2>1, <2>2, <2>4, <3>1
  <2>6. CASE \E x \in Entities(registry.editor) :
               registry.editor[x].owned /\ registry.editor[x].model = reg[e].model
    <3>1. PICK x \in Entities(registry.editor) :
            registry.editor[x].owned /\ registry.editor[x].model = reg[e].model
      BY <2>6
    <3>2. PICK ed : ed = registry.editor
      OBVIOUS
    <3>3. stored[ed[x].model].refs > 0
      BY <1>8, <2>4, <3>1, <3>2
    <3> QED
      BY <2>1, <3>1, <3>2, <3>3
  <2> QED
    BY <1>1, <1>10, <2>1, <2>2, <2>5, <2>6 DEF ScenesKept, ModelsKept
<1> QED
  BY <1>2, <1>5, <1>6, <1>10 DEF RefsAreHeld

(* Whatever is edited, played, stopped, spawned, shot or loaded, in whatever   *)
(* order, a model that an entity shows is still referred to, and a material     *)
(* has as many references as places entities of the two scenes give it, and    *)
(* its asset's name: nothing is freed while it is drawn, and nothing leaks.    *)
THEOREM EditorReferences ==
  EditorSpec => []RefsAreHeld
BY EditorAlways, RefsFollow, PTL

LEMMA PlayFollows ==
  EditorInv => PlayLeavesNothing
<1> SUFFICES ASSUME EditorInv PROVE PlayLeavesNothing
  OBVIOUS
<1>1. ScenesKept /\ SessionKept /\ MouseKept
  BY DEF EditorInv
<1>2. \A l \in Range(loads) : l.of \in {0, playing}
  <2>1. loads \in Seq(LoadsOf({0, playing}))
    BY <1>1 DEF SessionKept
  <2>2. \A i \in DOMAIN loads : loads[i] \in LoadsOf({0, playing})
    BY <2>1
  <2> QED
    BY <2>2 DEF Range, LoadsOf
<1>3. \A e \in Entities(Reg) : Reg[e].body => e \in bodies
  BY <1>1, ShownIsEmbodied DEF Embodied
<1>4. playing = 0 => bodies = {} /\ registry.runtime = << >>
  BY <1>1 DEF ScenesKept, BodiesKept
<1>5. /\ selection.ids # << >> => selection.of = playing
      /\ \A x \in { renaming, typed } \ { None } : x.of = playing
  BY <1>1 DEF SessionKept
<1>6. /\ mouse.captured =>
           mouse.dragging \/ (playing # 0 /\ (mouse.game \/ mouse.fullscreen))
      /\ mouse.keyboardOff \/ mouse.game => playing # 0
  BY <1>1 DEF MouseKept
<1> QED
  BY <1>2, <1>3, <1>4, <1>5, <1>6 DEF PlayLeavesNothing

(* Stopping leaves nothing of what was played behind: no body, no entity of   *)
(* the scene that was played, nothing selected, renamed or loading in it, and   *)
(* neither the mouse nor the keyboard taken from the editor.                    *)
THEOREM PlayLeaves ==
  EditorSpec => []PlayLeavesNothing
BY EditorAlways, PlayFollows, PTL
=============================================================================
