----------------------- MODULE RendererResourcesProofs -----------------------
(***************************************************************************)
(* For any textures, materials, queues and frames in flight: whoever asks  *)
(* for a texture gets it as it was then or newer and is not forgotten, and *)
(* a frame's draws see every material they were recorded with.             *)
(***************************************************************************)
EXTENDS RendererResources, TLAPS

IsFile(t) == TextureKind[t] = "file"

(* What a job knows of its source never gets ahead of it.                    *)
JobKnows(job) ==
  /\ job.asked <= version[job.texture]
  /\ job.stage \in {"identified", "missed"} /\ IsFile(job.texture) =>
       job.asked <= job.identity /\ job.identity <= version[job.texture]
  /\ job.stage = "done" => job.pixels = Failed \/ job.pixels >= job.asked

(* The pixels kept under an identity are of that version or of a later one:  *)
(* a file may change between the look at it and the decoding.                *)
CachedLater(t, v) ==
  cache[t][v] # Unknown => cache[t][v] >= IF IsFile(t) THEN v ELSE 1

JobsKnow == \A i \in DOMAIN pending : pending[i] \in Jobs /\ JobKnows(pending[i])

TexturesInv ==
  /\ version \in [Textures -> Versions]
  /\ \A t \in Textures : ~IsFile(t) => version[t] = 1
  /\ cache \in [Textures -> [Versions -> Versions \cup {Unknown}]]
  /\ shown \in [Indexes -> Versions \cup {Unknown, Failed, Waiting}]
  /\ JobsKnow
  /\ \A t \in Textures, v \in Versions : CachedLater(t, v)
  /\ RequestsAreAnswered

(* A frame was submitted to the graphics queue with its number.              *)
FramesSubmitted ==
  /\ phase \in Phases
  /\ frameNumber \in Nat
  /\ value \in [Queues -> Nat]
  /\ done \in [Queues -> Nat]
  /\ phase \in {"prepared", "drawn"} => frameNumber > 0
  /\ value[Graphics] =
       IF phase \in {"prepared", "drawn"} THEN frameNumber - 1 ELSE frameNumber
  /\ done[Graphics] <= value[Graphics]
  /\ \A s \in inFlight : s.queue = Graphics => s.frame = s.value
  /\ \A v \in done[Graphics] + 1 .. value[Graphics] :
       \E s \in inFlight : s.queue = Graphics /\ s.value = v

CopyType == [slots: SUBSET Materials, sees: [Materials -> Nat]]

(* A frame up to f that the GPU has yet to finish copies the material.       *)
CopyToCome(m, f) ==
  \E g \in 1 .. f : done[Graphics] < g /\ m \in copies[g].slots

MaterialsTyped ==
  /\ updates \in Nat
  /\ material \in [Materials -> Nat]
  /\ upload \in [Materials -> Nat]
  /\ table \in [Materials -> Nat]
  /\ dirty \in SUBSET Materials
  /\ copies \in Seq(CopyType)
  /\ Len(copies) = IF phase = "prepared" THEN frameNumber - 1 ELSE frameNumber

(* The table lags behind the upload buffer, the buffer behind the materials, *)
(* and somebody is always about to make up for it.                           *)
TableCatchesUp ==
  \A m \in Materials :
    /\ table[m] <= upload[m]
    /\ upload[m] <= material[m]
    /\ material[m] <= updates
    /\ m \in dirty \/ upload[m] = material[m]
    /\ table[m] = upload[m] \/ CopyToCome(m, Len(copies))

FramesSee ==
  \A f \in 1 .. Len(copies) : \A m \in Materials :
    /\ copies[f].sees[m] <= upload[m]
    /\ copies[f].sees[m] <= table[m] \/ CopyToCome(m, f)

MaterialsInv ==
  FramesSubmitted /\ MaterialsTyped /\ TableCatchesUp /\ FramesSee

-----------------------------------------------------------------------------
(* Textures.                                                                 *)

LEMMA Kinds ==
  /\ MaxEdits \in Nat
  /\ \A t \in Textures : TextureKind[t] \in {"file", "memory", "cooked"}
  /\ Versions = 0 .. MaxEdits + 1
  /\ Versions \subseteq Nat
  /\ Unknown = -1 /\ Failed = -2 /\ Waiting = -3
BY TexturesAssumption DEF Versions, Unknown, Failed, Waiting

LEMMA JobFields ==
  ASSUME NEW job \in Jobs
  PROVE  /\ job.texture \in Textures /\ job.asked \in Versions
         /\ job.stage \in Stages /\ job.identity \in Versions
         /\ job.pixels \in Versions \cup {Unknown, Failed}
BY DEF Jobs

LEMMA TexturesInitially == Init => TexturesInv
<1>. SUFFICES ASSUME Init PROVE TexturesInv
  OBVIOUS
<1>1. version \in [Textures -> Versions] /\ \A t \in Textures : ~IsFile(t) => version[t] = 1
  <2>1. version \in [Textures -> {0, 1}] /\ \A t \in Textures : TextureKind[t] # "file" => version[t] = 1
    BY DEF Init, TexturesInit
  <2>2. 0 \in Versions /\ 1 \in Versions
    BY Kinds
  <2>. QED  BY <2>1, <2>2 DEF IsFile
<1>2. /\ cache = [t \in Textures |-> [v \in Versions |-> Unknown]]
      /\ shown = [i \in Indexes |-> Unknown] /\ pending = << >>
  BY DEF Init, TexturesInit
<1>3. /\ cache \in [Textures -> [Versions -> Versions \cup {Unknown}]]
      /\ shown \in [Indexes -> Versions \cup {Unknown, Failed, Waiting}]
      /\ \A i \in DOMAIN pending : FALSE
  BY <1>2
<1>4. RequestsAreAnswered
  BY <1>2, Kinds DEF RequestsAreAnswered
<1>5. \A t \in Textures, v \in Versions : CachedLater(t, v)
  BY <1>2 DEF CachedLater
<1>. QED  BY <1>1, <1>3, <1>4, <1>5 DEF TexturesInv, JobsKnow

(* What ready jobs leave: their pixels are shown and the others remain.      *)
ResultsTaken == pending' = PendingAfter /\ shown' = ShownAfter

LEMMA StepsOfTextures ==
  ASSUME [Next]_vars
  PROVE  \/ UNCHANGED << pending, shown, version, cache >>
         \/ \E t \in Textures : RequestTexture(t) \/ SourceIsEdited(t)
         \/ \E i \in DOMAIN pending : JobIdentifies(i) \/ JobLooksUp(i) \/ JobDecodes(i)
         \/ Restart
         \/ ResultsTaken /\ UNCHANGED << version, cache >>
<1>1. CASE UNCHANGED vars
  BY <1>1 DEF vars, textureVars
<1>2. CASE LayoutChanges
  BY <1>2 DEF LayoutChanges, textureVars
<1>3. CASE MaterialStep
  BY <1>3 DEF MaterialStep, CreateMaterial, UpdateMaterial, RetainMaterial, ReleaseMaterial,
              DestroyMaterial, MaterialChanges, textureVars
<1>4. CASE TextureStep
  <2>1. CASE Flush
    <3>1. Ready = DOMAIN pending /\ pending' = << >> /\ shown' = ShownAfter
          /\ UNCHANGED << version, cache >>
      BY <2>1 DEF Flush
    <3>2. PendingAfter = << >>
      BY <3>1 DEF PendingAfter, Restrict
    <3>. QED  BY <3>1, <3>2 DEF ResultsTaken
  <2>. QED  BY <1>4, <2>1 DEF TextureStep, WorkerStep
<1>5. CASE EnvironmentStep
  BY <1>5 DEF EnvironmentStep, textureVars
<1>6. CASE FrameStep
  BY <1>6 DEF FrameStep, textureVars
<1>7. CASE Draw
  BY <1>7 DEF Draw, DrawsFrame, ProcessedReady, ResultsTaken
<1>8. CASE DrawFails
  BY <1>8 DEF DrawFails, textureVars
<1>9. CASE \E q \in Queues : GpuCopies(q)
  BY <1>9 DEF GpuCopies, textureVars
<1>. QED  BY <1>1, <1>2, <1>3, <1>4, <1>5, <1>6, <1>7, <1>8, <1>9 DEF Next

LEMMA RequestKeepsTextures ==
  ASSUME TexturesInv, NEW t \in Textures, RequestTexture(t)
  PROVE  TexturesInv'
<1>1. PICK i : i = NewIndex(store)
  OBVIOUS
<1>2. /\ pending' = [k \in DOMAIN pending \cup {i} |-> IF k = i THEN QueuedJob(t) ELSE pending[k]]
      /\ shown' = [shown EXCEPT ![i] = Waiting]
      /\ version' = version /\ cache' = cache
  BY <1>1 DEF RequestTexture
<1>3. QueuedJob(t) \in Jobs /\ JobKnows(QueuedJob(t))
  <2>1. version[t] \in Versions /\ 0 \in Versions
    BY Kinds DEF TexturesInv
  <2>. QED  BY <2>1, Kinds DEF QueuedJob, Jobs, JobKnows, Stages
<1>4. JobsKnow'
  BY <1>2, <1>3 DEF TexturesInv, JobsKnow, JobKnows
<1>5. RequestsAreAnswered'
  BY <1>2 DEF TexturesInv, RequestsAreAnswered
<1>6. shown' \in [Indexes -> Versions \cup {Unknown, Failed, Waiting}]
  BY <1>2 DEF TexturesInv
<1>7. \A u \in Textures, w \in Versions : CachedLater(u, w)'
  BY <1>2 DEF TexturesInv, CachedLater
<1>. QED  BY <1>2, <1>4, <1>5, <1>6, <1>7 DEF TexturesInv

LEMMA EditKeepsTextures ==
  ASSUME TexturesInv, NEW t \in Textures, SourceIsEdited(t)
  PROVE  TexturesInv'
<1>1. /\ IsFile(t) /\ version[t] <= MaxEdits /\ version' = [version EXCEPT ![t] = @ + 1]
      /\ pending' = pending /\ shown' = shown /\ cache' = cache
  BY DEF SourceIsEdited, IsFile
<1>2. version[t] \in Nat /\ version[t] + 1 \in Versions
  BY <1>1, Kinds DEF TexturesInv
<1>3. version' \in [Textures -> Versions] /\ \A u \in Textures : version[u] <= version'[u]
  BY <1>1, <1>2, Kinds DEF TexturesInv
<1>4. ASSUME NEW i \in DOMAIN pending PROVE JobKnows(pending[i])'
  <2>1. PICK job \in Jobs : job = pending[i]
    BY DEF TexturesInv, JobsKnow
  <2>2. JobKnows(job)
    BY <2>1 DEF TexturesInv, JobsKnow
  <2>3. PICK from \in Nat, to \in Nat : from = version[job.texture] /\ to = version'[job.texture] /\ from <= to
    BY <1>3, JobFields, Kinds DEF TexturesInv
  <2>. QED  BY <1>1, <2>1, <2>2, <2>3, JobFields, Kinds DEF JobKnows
<1>5. \A u \in Textures : ~IsFile(u) => version'[u] = 1
  BY <1>1 DEF TexturesInv
<1>. QED  BY <1>1, <1>3, <1>4, <1>5 DEF TexturesInv, JobsKnow, CachedLater, RequestsAreAnswered

LEMMA WorkKeepsTextures ==
  ASSUME TexturesInv, NEW i \in DOMAIN pending,
         JobIdentifies(i) \/ JobLooksUp(i) \/ JobDecodes(i)
  PROVE  TexturesInv'
<1>1. shown' = shown /\ version' = version
  BY DEF JobIdentifies, JobLooksUp, JobDecodes
<1>2. PICK job \in Jobs : job = pending[i] /\ JobKnows(job)
  BY DEF TexturesInv, JobsKnow
<1>3. PICK t \in Textures, v \in Versions :
        t = job.texture /\ v = version[t] /\ (~IsFile(t) => v = 1)
  BY <1>2, JobFields DEF TexturesInv
<1>4. SUFFICES ASSUME NEW next \in Jobs, pending' = [pending EXCEPT ![i] = next], JobKnows(next),
                      cache' \in [Textures -> [Versions -> Versions \cup {Unknown}]],
                      \A u \in Textures, w \in Versions : CachedLater(u, w)'
               PROVE  TexturesInv'
  <2>1. CASE JobIdentifies(i)
    <3>1. PICK next : next = IF v = 0 \/ TextureKind[t] = "cooked"
            THEN [job EXCEPT !.stage = "done", !.pixels = IF v = 0 THEN Failed ELSE v]
            ELSE [job EXCEPT !.stage = "identified", !.identity = Identity(t)]
      OBVIOUS
    <3>2. pending' = [pending EXCEPT ![i] = next] /\ cache' = cache
      BY <1>2, <1>3, <2>1, <3>1 DEF JobIdentifies
    <3>3. next \in Jobs /\ JobKnows(next)
      <4>1. Identity(t) \in Versions
        BY <1>3, Kinds DEF Identity
      <4>2. next \in Jobs
        BY <3>1, <4>1 DEF Jobs, Stages
      <4>3. job.asked <= v /\ (IsFile(t) => Identity(t) = v)
        BY <1>2, <1>3 DEF JobKnows, Identity, IsFile
      <4>4. CASE v = 0 \/ TextureKind[t] = "cooked"
        <5>1. /\ next.texture = t /\ next.asked = job.asked /\ next.stage = "done"
              /\ next.pixels = IF v = 0 THEN Failed ELSE v
          BY <1>3, <3>1, <4>4 DEF Jobs
        <5>. QED  BY <1>3, <4>2, <4>3, <5>1, JobFields, Kinds DEF JobKnows
      <4>5. CASE ~(v = 0 \/ TextureKind[t] = "cooked")
        <5>1. /\ next.texture = t /\ next.asked = job.asked /\ next.stage = "identified"
              /\ next.identity = Identity(t)
          BY <1>3, <3>1, <4>5 DEF Jobs
        <5>. QED  BY <1>3, <4>2, <4>3, <5>1, JobFields, Kinds DEF JobKnows
      <4>. QED  BY <4>2, <4>4, <4>5
    <3>. QED  BY <1>4, <3>2, <3>3 DEF TexturesInv, CachedLater
  <2>2. CASE JobLooksUp(i)
    <3>1. cache' = cache /\ job.stage = "identified"
      BY <1>2, <2>2 DEF JobLooksUp, JobAt
    <3>2. PICK found \in Versions \cup {Unknown} : found = cache[job.texture][job.identity]
      BY JobFields DEF TexturesInv
    <3>3. CASE found # Unknown /\ pending' = [pending EXCEPT ![i].stage = "done", ![i].pixels = found]
      <4>1. PICK next : next = [job EXCEPT !.stage = "done", !.pixels = found]
        OBVIOUS
      <4>2. pending' = [pending EXCEPT ![i] = next]
        BY <1>2, <3>3, <4>1
      <4>3. next \in Jobs
        BY <4>1 DEF Jobs, Stages
      <4>4. found >= (IF IsFile(t) THEN job.identity ELSE 1)
        BY <1>3, <3>2, <3>3, JobFields DEF TexturesInv, CachedLater
      <4>5. found >= job.asked
        BY <1>2, <1>3, <3>1, <3>2, <3>3, <4>4, JobFields, Kinds DEF JobKnows
      <4>6. JobKnows(next)
        BY <1>2, <4>1, <4>5, JobFields DEF JobKnows, Jobs
      <4>. QED  BY <1>4, <3>1, <4>2, <4>3, <4>6 DEF TexturesInv, CachedLater
    <3>4. CASE pending' = [pending EXCEPT ![i].stage = "missed"]
      <4>1. PICK next : next = [job EXCEPT !.stage = "missed"]
        OBVIOUS
      <4>2. pending' = [pending EXCEPT ![i] = next]
        BY <1>2, <3>4, <4>1
      <4>3. next \in Jobs /\ JobKnows(next)
        BY <1>2, <3>1, <4>1 DEF Jobs, Stages, JobKnows
      <4>. QED  BY <1>4, <3>1, <4>2, <4>3 DEF TexturesInv, CachedLater
    <3>. QED  BY <1>2, <2>2, <3>2, <3>3, <3>4 DEF JobLooksUp
  <2>3. CASE JobDecodes(i)
    <3>1. PICK decodes \in BOOLEAN, written \in BOOLEAN :
            /\ job.stage = "missed"
            /\ pending' = [pending EXCEPT ![i].stage = "done",
                                          ![i].pixels = IF decodes THEN v ELSE Failed]
            /\ cache' = IF decodes /\ written THEN [cache EXCEPT ![t][job.identity] = v] ELSE cache
      BY <1>2, <1>3, <2>3 DEF JobDecodes, JobAt
    <3>2. PICK next : next = [job EXCEPT !.stage = "done", !.pixels = IF decodes THEN v ELSE Failed]
      OBVIOUS
    <3>3. pending' = [pending EXCEPT ![i] = next]
      BY <1>2, <3>1, <3>2
    <3>4. next \in Jobs /\ JobKnows(next)
      <4>1. job.asked <= v
        BY <1>2, <1>3 DEF JobKnows
      <4>. QED  BY <1>3, <3>2, <4>1, JobFields, Kinds DEF Jobs, Stages, JobKnows
    <3>5. cache' \in [Textures -> [Versions -> Versions \cup {Unknown}]]
      BY <3>1, JobFields DEF TexturesInv
    <3>6. ASSUME NEW u \in Textures, NEW w \in Versions PROVE CachedLater(u, w)'
      <4>1. CachedLater(u, w)
        BY DEF TexturesInv
      <4>2. CASE cache'[u][w] = cache[u][w]
        BY <4>1, <4>2 DEF CachedLater
      <4>3. CASE cache'[u][w] # cache[u][w]
        <5>1. u = t /\ w = job.identity /\ cache'[u][w] = v
          BY <3>1, <4>3, JobFields DEF TexturesInv
        <5>2. v >= IF IsFile(t) THEN w ELSE 1
          BY <1>2, <1>3, <3>1, <5>1, Kinds DEF JobKnows
        <5>. QED  BY <5>1, <5>2 DEF CachedLater
      <4>. QED  BY <4>2, <4>3
    <3>. QED  BY <1>4, <3>3, <3>4, <3>5, <3>6
  <2>. QED  BY <2>1, <2>2, <2>3
<1>5. DOMAIN pending' = DOMAIN pending /\ JobsKnow'
  <2>1. \A k \in DOMAIN pending : pending'[k] = IF k = i THEN next ELSE pending[k]
    BY <1>4
  <2>. QED  BY <1>1, <1>4, <2>1 DEF TexturesInv, JobsKnow, JobKnows
<1>. QED  BY <1>1, <1>4, <1>5 DEF TexturesInv, RequestsAreAnswered

LEMMA ResultsKeepTextures ==
  ASSUME TexturesInv, ResultsTaken, UNCHANGED << version, cache >>
  PROVE  TexturesInv'
<1>1. /\ DOMAIN pending' = DOMAIN pending \ Ready
      /\ \A i \in DOMAIN pending' : pending'[i] = pending[i] /\ i \in DOMAIN pending
  BY DEF ResultsTaken, PendingAfter, Restrict
<1>2. \A i \in Indexes : shown'[i] = IF i \in Ready THEN pending[i].pixels ELSE shown[i]
  BY DEF ResultsTaken, ShownAfter
<1>3. \A i \in Ready : pending[i].pixels \in Versions \cup {Unknown, Failed}
  BY JobFields DEF Ready, TexturesInv, JobsKnow
<1>4. shown' \in [Indexes -> Versions \cup {Unknown, Failed, Waiting}]
  BY <1>3 DEF ResultsTaken, ShownAfter, TexturesInv
<1>5. ASSUME NEW i \in Indexes, shown'[i] = Waiting PROVE i \in DOMAIN pending'
  <2>1. i \notin Ready
    BY <1>2, <1>3, <1>5, Kinds
  <2>. QED  BY <1>1, <1>2, <1>5, <2>1 DEF TexturesInv, RequestsAreAnswered
<1>. QED  BY <1>1, <1>4, <1>5 DEF TexturesInv, JobsKnow, JobKnows, CachedLater, RequestsAreAnswered

LEMMA TexturesStep == TexturesInv /\ [Next]_vars => TexturesInv'
<1>. SUFFICES ASSUME TexturesInv, [Next]_vars PROVE TexturesInv'
  OBVIOUS
<1>1. CASE UNCHANGED << pending, shown, version, cache >>
  BY <1>1 DEF TexturesInv, JobsKnow, JobKnows, CachedLater, RequestsAreAnswered
<1>2. CASE Restart
  <2>1. /\ pending' = << >> /\ shown' = [i \in Indexes |-> Unknown]
        /\ version' = version /\ cache' = cache
    BY <1>2 DEF Restart
  <2>2. RequestsAreAnswered' /\ \A i \in DOMAIN pending' : FALSE
    BY <2>1, Kinds DEF RequestsAreAnswered
  <2>. QED  BY <2>1, <2>2 DEF TexturesInv, JobsKnow, CachedLater
<1>. QED  BY <1>1, <1>2, StepsOfTextures, RequestKeepsTextures, EditKeepsTextures,
             WorkKeepsTextures, ResultsKeepTextures

(* What a job has found is never older than its source was when it was asked *)
(* for, through the cache and through edits; and an index that still shows   *)
(* its fallback has its job.                                                 *)
THEOREM AskedForArrives == Spec => []TexturesArrive
<1>1. Spec => []TexturesInv
  BY TexturesInitially, TexturesStep, PTL DEF Spec
<1>2. TexturesInv => TexturesArrive
  BY DEF TexturesInv, JobsKnow, JobKnows, TexturesArrive, TexturesAreFresh, RequestsAreAnswered, Ready
<1>. QED  BY <1>1, <1>2, PTL

-----------------------------------------------------------------------------
(* Materials.                                                                *)

loopState == << phase, frameNumber, value, done, inFlight >>
tableState == << material, dirty, upload, table, copies >>

(* A user of a material has it written, or cleared.                          *)
Written(m) ==
  /\ material' = [material EXCEPT ![m] = updates + 1]
  /\ updates' = updates + 1
  /\ dirty' = dirty \cup {m}
  /\ UNCHANGED << loopState, upload, table, copies >>

(* A frame that draws, or fails to, copies what changed.                     *)
Copied ==
  /\ phase = "prepared"
  /\ phase' = "drawn"
  /\ upload' = [m \in Materials |-> IF m \in dirty THEN material[m] ELSE upload[m]]
  /\ copies' = Append(copies, [slots |-> dirty, sees |-> material])
  /\ dirty' = {}
  /\ UNCHANGED << frameNumber, value, done, inFlight, material, table, updates >>

LEMMA StepsOfMaterials ==
  ASSUME [Next]_vars
  PROVE  \/ UNCHANGED << loopState, tableState >> /\ updates' \in {updates, updates + 1}
         \/ \E m \in Materials : Written(m)
         \/ (BeginFrame \/ PrepareFrame) /\ UNCHANGED << tableState, updates >>
         \/ \E used \in SUBSET Queues : /\ Graphics \in used /\ EndFrame(used)
                                        /\ UNCHANGED << tableState, updates >>
         \/ Copied
         \/ \E q \in Queues : GpuCopies(q)
<1>1. CASE UNCHANGED vars
  BY <1>1 DEF vars, loopVars, resourceVars, loopState, tableState
<1>2. CASE LayoutChanges
  BY <1>2 DEF LayoutChanges, Update, loopVars, materialVars, loopState, tableState
<1>3. CASE MaterialStep
  <2>1. PICK m \in Materials : \/ CreateMaterial(m) \/ UpdateMaterial(m) \/ DestroyMaterial(m)
                               \/ RetainMaterial(m) \/ ReleaseMaterial(m)
    BY <1>3 DEF MaterialStep
  <2>2. CASE CreateMaterial(m) \/ UpdateMaterial(m) \/ DestroyMaterial(m)
    <3>1. Written(m)
      BY <2>2 DEF CreateMaterial, UpdateMaterial, DestroyMaterial, MaterialChanges, Update,
                  Written, loopVars, loopState
    <3>. QED  BY <3>1
  <2>3. CASE RetainMaterial(m) \/ ReleaseMaterial(m)
    BY <2>3 DEF RetainMaterial, ReleaseMaterial, Update, loopVars, loopState, tableState
  <2>. QED  BY <2>1, <2>2, <2>3
<1>4. CASE TextureStep
  BY <1>4 DEF TextureStep, loopVars, resourceVars, loopState, tableState
<1>5. CASE EnvironmentStep
  BY <1>5 DEF EnvironmentStep, loopVars, resourceVars, loopState, tableState
<1>6. CASE FrameStep
  BY <1>6 DEF FrameStep, resourceVars, tableState
<1>7. CASE Draw
  <2>1. MaterialsPrepared /\ updates' = updates
    BY <1>7 DEF Draw
  <2>2. phase = "prepared" /\ phase' = "drawn" /\ UNCHANGED << frameNumber, value, done, inFlight >>
    BY <1>7 DEF Draw, DrawsFrame, DrawFrame
  <2>. QED  BY <2>1, <2>2 DEF MaterialsPrepared, Copied
<1>8. CASE DrawFails
  BY <1>8 DEF DrawFails, DrawFrame, MaterialsPrepared, Copied
<1>9. CASE \E q \in Queues : GpuCopies(q)
  BY <1>9
<1>. QED  BY <1>1, <1>2, <1>3, <1>4, <1>5, <1>6, <1>7, <1>8, <1>9 DEF Next

LEMMA GraphicsIsAQueue == Graphics \in Queues
BY ResourcesAssumption

LEMMA MaterialsInitially == Init => MaterialsInv
<1>. SUFFICES ASSUME Init PROVE MaterialsInv
  OBVIOUS
<1>1. FramesSubmitted
  BY GraphicsIsAQueue DEF Init, LoopInit, FramesSubmitted, Phases
<1>2. /\ material = [m \in Materials |-> 0] /\ upload = [m \in Materials |-> 0]
      /\ table = [m \in Materials |-> 0] /\ dirty = {} /\ copies = << >> /\ updates = 0
      /\ phase = "between" /\ frameNumber = 0
  BY DEF Init, LoopInit
<1>. QED  BY <1>1, <1>2 DEF MaterialsInv, MaterialsTyped, TableCatchesUp, FramesSee

(* What the lists say of a frame that has been recorded.                     *)
LEMMA RecordedFrames ==
  ASSUME FramesSubmitted, MaterialsTyped
  PROVE  /\ Len(copies) \in Nat /\ done[Graphics] \in Nat /\ value[Graphics] \in Nat
         /\ done[Graphics] <= value[Graphics] /\ value[Graphics] <= Len(copies)
         /\ \A f \in 1 .. Len(copies) : copies[f].sees \in [Materials -> Nat]
<1>1. done[Graphics] \in Nat /\ value[Graphics] \in Nat /\ Len(copies) \in Nat
  BY GraphicsIsAQueue DEF FramesSubmitted, MaterialsTyped
<1>2. value[Graphics] <= Len(copies)
  BY <1>1 DEF FramesSubmitted, MaterialsTyped, Phases
<1>3. ASSUME NEW f \in 1 .. Len(copies) PROVE copies[f].sees \in [Materials -> Nat]
  <2>1. copies[f] \in CopyType
    BY <1>3 DEF MaterialsTyped
  <2>. QED  BY <2>1 DEF CopyType
<1>. QED  BY <1>1, <1>2, <1>3 DEF FramesSubmitted

LEMMA FramesAreSubmitted ==
  ASSUME FramesSubmitted, [Next]_vars
  PROVE  FramesSubmitted'
<1>1. CASE UNCHANGED loopState
  BY <1>1 DEF FramesSubmitted, loopState
<1>2. CASE BeginFrame \/ PrepareFrame \/ Copied
  BY <1>2, GraphicsIsAQueue DEF BeginFrame, PrepareFrame, Copied, FramesSubmitted, Phases
<1>3. ASSUME NEW used \in SUBSET Queues, Graphics \in used, EndFrame(used) PROVE FramesSubmitted'
  <2>1. PICK n \in Nat : n = value[Graphics] /\ n + 1 = frameNumber /\ value'[Graphics] = n + 1
    BY <1>3, GraphicsIsAQueue DEF EndFrame, FramesSubmitted
  <2>2. /\ phase' = "between" /\ frameNumber' = frameNumber /\ done' = done
        /\ value' \in [Queues -> Nat]
    BY <1>3 DEF EndFrame, FramesSubmitted
  <2>3. PICK new : /\ new = { [frame |-> frameNumber, slot |-> slot, queue |-> q,
                               value |-> value[q] + 1, uses |-> recording] : q \in used }
                   /\ inFlight' = inFlight \cup new
    BY <1>3 DEF EndFrame
  <2>4. \A s \in new : s.queue = Graphics => s.frame = s.value
    BY <2>1, <2>3
  <2>5. PICK s \in new : s.queue = Graphics /\ s.value = n + 1
    <3>1. PICK s : /\ s = [frame |-> frameNumber, slot |-> slot, queue |-> Graphics,
                           value |-> value[Graphics] + 1, uses |-> recording]
      OBVIOUS
    <3>. QED  BY <1>3, <2>1, <2>3, <3>1
  <2>6. ASSUME NEW v \in done'[Graphics] + 1 .. value'[Graphics]
        PROVE  \E t \in inFlight' : t.queue = Graphics /\ t.value = v
    <3>1. done[Graphics] \in Nat
      BY GraphicsIsAQueue DEF FramesSubmitted
    <3>2. CASE v = n + 1
      BY <2>3, <2>5, <3>2
    <3>3. CASE v # n + 1
      <4>1. v \in done[Graphics] + 1 .. value[Graphics]
        BY <2>1, <2>2, <3>1, <3>3
      <4>. QED  BY <2>3, <4>1 DEF FramesSubmitted
    <3>. QED  BY <3>2, <3>3
  <2>7. done'[Graphics] <= value'[Graphics]
    BY <2>1, <2>2, GraphicsIsAQueue DEF FramesSubmitted
  <2>. QED  BY <2>1, <2>2, <2>3, <2>4, <2>6, <2>7 DEF FramesSubmitted, Phases
<1>4. ASSUME NEW q \in Queues, GpuFinishes(q) PROVE FramesSubmitted'
  <2>1. PICK d \in Nat, n \in Nat : d = done[Graphics] /\ n = value[Graphics]
    BY GraphicsIsAQueue DEF FramesSubmitted
  <2>2. /\ done[q] \in Nat /\ value[q] \in Nat /\ done[q] < value[q]
        /\ done' = [done EXCEPT ![q] = @ + 1]
        /\ inFlight' = { s \in inFlight : ~(s.queue = q /\ s.value = done[q] + 1) }
        /\ UNCHANGED << phase, frameNumber, value >>
    BY <1>4 DEF GpuFinishes, FramesSubmitted
  <2>3. done' \in [Queues -> Nat] /\ done'[Graphics] = IF q = Graphics THEN d + 1 ELSE d
    BY <2>1, <2>2, GraphicsIsAQueue DEF FramesSubmitted
  <2>4. ASSUME NEW v \in done'[Graphics] + 1 .. value'[Graphics]
        PROVE  \E t \in inFlight' : t.queue = Graphics /\ t.value = v
    <3>1. v \in d + 1 .. n /\ (q = Graphics => v # d + 1)
      BY <2>1, <2>2, <2>3
    <3>2. PICK t \in inFlight : t.queue = Graphics /\ t.value = v
      BY <2>1, <3>1 DEF FramesSubmitted
    <3>. QED  BY <2>1, <2>2, <3>1, <3>2
  <2>5. done'[Graphics] <= value'[Graphics]
    BY <2>1, <2>2, <2>3 DEF FramesSubmitted
  <2>. QED  BY <2>2, <2>3, <2>4, <2>5 DEF FramesSubmitted
<1>. QED  BY <1>1, <1>2, <1>3, <1>4, StepsOfMaterials DEF Written, GpuCopies

(* The frame the graphics queue has just finished: its copies read the       *)
(* buffer as it is now.                                                      *)
LEMMA FinishedFrame ==
  ASSUME FramesSubmitted, MaterialsTyped, NEW q \in Queues, GpuCopies(q)
  PROVE  /\ q = Graphics =>
              /\ done[Graphics] + 1 \in 1 .. Len(copies)
              /\ done'[Graphics] = done[Graphics] + 1
              /\ table' = [m \in Materials |->
                             IF m \in copies[done[Graphics] + 1].slots THEN upload[m] ELSE table[m]]
         /\ q # Graphics => table' = table /\ done'[Graphics] = done[Graphics]
         /\ UNCHANGED << phase, frameNumber, material, dirty, upload, copies, updates >>
<1>1. UNCHANGED << phase, frameNumber, material, dirty, upload, copies, updates >>
  BY DEF GpuCopies, GpuFinishes
<1>2. PICK finished :
        /\ finished = CHOOSE s \in inFlight : s.queue = q /\ s.value = done[q] + 1
        /\ table' = [m \in Materials |-> IF q = Graphics /\ m \in copies[finished.frame].slots
                                         THEN upload[m] ELSE table[m]]
  BY DEF GpuCopies
<1>3. /\ done \in [Queues -> Nat] /\ done' = [done EXCEPT ![q] = @ + 1]
      /\ done[q] < value[q]
  BY DEF GpuCopies, GpuFinishes, FramesSubmitted
<1>4. ASSUME q # Graphics PROVE table' = table /\ done'[Graphics] = done[Graphics]
  <2>1. table' = [m \in Materials |-> table[m]]
    BY <1>2, <1>4
  <2>. QED  BY <1>3, <1>4, <2>1, GraphicsIsAQueue DEF MaterialsTyped
<1>5. ASSUME q = Graphics
      PROVE  /\ done[Graphics] + 1 \in 1 .. Len(copies)
             /\ done'[Graphics] = done[Graphics] + 1
             /\ finished.frame = done[Graphics] + 1
  <2>1. PICK d \in Nat, n \in Nat : d = done[Graphics] /\ n = value[Graphics] /\ d < n /\ n <= Len(copies)
    BY <1>3, <1>5, RecordedFrames
  <2>2. \E s \in inFlight : s.queue = q /\ s.value = done[q] + 1
    <3>1. d + 1 \in done[Graphics] + 1 .. value[Graphics]
      BY <2>1
    <3>. QED  BY <1>5, <2>1, <3>1 DEF FramesSubmitted
  <2>3. finished \in inFlight /\ finished.queue = Graphics /\ finished.value = d + 1
    BY <1>2, <1>5, <2>1, <2>2
  <2>. QED  BY <1>3, <1>5, <2>1, <2>3, RecordedFrames, GraphicsIsAQueue DEF FramesSubmitted
<1>. QED  BY <1>1, <1>2, <1>4, <1>5

LEMMA WritingKeepsMaterials ==
  ASSUME MaterialsInv, FramesSubmitted', NEW m \in Materials, Written(m)
  PROVE  MaterialsInv'
<1>1. /\ material' = [material EXCEPT ![m] = updates + 1] /\ updates' = updates + 1
      /\ dirty' = dirty \cup {m}
      /\ UNCHANGED << phase, frameNumber, done, upload, table, copies >>
  BY DEF Written, loopState
<1>2. MaterialsTyped'
  BY <1>1 DEF MaterialsInv, MaterialsTyped
<1>3. \A n \in Materials, f \in Nat : CopyToCome(n, f)' <=> CopyToCome(n, f)
  BY <1>1 DEF CopyToCome
<1>4. TableCatchesUp'
  <2>1. SUFFICES ASSUME NEW n \in Materials
                 PROVE  /\ upload[n] <= material'[n] /\ material'[n] <= updates'
                        /\ n \in dirty' \/ upload[n] = material'[n]
    BY <1>1, <1>3 DEF MaterialsInv, MaterialsTyped, TableCatchesUp
  <2>2. PICK u \in Nat, v \in Nat, k \in Nat :
          u = upload[n] /\ v = material[n] /\ k = updates /\ u <= v /\ v <= k
    BY DEF MaterialsInv, MaterialsTyped, TableCatchesUp
  <2>. QED  BY <1>1, <2>2 DEF MaterialsInv, MaterialsTyped, TableCatchesUp
<1>5. FramesSee'
  <2>1. Len(copies) \in Nat
    BY DEF MaterialsInv, MaterialsTyped
  <2>. QED  BY <1>1, <1>3, <2>1 DEF MaterialsInv, FramesSee
<1>. QED  BY <1>2, <1>4, <1>5 DEF MaterialsInv

LEMMA CopyingKeepsMaterials ==
  ASSUME MaterialsInv, FramesSubmitted', Copied
  PROVE  MaterialsInv'
<1>1. PICK n \in Nat, d \in Nat :
        n = Len(copies) /\ d = done[Graphics] /\ d <= n /\ frameNumber = n + 1
  <2>1. frameNumber \in Nat /\ frameNumber > 0 /\ Len(copies) = frameNumber - 1
    BY DEF MaterialsInv, MaterialsTyped, FramesSubmitted, Copied
  <2>2. FramesSubmitted /\ MaterialsTyped
    BY DEF MaterialsInv
  <2>3. Len(copies) \in Nat /\ done[Graphics] \in Nat /\ done[Graphics] <= Len(copies)
    <3>1. phase # "between" /\ value[Graphics] = frameNumber - 1
      BY <2>2 DEF FramesSubmitted, Copied
    <3>. QED  BY <2>1, <2>2, <3>1, RecordedFrames DEF FramesSubmitted
  <2>4. frameNumber = Len(copies) + 1
    BY <2>1, <2>3
  <2>. QED  BY <2>3, <2>4
<1>2. PICK entry : entry = [slots |-> dirty, sees |-> material]
  OBVIOUS
<1>3. entry \in CopyType /\ copies \in Seq(CopyType)
  BY <1>2 DEF CopyType, MaterialsInv, MaterialsTyped
<1>4. /\ copies' = Append(copies, entry) /\ dirty' = {} /\ phase' = "drawn"
      /\ UNCHANGED << frameNumber, done, material, table, updates >>
  BY <1>2 DEF Copied
<1>5. /\ copies' \in Seq(CopyType) /\ Len(copies') = n + 1 /\ copies'[n + 1] = entry
      /\ \A g \in 1 .. n : copies'[g] = copies[g]
  BY <1>1, <1>3, <1>4
<1>6. upload' \in [Materials -> Nat] /\ \A m \in Materials : upload'[m] = material[m]
  BY DEF Copied, MaterialsInv, MaterialsTyped, TableCatchesUp
<1>7. MaterialsTyped'
  BY <1>1, <1>4, <1>5, <1>6 DEF MaterialsInv, MaterialsTyped
<1>8. ASSUME NEW m \in Materials, NEW f \in 1 .. n, CopyToCome(m, f) PROVE CopyToCome(m, f)'
  BY <1>1, <1>4, <1>5, <1>8 DEF CopyToCome
<1>9. ASSUME NEW m \in Materials PROVE table[m] = upload'[m] \/ CopyToCome(m, n + 1)'
  <2>1. CASE m \in dirty
    <3>1. n + 1 \in 1 .. n + 1 /\ d < n + 1 /\ m \in copies'[n + 1].slots
      BY <1>1, <1>2, <1>5, <2>1
    <3>. QED  BY <1>1, <1>4, <3>1 DEF CopyToCome
  <2>2. CASE m \notin dirty
    <3>1. upload'[m] = upload[m]
      BY <1>6, <2>2 DEF MaterialsInv, TableCatchesUp
    <3>2. CASE table[m] # upload[m]
      <4>1. PICK g \in 1 .. n : d < g /\ m \in copies[g].slots
        BY <1>1, <3>2 DEF MaterialsInv, TableCatchesUp, CopyToCome
      <4>2. g \in 1 .. n + 1
        BY <1>1, <4>1
      <4>. QED  BY <1>1, <1>4, <1>5, <4>1, <4>2 DEF CopyToCome
    <3>. QED  BY <3>1, <3>2
  <2>. QED  BY <2>1, <2>2
<1>10. TableCatchesUp'
  <2>1. SUFFICES ASSUME NEW m \in Materials
                 PROVE  table[m] <= upload'[m] /\ material[m] <= updates
    BY <1>4, <1>5, <1>6, <1>9 DEF MaterialsInv, MaterialsTyped, TableCatchesUp
  <2>. QED  BY <1>6 DEF MaterialsInv, MaterialsTyped, TableCatchesUp
<1>11. ASSUME NEW f \in 1 .. n + 1, NEW m \in Materials
       PROVE  /\ copies'[f].sees[m] <= upload'[m]
              /\ copies'[f].sees[m] <= table[m] \/ CopyToCome(m, f)'
  <2>1. PICK u \in Nat, t \in Nat, v \in Nat : u = upload[m] /\ t = table[m] /\ v = material[m] /\ u <= v
    BY DEF MaterialsInv, MaterialsTyped, TableCatchesUp
  <2>2. CASE f = n + 1
    <3>1. copies'[f].sees[m] = v
      BY <1>2, <1>5, <2>1, <2>2
    <3>. QED  BY <1>6, <1>9, <2>1, <2>2, <3>1
  <2>3. CASE f # n + 1
    <3>1. f \in 1 .. n
      BY <1>1, <2>3
    <3>2. PICK x \in Nat : x = copies[f].sees[m] /\ x = copies'[f].sees[m]
      BY <1>1, <1>5, <3>1, RecordedFrames DEF MaterialsInv
    <3>3. x <= u /\ (x <= t \/ CopyToCome(m, f))
      BY <1>1, <2>1, <3>1, <3>2 DEF MaterialsInv, FramesSee
    <3>. QED  BY <1>6, <1>8, <2>1, <3>1, <3>2, <3>3
  <2>. QED  BY <2>2, <2>3
<1>12. FramesSee'
  BY <1>4, <1>5, <1>11 DEF FramesSee
<1>. QED  BY <1>7, <1>10, <1>12 DEF MaterialsInv

LEMMA FinishingKeepsMaterials ==
  ASSUME MaterialsInv, FramesSubmitted', NEW q \in Queues, GpuCopies(q)
  PROVE  MaterialsInv'
<1>1. /\ FramesSubmitted /\ MaterialsTyped
      /\ UNCHANGED << phase, frameNumber, material, dirty, upload, copies, updates >>
  BY FinishedFrame DEF MaterialsInv
<1>2. CASE q # Graphics
  <2>1. table' = table /\ done'[Graphics] = done[Graphics]
    BY <1>1, <1>2, FinishedFrame
  <2>2. \A m \in Materials, f \in Nat : CopyToCome(m, f)' <=> CopyToCome(m, f)
    BY <1>1, <2>1 DEF CopyToCome
  <2>. QED  BY <1>1, <2>1, <2>2 DEF MaterialsInv, MaterialsTyped, TableCatchesUp, FramesSee
<1>3. CASE q = Graphics
  <2>1. PICK d \in Nat, n \in Nat : d = done[Graphics] /\ n = Len(copies) /\ d + 1 \in 1 .. n
    BY <1>1, <1>3, FinishedFrame, RecordedFrames
  <2>2. done'[Graphics] = d + 1
        /\ table' = [m \in Materials |-> IF m \in copies[d + 1].slots THEN upload[m] ELSE table[m]]
    BY <1>1, <1>3, <2>1, FinishedFrame
  <2>3. MaterialsTyped'
    BY <1>1, <2>2 DEF MaterialsTyped
  <2>4. ASSUME NEW m \in Materials
        PROVE  /\ table[m] <= table'[m] /\ table'[m] <= upload[m]
               /\ m \in copies[d + 1].slots => table'[m] = upload[m]
               /\ m \notin copies[d + 1].slots => table'[m] = table[m]
    <3>1. PICK u \in Nat, t \in Nat : u = upload[m] /\ t = table[m] /\ t <= u
      BY DEF MaterialsInv, MaterialsTyped, TableCatchesUp
    <3>. QED  BY <2>2, <3>1
  <2>5. ASSUME NEW m \in Materials, NEW f \in 1 .. n, CopyToCome(m, f)
        PROVE  table'[m] = upload[m] \/ CopyToCome(m, f)'
    <3>1. PICK g \in 1 .. f : d < g /\ m \in copies[g].slots
      BY <2>1, <2>5 DEF CopyToCome
    <3>2. CASE g = d + 1
      BY <2>4, <3>1, <3>2
    <3>3. CASE g # d + 1
      <4>1. d + 1 < g
        BY <2>1, <3>1, <3>3
      <4>. QED  BY <1>1, <2>2, <3>1, <4>1 DEF CopyToCome
    <3>. QED  BY <3>2, <3>3
  <2>6. TableCatchesUp'
    <3>1. n \in 1 .. n
      BY <2>1
    <3>2. SUFFICES ASSUME NEW m \in Materials
                   PROVE  table'[m] <= upload[m] /\ (table'[m] = upload[m] \/ CopyToCome(m, n)')
      BY <1>1, <2>1 DEF MaterialsInv, MaterialsTyped, TableCatchesUp
    <3>3. PICK u \in Nat, t \in Nat : u = upload[m] /\ t = table[m]
      BY <1>1 DEF MaterialsTyped
    <3>4. t = u => table'[m] = u
      BY <2>4, <3>3
    <3>5. t = u \/ CopyToCome(m, n)
      BY <2>1, <3>3 DEF MaterialsInv, TableCatchesUp
    <3>. QED  BY <2>4, <2>5, <3>1, <3>3, <3>4, <3>5
  <2>7. ASSUME NEW f \in 1 .. n, NEW m \in Materials
        PROVE  /\ copies[f].sees[m] <= upload[m]
               /\ copies[f].sees[m] <= table'[m] \/ CopyToCome(m, f)'
    <3>1. PICK x \in Nat, u \in Nat, t \in Nat, s \in Nat :
            x = copies[f].sees[m] /\ u = upload[m] /\ t = table[m] /\ s = table'[m]
      BY <1>1, <2>1, <2>3, RecordedFrames DEF MaterialsTyped
    <3>2. x <= u /\ (x <= t \/ CopyToCome(m, f)) /\ t <= s
      BY <2>1, <2>4, <3>1 DEF MaterialsInv, FramesSee
    <3>. QED  BY <2>5, <3>1, <3>2
  <2>8. FramesSee'
    BY <1>1, <2>1, <2>7 DEF FramesSee
  <2>. QED  BY <2>3, <2>6, <2>8 DEF MaterialsInv
<1>. QED  BY <1>2, <1>3

LEMMA MaterialsKept == MaterialsInv /\ [Next]_vars => MaterialsInv'
<1>. SUFFICES ASSUME MaterialsInv, [Next]_vars PROVE MaterialsInv'
  OBVIOUS
<1>1. FramesSubmitted'
  BY FramesAreSubmitted DEF MaterialsInv
<1>2. ASSUME UNCHANGED tableState, done'[Graphics] = done[Graphics], updates' \in {updates, updates + 1},
             MaterialsTyped'
      PROVE  MaterialsInv'
  <2>1. \A m \in Materials, f \in Nat : CopyToCome(m, f)' <=> CopyToCome(m, f)
    BY <1>2 DEF CopyToCome, tableState
  <2>2. TableCatchesUp'
    BY <1>2, <2>1 DEF MaterialsInv, MaterialsTyped, TableCatchesUp, tableState
  <2>3. FramesSee'
    BY <1>2, <2>1 DEF MaterialsInv, MaterialsTyped, FramesSee, tableState
  <2>. QED  BY <1>1, <1>2, <2>2, <2>3 DEF MaterialsInv
<1>3. CASE UNCHANGED << loopState, tableState >> /\ updates' \in {updates, updates + 1}
  <2>1. MaterialsTyped'
    BY <1>3 DEF MaterialsInv, MaterialsTyped, loopState, tableState
  <2>. QED  BY <1>2, <1>3, <2>1 DEF loopState
<1>4. CASE (BeginFrame \/ PrepareFrame) /\ UNCHANGED << tableState, updates >>
  <2>1. MaterialsTyped'
    BY <1>4 DEF MaterialsInv, MaterialsTyped, FramesSubmitted, BeginFrame, PrepareFrame, tableState
  <2>. QED  BY <1>2, <1>4, <2>1 DEF BeginFrame, PrepareFrame
<1>5. ASSUME NEW used \in SUBSET Queues, EndFrame(used), UNCHANGED << tableState, updates >>
      PROVE  MaterialsInv'
  <2>1. MaterialsTyped'
    BY <1>5 DEF MaterialsInv, MaterialsTyped, EndFrame, tableState
  <2>. QED  BY <1>2, <1>5, <2>1 DEF EndFrame
<1>. QED  BY <1>1, <1>3, <1>4, <1>5, StepsOfMaterials, WritingKeepsMaterials,
             CopyingKeepsMaterials, FinishingKeepsMaterials

(* When the GPU gets to a frame's draws, the table holds every material as   *)
(* it was when the frame was drawn, or newer: with one upload buffer for all *)
(* frames in flight, and whichever queues run beside the graphics queue.     *)
THEOREM DrawsSeeTheirMaterials == Spec => MaterialsArrive
<1>1. Spec => []MaterialsInv
  BY MaterialsInitially, MaterialsKept, PTL DEF Spec
<1>2. ASSUME MaterialsInv, MaterialsInv', [Next]_vars, NEW s \in inFlight,
             s.queue = Graphics, done[Graphics] < s.value, s.value = done'[Graphics]
      PROVE  \A m \in Materials : table'[m] >= copies[s.frame].sees[m]
  <2>1. PICK d \in Nat : d = done[Graphics] /\ d < s.value
    BY <1>2, GraphicsIsAQueue DEF MaterialsInv, FramesSubmitted
  <2>2. PICK q \in Queues : GpuCopies(q)
    <3>1. done'[Graphics] # done[Graphics]
      BY <1>2, <2>1
    <3>. QED  BY <1>2, <3>1, StepsOfMaterials
             DEF loopState, Written, BeginFrame, PrepareFrame, EndFrame, Copied
  <2>3. /\ copies' = copies /\ done'[Graphics] = d + 1 /\ d + 1 \in 1 .. Len(copies)
    BY <1>2, <2>1, <2>2, FinishedFrame DEF MaterialsInv
  <2>4. s.frame = d + 1
    BY <1>2, <2>3 DEF MaterialsInv, FramesSubmitted
  <2>5. SUFFICES ASSUME NEW m \in Materials PROVE table'[m] >= copies[d + 1].sees[m]
    BY <2>4
  <2>6. PICK x \in Nat, t \in Nat : x = copies[d + 1].sees[m] /\ t = table'[m]
    BY <1>2, <2>3, RecordedFrames DEF MaterialsInv, MaterialsTyped
  <2>7. x <= t \/ CopyToCome(m, d + 1)'
    BY <1>2, <2>3, <2>6 DEF MaterialsInv, FramesSee
  <2>8. ~CopyToCome(m, d + 1)'
    BY <2>1, <2>3 DEF CopyToCome
  <2>. QED  BY <2>6, <2>7, <2>8
<1>3. MaterialsInv /\ MaterialsInv' /\ [Next]_vars =>
        [\A s \in inFlight :
           s.queue = Graphics /\ done[Graphics] < s.value /\ s.value = done'[Graphics] =>
             \A m \in Materials : table'[m] >= copies[s.frame].sees[m]]_vars
  BY <1>2
<1>. QED  BY <1>1, <1>3, PTL DEF Spec, MaterialsArrive

-----------------------------------------------------------------------------
(* Lighting: what an environment system holds.                               *)

Sources == {Flat, ProceduralSky} \cup Panoramas \cup CubeFiles
Contents == Environments \cup {Nothing, Garbage}
Keys == [of: Environments, generation: Nat \cup {-1}]
BuiltSets == [base: Contents, face: [Faces -> Contents]]
Builds == [key: Keys, target: Sets, amortized: BOOLEAN, faces: Nat, captured: BOOLEAN]
Plans == [lut: BOOLEAN, capture: BOOLEAN, first: Nat, count: Nat, flip: BOOLEAN, target: Sets]

(* The fields, with the values of those the lighting is read from.           *)
HasFields(e) ==
  e \in [generation: Nat, retired: {e.retired}, radiance: {e.radiance},
         holds: Contents, source: Sources, cubeSource: BOOLEAN,
         equirect: {e.equirect}, panorama: Contents, projection: {e.projection},
         decode: [path: Environments, ready: BOOLEAN], decodeError: Environments,
         provided: {e.provided}, building: Builds, liveSet: Sets, liveKey: Keys,
         built: [Sets -> BuiltSets], lutReady: BOOLEAN, plan: Plans]

(* A cube is there as soon as it has a source, and what will be captured     *)
(* from it is what the source names, unless the panorama is gone.  What is   *)
(* decoded is a file.                                                        *)
SourceHolds(e) ==
  /\ IsLoaded(e) <=> e.source # Flat
  /\ e.cubeSource <=> e.source \in CubeFiles
  /\ e.cubeSource => e.holds = e.source
  /\ e.source \in Panoramas => e.equirect = NoImages \/ e.panorama = e.source
  /\ e.decode = NoDecode \/ e.decode.path \in Files

MadeFrom(set, names, count) ==
  /\ set.base \in names
  /\ \A f \in Faces : f < count => set.face[f] = set.base

(* A build that goes on has captured a sky, which the shared cube holds, into *)
(* the set that is not live.                                                 *)
BuildGoesOn(e) ==
  LET b == e.building IN
  b # NoBuild =>
    /\ e.source = ProceduralSky
    /\ e.liveKey # NoKey
    /\ b.captured /\ b.target = 1 - e.liveSet /\ b.faces < FaceCount
    /\ b.key # NoKey /\ b.key.of = e.holds
    /\ MadeFrom(e.built[b.target], {b.key.of}, b.faces)

LiveIsWhole(e) ==
  e.liveKey # NoKey =>
    MadeFrom(e.built[e.liveSet], {e.liveKey.of, Garbage}, FaceCount)

Lights(e) == HasFields(e) /\ SourceHolds(e) /\ BuildGoesOn(e) /\ LiveIsWhole(e)

(* After n quiet frames under a sky: the last build but one is over after    *)
(* FaceCount of them, and the next one needs one more.                       *)
SkyBehind(e, wished, n) ==
  LET b == e.building IN
  /\ e.source = ProceduralSky
  /\ b = NoBuild => e.liveKey = wished \/ n <= FaceCount
  /\ b # NoBuild /\ b.key # wished => n <= b.faces
  /\ b # NoBuild /\ b.key = wished => n <= b.faces + FaceCount + 1

(* Under a file: once no decode is under way, it is lit or known to fail.    *)
FileBehind(e, wished, n) ==
  /\ ~e.decode.ready
  /\ e.decode = NoDecode => \/ e.liveKey = wished
                            \/ e.decodeError = wished.of
                            \/ n = 1

LightingBehind ==
  quiet > 0 =>
    /\ changed = {}
    /\ desired \in Skies => SkyBehind(env, Wished, quiet)
    /\ desired \in Files => FileBehind(env, Wished, quiet)

LightingInv ==
  /\ desired \in Environments
  /\ amortize \in BOOLEAN
  /\ quiet \in Nat
  /\ Lights(env)
  /\ LightingBehind

LEMMA Names ==
  /\ FaceCount \in Nat \ {0} /\ Faces = 0 .. FaceCount - 1
  /\ Skies \subseteq Environments /\ Files \subseteq Environments
  /\ Flat \in Environments /\ Flat \notin Files /\ Flat \notin Skies
  /\ Environments = {Flat} \cup Skies \cup Files
  /\ Skies \cap Files = {}
  /\ ProceduralSky # Flat /\ ProceduralSky \notin Files
  /\ Panoramas \cap CubeFiles = {}
  /\ Files = Panoramas \cup CubeFiles \cup BadFiles
  /\ NoKey \in Keys /\ NoBuild \in Builds /\ NoPlan \in Plans
BY EnvironmentAssumption
   DEF Faces, Environments, Files, Keys, Builds, Plans, Sets, NoKey, NoBuild, NoPlan

IsState(s) == s = [env |-> s.env, store |-> s.store] /\ HasFields(s.env)

SameLight(e, f) ==
  /\ f.generation = e.generation /\ f.liveSet = e.liveSet /\ f.liveKey = e.liveKey
  /\ f.built = e.built /\ f.plan = e.plan

SameSource(e, f) ==
  /\ f.radiance = e.radiance /\ f.source = e.source /\ f.cubeSource = e.cubeSource
  /\ f.holds = e.holds /\ f.equirect = e.equirect /\ f.panorama = e.panorama
  /\ f.building = e.building

SameDecode(e, f) == f.decode = e.decode /\ f.decodeError = e.decodeError

LEMMA Retiring ==
  ASSUME NEW s, IsState(s), NEW frame, NEW indexes, NEW buffers,
         NEW t, t = Retire(s, frame, indexes, buffers)
  PROVE  IsState(t) /\ SameLight(s.env, t.env) /\ SameSource(s.env, t.env) /\ SameDecode(s.env, t.env)
<1>1. PICK list : t = [s EXCEPT !.env.retired = list]
  BY DEF Retire
<1>2. PICK e, f, st : s = [env |-> e, store |-> st] /\ HasFields(e) /\ f = [e EXCEPT !.retired = list]
  BY DEF IsState
<1>3. t = [env |-> f, store |-> st] /\ s.env = e
  BY <1>1, <1>2
<1>4. HasFields(f) /\ SameLight(e, f) /\ SameSource(e, f) /\ SameDecode(e, f)
  BY <1>2 DEF HasFields, SameLight, SameSource, SameDecode
<1>. QED  BY <1>3, <1>4 DEF IsState

LEMMA RadianceRetired ==
  ASSUME NEW s, IsState(s), NEW frame, NEW t, t = RetireRadiance(s, frame)
  PROVE  /\ IsState(t) /\ SameLight(s.env, t.env) /\ SameDecode(s.env, t.env)
         /\ t.env.equirect = s.env.equirect /\ t.env.panorama = s.env.panorama
<1>1. CASE ~IsLoaded(s.env)
  BY <1>1 DEF RetireRadiance, SameLight, SameDecode
<1>2. CASE IsLoaded(s.env)
  <2>1. PICK u : u = Retire(s, frame, s.env.radiance, {})
    OBVIOUS
  <2>2. IsState(u) /\ SameLight(s.env, u.env) /\ SameSource(s.env, u.env) /\ SameDecode(s.env, u.env)
    BY <2>1, Retiring
  <2>3. PICK e, f, st : /\ u = [env |-> e, store |-> st] /\ HasFields(e)
                        /\ f = [e EXCEPT !.radiance = NoImages, !.building = NoBuild]
    BY <2>2 DEF IsState
  <2>4. t = [u EXCEPT !.env.radiance = NoImages, !.env.building = NoBuild]
    BY <1>2, <2>1, Zenon DEF RetireRadiance
  <2>5. t = [env |-> f, store |-> st] /\ u.env = e
    BY <2>3, <2>4
  <2>6. HasFields(f) /\ SameLight(e, f) /\ SameDecode(e, f)
        /\ f.equirect = e.equirect /\ f.panorama = e.panorama
    BY <2>3, Names DEF HasFields, SameLight, SameDecode
  <2>. QED  BY <2>2, <2>5, <2>6 DEF IsState, SameLight, SameDecode, SameSource
<1>. QED  BY <1>1, <1>2

LEMMA CubeMade ==
  ASSUME NEW s, IsState(s), NEW t, t = CreateCube(s)
  PROVE  /\ IsState(t) /\ SameLight(s.env, t.env) /\ SameDecode(s.env, t.env)
         /\ IsLoaded(t.env)
         /\ t.env.equirect = s.env.equirect /\ t.env.panorama = s.env.panorama
<1>1. PICK i, j, st : t = [s EXCEPT !.store = st, !.env.radiance = << i, j >>, !.env.holds = Nothing]
  BY DEF CreateCube
<1>2. PICK e, f, old : /\ s = [env |-> e, store |-> old] /\ HasFields(e)
                       /\ f = [e EXCEPT !.radiance = << i, j >>, !.holds = Nothing]
  BY DEF IsState
<1>3. t = [env |-> f, store |-> st] /\ s.env = e
  BY <1>1, <1>2
<1>4. << i, j >> # << >>
  OBVIOUS
<1>5. HasFields(f) /\ SameLight(e, f) /\ SameDecode(e, f) /\ IsLoaded(f)
      /\ f.equirect = e.equirect /\ f.panorama = e.panorama
  BY <1>2, <1>4 DEF HasFields, SameLight, SameDecode, IsLoaded, NoImages, Contents
<1>. QED  BY <1>3, <1>5 DEF IsState

(* A source is as it was, or there is no build from it.                      *)
Prepared(e, f) ==
  /\ HasFields(f) /\ SameLight(e, f) /\ SourceHolds(f)
  /\ SameSource(e, f) \/ f.building = NoBuild

LEMMA SkyPrepared ==
  ASSUME NEW s, IsState(s), SourceHolds(s.env), NEW frame,
         NEW t, t = EnsureProceduralRadiance(s, frame)
  PROVE  IsState(t) /\ Prepared(s.env, t.env) /\ t.env.source = ProceduralSky
<1>1. CASE s.env.source = ProceduralSky /\ IsLoaded(s.env)
  BY <1>1 DEF EnsureProceduralRadiance, Prepared, IsState, SameLight, SameSource
<1>2. CASE ~(s.env.source = ProceduralSky /\ IsLoaded(s.env))
  <2>1. PICK u, v : u = RetireRadiance(s, frame) /\ v = CreateCube(u)
    OBVIOUS
  <2>2. /\ IsState(v) /\ SameLight(s.env, v.env) /\ SameDecode(s.env, v.env) /\ IsLoaded(v.env)
    BY <2>1, RadianceRetired, CubeMade DEF SameLight, SameDecode
  <2>3. PICK e, f, st : /\ v = [env |-> e, store |-> st] /\ HasFields(e)
                        /\ f = [e EXCEPT !.source = ProceduralSky, !.cubeSource = FALSE, !.building = NoBuild]
    BY <2>2 DEF IsState
  <2>4. t = [env |-> f, store |-> st] /\ v.env = e
    <3>1. t = [v EXCEPT !.env.source = ProceduralSky, !.env.cubeSource = FALSE, !.env.building = NoBuild]
      BY <1>2, <2>1, Zenon DEF EnsureProceduralRadiance
    <3>. QED  BY <2>3, <3>1
  <2>5. /\ HasFields(f) /\ SameLight(e, f) /\ SameDecode(e, f) /\ f.radiance = e.radiance
        /\ f.source = ProceduralSky /\ f.cubeSource = FALSE /\ f.building = NoBuild
    BY <2>3, Names DEF HasFields, SameLight, SameDecode, Sources
  <2>6. SourceHolds(f)
    BY <2>2, <2>4, <2>5, Names DEF SourceHolds, IsLoaded, SameDecode
  <2>. QED  BY <2>2, <2>4, <2>5, <2>6 DEF IsState, Prepared, SameLight
<1>. QED  BY <1>1, <1>2

LEMMA PixelsUploaded ==
  ASSUME NEW s, IsState(s), NEW frame, NEW path \in Files, NEW t, t = UploadPixels(s, frame, path)
  PROVE  /\ IsState(t) /\ SameLight(s.env, t.env) /\ SameDecode(s.env, t.env)
         /\ t.env.radiance = s.env.radiance /\ t.env.source = s.env.source
         /\ t.env.cubeSource = s.env.cubeSource /\ t.env.building = s.env.building
         /\ path \in CubeFiles => t.env.holds = path
         /\ path \notin CubeFiles => t.env.panorama = path
<1>1. PICK staged, buffer : staged = CreateStaging(s.store) /\ buffer = staged.live \ s.store.live
  OBVIOUS
<1>2. PICK r, kept : r = [s EXCEPT !.store = staged] /\ kept = Retire(r, frame, << >>, buffer)
  OBVIOUS
<1>3. IsState(r) /\ r.env = s.env
  BY <1>2 DEF IsState
<1>4. IsState(kept) /\ SameLight(s.env, kept.env) /\ SameSource(s.env, kept.env) /\ SameDecode(s.env, kept.env)
  BY <1>2, <1>3, Retiring
<1>5. PICK e, st : kept = [env |-> e, store |-> st] /\ HasFields(e) /\ kept.env = e /\ kept.store = st
  BY <1>4 DEF IsState
<1>6. path \in Contents
  BY Names DEF Contents
<1>7. CASE path \in CubeFiles
  <2>1. t = [kept EXCEPT !.env.holds = path]
    BY <1>1, <1>2, <1>7, Zenon DEF UploadPixels
  <2>2. PICK f : f = [e EXCEPT !.holds = path]
    OBVIOUS
  <2>3. t = [env |-> f, store |-> st]
    BY <1>5, <2>1, <2>2
  <2>4. /\ HasFields(f) /\ SameLight(e, f) /\ SameDecode(e, f) /\ f.radiance = e.radiance
        /\ f.source = e.source /\ f.cubeSource = e.cubeSource /\ f.building = e.building
        /\ f.holds = path
    BY <1>5, <1>6, <2>2 DEF HasFields, SameLight, SameDecode
  <2>. QED  BY <1>4, <1>5, <1>7, <2>3, <2>4 DEF IsState, SameLight, SameDecode, SameSource
<1>8. CASE path \notin CubeFiles
  <2>1. PICK made, old : /\ made = [kept EXCEPT !.store = CreateImage(@),
                                                !.env.equirect = << NewIndex(kept.store) >>,
                                                !.env.panorama = path]
                         /\ old = kept.env.equirect
    OBVIOUS
  <2>2. t = IF old = NoImages THEN made ELSE Retire(made, frame, old, {})
    <3>1. t = IF kept.env.equirect = NoImages THEN made
              ELSE Retire(made, frame, kept.env.equirect, {})
      <4>1. kept.env.equirect = NoImages => t = made
        BY <1>1, <1>2, <1>8, <2>1, Zenon DEF UploadPixels
      <4>2. kept.env.equirect # NoImages => t = Retire(made, frame, kept.env.equirect, {})
        BY <1>1, <1>2, <1>8, <2>1, Zenon DEF UploadPixels
      <4>. QED  BY <4>1, <4>2
    <3>. QED  BY <2>1, <3>1
  <2>3. PICK f, st2 : /\ f = [e EXCEPT !.equirect = << NewIndex(st) >>, !.panorama = path]
                      /\ st2 = CreateImage(st)
    OBVIOUS
  <2>4. made = [env |-> f, store |-> st2]
    BY <1>5, <2>1, <2>3
  <2>5. /\ HasFields(f) /\ SameLight(e, f) /\ SameDecode(e, f) /\ f.radiance = e.radiance
        /\ f.source = e.source /\ f.cubeSource = e.cubeSource /\ f.building = e.building
        /\ f.panorama = path
    BY <1>5, <1>6, <2>3 DEF HasFields, SameLight, SameDecode
  <2>6. IsState(made) /\ made.env = f
    BY <2>4, <2>5 DEF IsState
  <2>7. IsState(t) /\ SameLight(f, t.env) /\ SameSource(f, t.env) /\ SameDecode(f, t.env)
    <3>1. CASE old = NoImages
      BY <2>2, <2>6, <3>1 DEF SameLight, SameSource, SameDecode
    <3>2. CASE old # NoImages
      BY <2>2, <2>6, <3>2, Retiring
    <3>. QED  BY <3>1, <3>2
  <2>. QED  BY <1>4, <1>5, <1>8, <2>5, <2>7 DEF SameLight, SameDecode, SameSource
<1>. QED  BY <1>7, <1>8

LEMMA DecodeFinished ==
  ASSUME NEW s, IsState(s), NEW frame, NEW path \in Panoramas \cup CubeFiles,
         NEW t, t = FinishDecode(s, frame, path)
  PROVE  /\ IsState(t) /\ SameLight(s.env, t.env) /\ SameDecode(s.env, t.env)
         /\ IsLoaded(t.env) /\ t.env.source = path /\ t.env.building = NoBuild
         /\ t.env.cubeSource = (path \in CubeFiles)
         /\ path \in CubeFiles => t.env.holds = path
         /\ path \notin CubeFiles => t.env.panorama = path
<1>1. PICK u, v : u = RetireRadiance(s, frame) /\ v = CreateCube(u)
  OBVIOUS
<1>2. IsState(v) /\ SameLight(s.env, v.env) /\ SameDecode(s.env, v.env) /\ IsLoaded(v.env)
  BY <1>1, RadianceRetired, CubeMade DEF SameLight, SameDecode
<1>3. PICK e, f, st : /\ v = [env |-> e, store |-> st] /\ HasFields(e) /\ v.env = e
                      /\ f = [e EXCEPT !.source = path, !.cubeSource = path \in CubeFiles,
                                       !.projection = path \in Panoramas, !.building = NoBuild]
  BY <1>2 DEF IsState
<1>4. PICK w : w = [v EXCEPT !.env.source = path, !.env.cubeSource = path \in CubeFiles,
                             !.env.projection = path \in Panoramas, !.env.building = NoBuild]
  OBVIOUS
<1>5. w = [env |-> f, store |-> st] /\ w.env = f
  BY <1>3, <1>4
<1>6. /\ HasFields(f) /\ SameLight(e, f) /\ SameDecode(e, f) /\ f.radiance = e.radiance
      /\ f.source = path /\ f.cubeSource = (path \in CubeFiles) /\ f.building = NoBuild
  <2>1. PICK cube, p : cube = (path \in CubeFiles) /\ p = (path \in Panoramas)
    OBVIOUS
  <2>2. path \in Sources /\ cube \in BOOLEAN
    <3>1. path \in Sources
      BY DEF Sources
    <3>2. CASE path \in CubeFiles
      BY <2>1, <3>1, <3>2
    <3>3. CASE path \notin CubeFiles
      BY <2>1, <3>1, <3>3
    <3>. QED  BY <3>1, <3>2, <3>3
  <2>3. f = [e EXCEPT !.source = path, !.cubeSource = cube, !.projection = p, !.building = NoBuild]
    BY <1>3, <2>1, Zenon
  <2>4. HasFields(f)
    <3>1. HasFields(e)
      BY <1>3
    <3>. QED  BY <2>2, <2>3, <3>1, Names DEF HasFields
  <2>5. /\ SameLight(e, f) /\ SameDecode(e, f) /\ f.radiance = e.radiance
        /\ f.source = path /\ f.cubeSource = cube /\ f.building = NoBuild
    BY <1>3, <2>3 DEF HasFields, SameLight, SameDecode
  <2>. QED  BY <2>1, <2>4, <2>5, Zenon
<1>7. t = UploadPixels(w, frame, path)
  BY <1>1, <1>4, Zenon DEF FinishDecode
<1>8. IsState(w) /\ path \in Files
  BY <1>5, <1>6, Names DEF IsState
<1>9. /\ IsState(t) /\ SameLight(f, t.env) /\ SameDecode(f, t.env)
      /\ t.env.radiance = f.radiance /\ t.env.source = path
      /\ t.env.cubeSource = f.cubeSource /\ t.env.building = f.building
      /\ path \in CubeFiles => t.env.holds = path
      /\ path \notin CubeFiles => t.env.panorama = path
  BY <1>5, <1>6, <1>7, <1>8, PixelsUploaded
<1>. QED  BY <1>2, <1>3, <1>6, <1>9 DEF SameLight, SameDecode, IsLoaded

(* A wish for a file that is neither loaded nor known starts its decode.     *)
LEMMA DecodeStarted ==
  ASSUME NEW s, IsState(s), SourceHolds(s.env), desired \in Files, NEW t, t = StartDecode(s)
  PROVE  /\ IsState(t) /\ SameLight(s.env, t.env) /\ SameSource(s.env, t.env) /\ SourceHolds(t.env)
         /\ \/ /\ SameDecode(s.env, t.env)
               /\ \/ s.env.source = desired \/ s.env.decode.path = desired
                  \/ s.env.decodeError = desired
            \/ t.env.decode.path = desired
<1>1. CASE s.env.source = desired \/ s.env.decode.path = desired \/ s.env.decodeError = desired
  <2>1. t = s
    BY <1>1 DEF StartDecode
  <2>. QED  BY <1>1, <2>1 DEF SameLight, SameSource, SameDecode
<1>2. CASE ~(s.env.source = desired \/ s.env.decode.path = desired \/ s.env.decodeError = desired)
  <2>1. PICK e, st, left : s = [env |-> e, store |-> st] /\ HasFields(e) /\ s.env = e
                           /\ left = e.provided \ {desired}
    BY DEF IsState
  <2>2. PICK d : d = [path |-> desired, ready |-> desired \in e.provided]
    OBVIOUS
  <2>3. PICK f : f = [e EXCEPT !.decode = d, !.provided = left, !.decodeError = Flat]
    OBVIOUS
  <2>4. t = [env |-> f, store |-> st] /\ t.env = f
    <3>1. t = [s EXCEPT !.env.decode = d, !.env.provided = @ \ {desired}, !.env.decodeError = Flat]
      BY <1>2, <2>1, <2>2 DEF StartDecode
    <3>. QED  BY <2>1, <2>3, <3>1
  <2>5. desired \in Environments /\ d \in [path: Environments, ready: BOOLEAN] /\ d.path = desired
    BY <2>2, Names
  <2>6. HasFields(f) /\ SameLight(e, f) /\ SameSource(e, f) /\ f.decode = d
    BY <2>1, <2>3, <2>5, Names DEF HasFields, SameLight, SameSource
  <2>7. SourceHolds(f)
    BY <2>1, <2>5, <2>6 DEF SourceHolds, SameSource, IsLoaded
  <2>. QED  BY <2>1, <2>4, <2>5, <2>6, <2>7 DEF IsState
<1>. QED  BY <1>1, <1>2

LEMMA DecodeTaken ==
  ASSUME NEW s, IsState(s), SourceHolds(s.env), NEW frame, NEW t, t = TakeDecode(s, frame)
  PROVE  /\ IsState(t) /\ Prepared(s.env, t.env)
         /\ ~s.env.decode.ready => t = s
         /\ s.env.decode.ready =>
              /\ t.env.decode = NoDecode
              /\ \/ /\ s.env.decode.path \in BadFiles /\ t.env.decodeError = s.env.decode.path
                 \/ /\ s.env.decode.path \notin BadFiles /\ t.env.source = s.env.decode.path
                    /\ t.env.decodeError = s.env.decodeError
<1>1. CASE ~s.env.decode.ready
  <2>1. t = s
    BY <1>1 DEF TakeDecode
  <2>. QED  BY <1>1, <2>1 DEF Prepared, IsState, SameLight, SameSource
<1>2. CASE s.env.decode.ready
  <2>1. PICK path : path = s.env.decode.path
    OBVIOUS
  <2>2. path \in Files
    BY <1>2, <2>1 DEF SourceHolds, NoDecode
  <2>3. PICK taken : taken = IF path \in BadFiles THEN [s EXCEPT !.env.decodeError = path]
                                                  ELSE FinishDecode(s, frame, path)
    OBVIOUS
  <2>4. t = [taken EXCEPT !.env.decode = NoDecode]
    BY <1>2, <2>1, <2>3, Zenon DEF TakeDecode
  <2>5. /\ IsState(taken) /\ SameLight(s.env, taken.env)
        /\ path \in BadFiles => /\ SameSource(s.env, taken.env) /\ taken.env.decodeError = path
        /\ path \notin BadFiles =>
             /\ taken.env.decodeError = s.env.decodeError
             /\ IsLoaded(taken.env) /\ taken.env.source = path /\ taken.env.building = NoBuild
             /\ taken.env.cubeSource = (path \in CubeFiles)
             /\ path \in CubeFiles => taken.env.holds = path
             /\ path \notin CubeFiles => taken.env.panorama = path
    <3>1. CASE path \in BadFiles
      <4>1. PICK e, f, st : /\ s = [env |-> e, store |-> st] /\ HasFields(e) /\ s.env = e
                            /\ f = [e EXCEPT !.decodeError = path]
        BY DEF IsState
      <4>2. taken = [env |-> f, store |-> st] /\ taken.env = f
        BY <2>3, <3>1, <4>1
      <4>3. HasFields(f) /\ SameLight(e, f) /\ SameSource(e, f) /\ f.decodeError = path
        BY <2>2, <4>1, Names DEF HasFields, SameLight, SameSource
      <4>. QED  BY <3>1, <4>1, <4>2, <4>3 DEF IsState
    <3>2. CASE path \notin BadFiles
      <4>1. path \in Panoramas \cup CubeFiles /\ taken = FinishDecode(s, frame, path)
        BY <2>2, <2>3, <3>2, Names
      <4>. QED  BY <3>2, <4>1, DecodeFinished DEF SameDecode
    <3>. QED  BY <3>1, <3>2
  <2>6. PICK e, f, st : /\ taken = [env |-> e, store |-> st] /\ HasFields(e) /\ taken.env = e
                        /\ f = [e EXCEPT !.decode = NoDecode]
    BY <2>5 DEF IsState
  <2>7. t = [env |-> f, store |-> st] /\ t.env = f
    BY <2>4, <2>6
  <2>8. /\ HasFields(f) /\ SameLight(e, f) /\ SameSource(e, f) /\ f.decode = NoDecode
        /\ f.decodeError = e.decodeError
    BY <2>6, Names DEF HasFields, SameLight, SameSource, NoDecode
  <2>9. SourceHolds(f)
    <3>1. CASE path \in BadFiles
      BY <2>5, <2>6, <2>8, <3>1 DEF SourceHolds, SameSource, IsLoaded
    <3>2. CASE path \notin BadFiles
      <4>1. /\ f.radiance # NoImages /\ f.source = path /\ f.cubeSource = (path \in CubeFiles)
            /\ path \in CubeFiles => f.holds = path
            /\ path \notin CubeFiles => f.panorama = path
        BY <2>5, <2>6, <2>8, <3>2 DEF SameSource, IsLoaded
      <4>2. path # Flat /\ (path \in Panoramas => path \notin CubeFiles)
        BY <2>2, Names
      <4>. QED  BY <2>8, <4>1, <4>2 DEF SourceHolds, IsLoaded
    <3>. QED  BY <3>1, <3>2
  <2>10. SameLight(s.env, f) /\ (SameSource(s.env, f) \/ f.building = NoBuild)
    BY <2>5, <2>6, <2>8 DEF SameLight, SameSource
  <2>11. /\ path \in BadFiles => f.decodeError = path
         /\ path \notin BadFiles => f.source = path /\ f.decodeError = s.env.decodeError
    BY <2>5, <2>6, <2>8 DEF SameSource
  <2>. QED  BY <1>2, <2>1, <2>7, <2>8, <2>9, <2>10, <2>11 DEF IsState, Prepared
<1>. QED  BY <1>1, <1>2

(* What prepare() starts from: the retired are let go, the shaders' changes  *)
(* are counted and nothing is planned yet.                                   *)
Fresh(st, frame) ==
  LET released == ReleaseRetired([env |-> env, store |-> st], frame)
      seen == DetectShaderChanges(released)
  IN  [seen EXCEPT !.env.plan = [NoPlan EXCEPT !.lut = ~seen.env.lutReady]]

Idle(e) == ~e.plan.capture /\ e.plan.count = 0

LEMMA Freshened ==
  ASSUME Lights(env), NEW st, NEW frame, NEW t, t = Fresh(st, frame)
  PROVE  /\ IsState(t) /\ Lights(t.env) /\ Idle(t.env)
         /\ SameSource(env, t.env) /\ SameDecode(env, t.env)
         /\ t.env.liveKey = env.liveKey
         /\ t.env.generation = Generation(env)
<1>1. PICK list, left : ReleaseRetired([env |-> env, store |-> st], frame)
                          = [env |-> [env EXCEPT !.retired = list], store |-> left]
  BY DEF ReleaseRetired
<1>2. PICK e : e = env /\ HasFields(e)
  BY DEF Lights
<1>3. PICK f : f = [e EXCEPT !.retired = list]
  OBVIOUS
<1>4. f.generation = e.generation /\ f.lutReady = e.lutReady /\ HasFields(f)
  BY <1>2, <1>3 DEF HasFields
<1>5. PICK g : g = Generation(f) /\ g \in Nat /\ g = Generation(env)
  BY <1>2, <1>4 DEF Generation, HasFields
<1>6. PICK known : known = (f.lutReady /\ "lut" \notin changed)
  OBVIOUS
<1>7. known \in BOOLEAN
  BY <1>6, Zenon
<1>8. PICK lut : lut = ~known
  OBVIOUS
<1>9. lut \in BOOLEAN
  BY <1>8, Zenon
<1>10. PICK plan : plan = [NoPlan EXCEPT !.lut = lut]
  OBVIOUS
<1>11. plan \in Plans /\ ~plan.capture /\ plan.count = 0
  BY <1>9, <1>10, Names DEF NoPlan, Plans
<1>12. PICK h : h = [f EXCEPT !.generation = g, !.lutReady = known]
  OBVIOUS
<1>13. PICK k : k = [h EXCEPT !.plan = plan]
  OBVIOUS
<1>14. PICK released : released = ReleaseRetired([env |-> env, store |-> st], frame)
  OBVIOUS
<1>15. released = [env |-> f, store |-> left] /\ released.env = f
  BY <1>1, <1>2, <1>3, <1>14
<1>16. PICK seen : seen = DetectShaderChanges(released)
  OBVIOUS
<1>17. seen = [env |-> h, store |-> left] /\ seen.env = h
  <2>1. seen = [released EXCEPT !.env.generation = Generation(released.env),
                                !.env.lutReady = @ /\ "lut" \notin changed]
    BY <1>16, Zenon DEF DetectShaderChanges
  <2>2. [f EXCEPT !.generation = Generation(f), !.lutReady = @ /\ "lut" \notin changed] = h
    BY <1>5, <1>6, <1>12
  <2>. QED  BY <1>15, <2>1, <2>2
<1>18. HasFields(h) /\ h.lutReady = known
  BY <1>4, <1>5, <1>7, <1>12 DEF HasFields
<1>19. t = [env |-> k, store |-> left] /\ t.env = k
  <2>1. t = [seen EXCEPT !.env.plan = [NoPlan EXCEPT !.lut = ~seen.env.lutReady]]
    BY <1>14, <1>16, Zenon DEF Fresh
  <2>2. [NoPlan EXCEPT !.lut = ~seen.env.lutReady] = plan
    BY <1>8, <1>10, <1>17, <1>18, Zenon
  <2>. QED  BY <1>13, <1>17, <2>1, <2>2
<1>20. HasFields(k) /\ k.plan = plan
  BY <1>11, <1>13, <1>18 DEF HasFields
<1>21. /\ SameSource(env, k) /\ SameDecode(env, k) /\ k.generation = g
       /\ k.liveKey = env.liveKey /\ k.liveSet = env.liveSet /\ k.built = env.built
  BY <1>2, <1>3, <1>4, <1>12, <1>13, <1>18 DEF HasFields, SameSource, SameDecode
<1>22. SourceHolds(k) /\ BuildGoesOn(k) /\ LiveIsWhole(k)
  BY <1>21 DEF Lights, SameSource, SameDecode, SourceHolds, BuildGoesOn, LiveIsWhole, IsLoaded
<1>. QED  BY <1>5, <1>11, <1>19, <1>20, <1>21, <1>22 DEF IsState, Lights, Idle

LEMMA PreparedLights ==
  ASSUME NEW e, NEW f, Lights(e), Prepared(e, f)
  PROVE  Lights(f)
<1>1. BuildGoesOn(f)
  BY DEF Lights, Prepared, SameLight, SameSource, BuildGoesOn
<1>2. LiveIsWhole(f)
  BY DEF Lights, Prepared, SameLight, LiveIsWhole
<1>. QED  BY <1>1, <1>2 DEF Prepared, Lights

(* For a file nothing is left to be taken, and it is there, or failed, or    *)
(* still to come.                                                            *)
LEMMA SourcePrepared ==
  ASSUME NEW s, IsState(s), Lights(s.env), desired \in Skies \cup Files, NEW frame,
         NEW t, t = PrepareSource(s, frame)
  PROVE  /\ IsState(t) /\ Lights(t.env) /\ t.env.plan = s.env.plan
         /\ t.env.generation = s.env.generation /\ t.env.liveKey = s.env.liveKey
         /\ desired \in Skies =>
              /\ t.env.source = ProceduralSky
              /\ s.env.source = ProceduralSky => t.env = s.env
         /\ desired \in Files =>
              /\ ~t.env.decode.ready
              /\ ~s.env.decode.ready /\ t.env.decode = NoDecode =>
                   t.env.source = desired \/ t.env.decodeError = desired
<1>1. CASE desired \in Skies
  <2>1. t = EnsureProceduralRadiance(s, frame) /\ desired \notin Files
    BY <1>1, Names DEF PrepareSource
  <2>2. IsState(t) /\ Prepared(s.env, t.env) /\ t.env.source = ProceduralSky
    BY <2>1, SkyPrepared DEF Lights
  <2>3. s.env.source = ProceduralSky => t = s
    BY <2>1, Names DEF EnsureProceduralRadiance, Lights, SourceHolds
  <2>4. Lights(t.env)
    BY <2>2, PreparedLights
  <2>. QED  BY <1>1, <2>1, <2>2, <2>3, <2>4 DEF Prepared, SameLight
<1>2. CASE desired \in Files
  <2>1. PICK u : u = StartDecode(s)
    OBVIOUS
  <2>2. t = TakeDecode(u, frame) /\ desired \notin Skies /\ desired # Flat
    BY <1>2, <2>1, Names DEF PrepareSource
  <2>3. /\ IsState(u) /\ SameLight(s.env, u.env) /\ SameSource(s.env, u.env) /\ SourceHolds(u.env)
        /\ \/ /\ SameDecode(s.env, u.env)
              /\ \/ s.env.source = desired \/ s.env.decode.path = desired
                 \/ s.env.decodeError = desired
           \/ u.env.decode.path = desired
    BY <1>2, <2>1, DecodeStarted DEF Lights
  <2>4. /\ IsState(t) /\ Prepared(u.env, t.env)
        /\ ~u.env.decode.ready => t = u
        /\ u.env.decode.ready =>
             /\ t.env.decode = NoDecode
             /\ \/ /\ u.env.decode.path \in BadFiles /\ t.env.decodeError = u.env.decode.path
                \/ /\ u.env.decode.path \notin BadFiles /\ t.env.source = u.env.decode.path
                   /\ t.env.decodeError = u.env.decodeError
    BY <2>2, <2>3, DecodeTaken
  <2>5. Prepared(s.env, u.env)
    BY <2>3 DEF Prepared, IsState
  <2>6. Lights(t.env)
    BY <2>4, <2>5, PreparedLights
  <2>7. ~t.env.decode.ready
    BY <2>4 DEF NoDecode
  <2>8. ASSUME ~s.env.decode.ready, t.env.decode = NoDecode
        PROVE  t.env.source = desired \/ t.env.decodeError = desired
    <3>1. CASE u.env.decode.ready
      BY <2>3, <2>4, <2>8, <3>1 DEF SameDecode
    <3>2. CASE ~u.env.decode.ready
      BY <2>2, <2>3, <2>4, <2>8, <3>2 DEF SameDecode, SameSource, NoDecode
    <3>. QED  BY <3>1, <3>2
  <2>. QED  BY <2>2, <2>3, <2>4, <2>6, <2>7, <2>8 DEF Prepared, SameLight
<1>. QED  BY <1>1, <1>2

SameImages(e, f) ==
  /\ f.radiance = e.radiance /\ f.source = e.source /\ f.cubeSource = e.cubeSource
  /\ f.holds = e.holds /\ f.equirect = e.equirect /\ f.panorama = e.panorama

(* A build that was just started, from a source that is what is wished.      *)
Starts(e) ==
  LET b == e.building IN
  /\ HasRadiance(e)
  /\ b.key # NoKey /\ b.key.of = desired
  /\ ~b.captured /\ b.faces = 0
  /\ b.amortized => desired \in Skies /\ e.liveKey # NoKey /\ b.target = 1 - e.liveSet

LEMMA BuildStarted ==
  ASSUME NEW e, Lights(e), desired \in Skies \cup Files, amortize \in BOOLEAN,
         NEW f, f = StartBuild(e)
  PROVE  \/ /\ f = e
            /\ e.building # NoBuild \/ ~HasRadiance(e) \/ e.liveKey = DesiredKey(e)
         \/ /\ e.building = NoBuild /\ e.liveKey # DesiredKey(e)
            /\ HasFields(f) /\ SameLight(e, f) /\ SameImages(e, f) /\ SameDecode(e, f)
            /\ f.building # NoBuild /\ f.building.key = DesiredKey(e) /\ Starts(f)
<1>1. CASE e.building # NoBuild \/ ~HasRadiance(e) \/ e.liveKey = DesiredKey(e)
  BY <1>1, Zenon DEF StartBuild
<1>2. CASE ~(e.building # NoBuild \/ ~HasRadiance(e) \/ e.liveKey = DesiredKey(e))
  <2>1. HasFields(e) /\ desired \in Environments /\ amortize \in BOOLEAN
    BY Names DEF Lights
  <2>2. PICK first : first = (e.liveKey = NoKey)
    OBVIOUS
  <2>3. PICK amortized : amortized = (amortize /\ desired \in Skies /\ ~first)
    OBVIOUS
  <2>4. amortized \in BOOLEAN
    BY <2>3, Zenon
  <2>5. PICK target : target = IF first THEN 0 ELSE 1 - e.liveSet
    OBVIOUS
  <2>6. target \in Sets
    <3>1. e.liveSet \in {0, 1}
      BY <2>1 DEF HasFields, Sets
    <3>. QED  BY <2>5, <3>1 DEF Sets
  <2>7. PICK key : key = DesiredKey(e)
    OBVIOUS
  <2>8. key \in Keys /\ key # NoKey /\ key.of = desired
    <3>1. PICK n \in Nat : n = e.generation
      BY <2>1 DEF HasFields
    <3>2. key = [of |-> desired, generation |-> n]
      BY <2>7, <3>1 DEF DesiredKey
    <3>3. n # -1
      OBVIOUS
    <3>. QED  BY <2>1, <3>2, <3>3 DEF Keys, NoKey
  <2>9. PICK b : b = [key |-> key, target |-> target, amortized |-> amortized,
                      captured |-> FALSE, faces |-> 0]
    OBVIOUS
  <2>10. b \in Builds /\ b.key = key /\ b.target = target /\ b.amortized = amortized
         /\ ~b.captured /\ b.faces = 0
    BY <2>4, <2>6, <2>8, <2>9 DEF Builds
  <2>11. f = [e EXCEPT !.building = b]
    BY <1>2, <2>2, <2>3, <2>5, <2>7, <2>9, Zenon DEF StartBuild
  <2>12. HasFields(f) /\ SameLight(e, f) /\ SameImages(e, f) /\ SameDecode(e, f) /\ f.building = b
    BY <2>1, <2>10, <2>11 DEF HasFields, SameLight, SameImages, SameDecode
  <2>13. b # NoBuild
    BY <2>8, <2>10 DEF NoBuild
  <2>14. HasRadiance(f)
    BY <1>2, <2>12 DEF HasRadiance, SameImages, IsLoaded
  <2>15. amortized => desired \in Skies /\ e.liveKey # NoKey /\ target = 1 - e.liveSet
    BY <2>2, <2>3, <2>5, Zenon
  <2>16. Starts(f)
    BY <2>8, <2>10, <2>12, <2>14, <2>15 DEF Starts, SameLight
  <2>. QED  BY <1>2, <2>7, <2>10, <2>12, <2>13, <2>16
<1>. QED  BY <1>1, <1>2

(* What a frame makes of a build that goes on or has started.                *)
PlansFor(b, plan) ==
  /\ plan \in Plans
  /\ plan.target = b.target
  /\ b.captured => ~plan.capture /\ plan.first = b.faces /\ plan.count = 1
  /\ ~b.captured => /\ plan.capture /\ plan.first = 0
                    /\ plan.count = IF b.amortized THEN 0 ELSE FaceCount

IsLastFrame(b) == IF b.captured THEN Flips(b) ELSE ~b.amortized

LEMMA FramePlanned ==
  ASSUME NEW e, HasFields(e), NEW b, b = e.building, b # NoBuild, NEW f, f = PlanFrame(e)
  PROVE  /\ HasFields(f) /\ SameImages(e, f) /\ SameDecode(e, f) /\ PlansFor(b, f.plan)
         /\ f.generation = e.generation /\ f.built = e.built
         /\ IsLastFrame(b) => f.liveSet = b.target /\ f.liveKey = b.key /\ f.building = NoBuild
         /\ ~IsLastFrame(b) =>
              /\ f.liveSet = e.liveSet /\ f.liveKey = e.liveKey
              /\ f.building \in Builds /\ f.building.captured
              /\ f.building.key = b.key /\ f.building.target = b.target
              /\ f.building.faces = b.faces + f.plan.count
<1>1. b \in Builds /\ e.plan \in Plans
  BY DEF HasFields
<1>2. PICK capture : capture = ~b.captured
  OBVIOUS
<1>3. capture \in BOOLEAN
  BY <1>2, Zenon
<1>4. PICK flip : flip = IF b.captured THEN Flips(b) ELSE ~b.amortized
  OBVIOUS
<1>5. flip \in BOOLEAN /\ (flip <=> IsLastFrame(b))
  <2>1. Flips(b) \in BOOLEAN
    BY DEF Flips
  <2>. QED  BY <1>4, <2>1, Zenon DEF IsLastFrame
<1>6. PICK first : first = IF b.captured THEN b.faces ELSE 0
  OBVIOUS
<1>7. PICK count : count = IF b.captured THEN 1 ELSE IF b.amortized THEN 0 ELSE FaceCount
  OBVIOUS
<1>8. first \in Nat /\ count \in Nat
  BY <1>1, <1>6, <1>7, Names DEF Builds
<1>9. PICK lut \in BOOLEAN, target \in Sets : lut = e.plan.lut /\ target = b.target
  BY <1>1 DEF Plans, Builds
<1>10. PICK plan : plan = [lut |-> lut, target |-> target, capture |-> capture,
                           first |-> first, count |-> count, flip |-> flip]
  OBVIOUS
<1>11. /\ plan \in Plans /\ plan.target = target /\ plan.first = first /\ plan.count = count
  BY <1>3, <1>5, <1>8, <1>9, <1>10 DEF Plans
<1>12. (plan.capture <=> capture) /\ (plan.flip <=> flip)
  BY <1>10
<1>13. PlansFor(b, plan)
  BY <1>2, <1>6, <1>7, <1>9, <1>11, <1>12 DEF PlansFor
<1>14. f = IF plan.flip
           THEN [e EXCEPT !.plan = plan, !.liveSet = b.target, !.liveKey = b.key,
                          !.building = NoBuild]
           ELSE [e EXCEPT !.plan = plan, !.building.captured = TRUE,
                          !.building.faces = @ + plan.count]
  BY <1>2, <1>4, <1>6, <1>7, <1>9, <1>10, Zenon DEF PlanFrame
<1>15. CASE flip
  <2>1. f = [e EXCEPT !.plan = plan, !.liveSet = target, !.liveKey = b.key, !.building = NoBuild]
    BY <1>9, <1>12, <1>14, <1>15
  <2>2. b.key \in Keys
    BY <1>1 DEF Builds
  <2>3. /\ HasFields(f) /\ SameImages(e, f) /\ SameDecode(e, f) /\ f.plan = plan
        /\ f.generation = e.generation /\ f.built = e.built
        /\ f.liveSet = target /\ f.liveKey = b.key /\ f.building = NoBuild
    BY <1>11, <2>1, <2>2, Names DEF HasFields, SameImages, SameDecode
  <2>. QED  BY <1>5, <1>9, <1>13, <1>15, <2>3
<1>16. CASE ~flip
  <2>1. PICK c : c = [b EXCEPT !.captured = TRUE, !.faces = @ + count]
    OBVIOUS
  <2>2. c \in Builds /\ c.captured /\ c.key = b.key /\ c.target = b.target /\ c.faces = b.faces + count
    <3>1. PICK k \in Keys, t \in Sets, a \in BOOLEAN, n \in Nat, d \in BOOLEAN :
            b = [key |-> k, target |-> t, amortized |-> a, faces |-> n, captured |-> d]
      BY <1>1 DEF Builds
    <3>2. PICK yes, x : yes = TRUE /\ x = [b EXCEPT !.captured = yes]
      OBVIOUS
    <3>3. x = [key |-> k, target |-> t, amortized |-> a, faces |-> n, captured |-> yes]
      <4>1. x = [b EXCEPT !.captured = yes]
        BY <3>2
      <4>. QED  BY <3>1, <4>1
    <3>4. c = [x EXCEPT !.faces = @ + count]
      <4>1. x.faces = b.faces
        BY <3>1, <3>3
      <4>. QED  BY <2>1, <3>2, <4>1, Zenon
    <3>5. c = [key |-> k, target |-> t, amortized |-> a, faces |-> n + count, captured |-> yes]
      BY <3>3, <3>4
    <3>6. yes \in BOOLEAN /\ yes
      BY <3>2, Zenon
    <3>. QED  BY <1>8, <3>1, <3>5, <3>6 DEF Builds
  <2>3. f = [e EXCEPT !.plan = plan, !.building = c]
    <3>1. f = [e EXCEPT !.plan = plan, !.building.captured = TRUE, !.building.faces = @ + count]
      BY <1>11, <1>12, <1>14, <1>16
    <3>. QED  BY <2>1, <3>1 DEF HasFields
  <2>4. /\ HasFields(f) /\ SameImages(e, f) /\ SameDecode(e, f) /\ f.plan = plan
        /\ f.generation = e.generation /\ f.built = e.built
        /\ f.liveSet = e.liveSet /\ f.liveKey = e.liveKey /\ f.building = c
    BY <1>11, <2>2, <2>3 DEF HasFields, SameImages, SameDecode
  <2>. QED  BY <1>5, <1>11, <1>13, <1>16, <2>2, <2>4
<1>. QED  BY <1>15, <1>16, <1>5, Zenon

Works(e) == IsLoaded(e) /\ (e.plan.capture \/ e.plan.count # 0)

Radiance(e) == IF e.plan.capture THEN Captured(e) ELSE e.holds

LEMMA SetIsBuilt ==
  ASSUME NEW e, HasFields(e), desired \in Environments, NEW set, set = BuiltSet(e)
  PROVE  /\ Radiance(e) \in Contents /\ set \in BuiltSets
         /\ e.plan.capture => set.base = Radiance(e)
         /\ ~e.plan.capture => set.base = e.built[e.plan.target].base
         /\ \A f \in Faces :
              set.face[f] = IF f \in e.plan.first .. e.plan.first + e.plan.count - 1
                            THEN Radiance(e) ELSE e.built[e.plan.target].face[f]
<1>1. PICK r : r = Radiance(e)
  OBVIOUS
<1>2. r \in Contents
  BY <1>1 DEF Radiance, Captured, HasFields, Contents
<1>3. PICK before \in BuiltSets : before = e.built[e.plan.target]
  BY DEF HasFields, Plans
<1>4. PICK base : base = IF e.plan.capture THEN r ELSE before.base
  OBVIOUS
<1>5. PICK planned : planned = e.plan.first .. e.plan.first + e.plan.count - 1
  OBVIOUS
<1>6. PICK face : face = [f \in Faces |-> IF f \in planned THEN r ELSE before.face[f]]
  OBVIOUS
<1>7. base \in Contents /\ face \in [Faces -> Contents]
  BY <1>2, <1>3, <1>4, <1>6 DEF BuiltSets
<1>8. set = [base |-> base, face |-> face]
  <2>1. set = [base |-> IF e.plan.capture THEN r ELSE before.base,
               face |-> [f \in Faces |-> IF f \in planned THEN r ELSE before.face[f]]]
    BY <1>1, <1>3, <1>5, Zenon DEF BuiltSet, Radiance
  <2>. QED  BY <1>4, <1>6, <2>1
<1>. QED  BY <1>1, <1>2, <1>3, <1>4, <1>5, <1>6, <1>7, <1>8 DEF BuiltSets

(* What record() changes, with the frame's compute work or without it.       *)
Recorded(e, f) ==
  /\ HasFields(f) /\ SameDecode(e, f)
  /\ f.generation = e.generation /\ f.liveSet = e.liveSet /\ f.liveKey = e.liveKey
  /\ f.building = e.building
  /\ f.radiance = e.radiance /\ f.source = e.source /\ f.cubeSource = e.cubeSource
  /\ f.panorama = e.panorama /\ f.equirect \in {e.equirect, NoImages}
  /\ ~Works(e) => f.built = e.built /\ f.holds = e.holds
  /\ Works(e) => /\ f.built = [e.built EXCEPT ![e.plan.target] = BuiltSet(e)]
                 /\ f.holds = Radiance(e)

LEMMA FrameRecorded ==
  ASSUME NEW s, IsState(s), desired \in Environments, NEW e, e = s.env, NEW frame,
         NEW t, t = RecordEnvironment(s, frame), NEW f, f = t.env
  PROVE  Recorded(e, f)
<1>1. PICK lut : lut = (e.lutReady \/ e.plan.lut)
  OBVIOUS
<1>2. lut \in BOOLEAN
  BY <1>1, Zenon
<1>3. PICK store0 : s = [env |-> e, store |-> store0] /\ HasFields(e)
  BY DEF IsState
<1>4. CASE ~Works(e)
  <2>1. t = [s EXCEPT !.env.lutReady = @ \/ e.plan.lut]
    BY <1>4, Zenon DEF RecordEnvironment, Works
  <2>2. f = [e EXCEPT !.lutReady = lut]
    BY <1>1, <1>3, <2>1
  <2>3. /\ HasFields(f) /\ SameDecode(e, f)
        /\ f.generation = e.generation /\ f.liveSet = e.liveSet /\ f.liveKey = e.liveKey
        /\ f.building = e.building
        /\ f.radiance = e.radiance /\ f.source = e.source /\ f.cubeSource = e.cubeSource
        /\ f.panorama = e.panorama /\ f.equirect = e.equirect
        /\ f.built = e.built /\ f.holds = e.holds
    <3>1. HasFields(e)
      BY <1>3
    <3>. QED  BY <1>2, <2>2, <3>1 DEF HasFields, SameDecode
  <2>. QED  BY <1>4, <2>3 DEF Recorded
<1>5. CASE Works(e)
  <2>1. PICK set, h, target : set = BuiltSet(e) /\ h = Radiance(e) /\ target = e.plan.target
    OBVIOUS
  <2>2. set \in BuiltSets /\ h \in Contents
    BY <1>3, <2>1, SetIsBuilt
  <2>3. PICK sets1 : sets1 = [e.built EXCEPT ![target] = set]
    OBVIOUS
  <2>4. sets1 \in [Sets -> BuiltSets]
    BY <1>3, <2>2, <2>3 DEF HasFields
  <2>5. PICK g : g = [e EXCEPT !.lutReady = lut, !.built = sets1, !.holds = h]
    OBVIOUS
  <2>6. PICK worked : worked = [s EXCEPT !.env.lutReady = @ \/ e.plan.lut,
                                         !.env.built[e.plan.target] = BuiltSet(e),
                                         !.env.holds = IF e.plan.capture THEN Captured(e) ELSE @]
    OBVIOUS
  <2>7. worked = [env |-> g, store |-> store0] /\ worked.env = g
    <3>1. PICK u : u = [e EXCEPT !.lutReady = lut]
      OBVIOUS
    <3>2. PICK v : v = [u EXCEPT !.built = sets1]
      OBVIOUS
    <3>3. HasFields(e)
      BY <1>3
    <3>4. u.built = e.built /\ v.holds = e.holds
      BY <3>1, <3>2, <3>3 DEF HasFields
    <3>5. g = [v EXCEPT !.holds = h]
      BY <2>5, <3>1, <3>2
    <3>6. PICK v1, v2 : /\ v1 = [s EXCEPT !.env.lutReady = lut]
                        /\ v2 = [v1 EXCEPT !.env.built[target] = set]
      OBVIOUS
    <3>7. v1 = [env |-> u, store |-> store0]
      BY <1>3, <3>1, <3>6
    <3>8. v2 = [env |-> v, store |-> store0]
      <4>1. v = [u EXCEPT !.built[target] = set]
        BY <2>3, <3>2, <3>4
      <4>2. v2 = [v1 EXCEPT !.env.built[target] = set] /\ v1.env = u
        BY <3>6, <3>7
      <4>3. v2 = [v1 EXCEPT !.env = [u EXCEPT !.built[target] = set]]
        BY <4>2
      <4>. QED  BY <3>7, <4>1, <4>3
    <3>9. worked = [v2 EXCEPT !.env.holds = IF e.plan.capture THEN Captured(e) ELSE v2.env.holds]
      <4>1. lut = (s.env.lutReady \/ e.plan.lut)
        BY <1>1
      <4>. QED  BY <2>1, <2>6, <3>6, <4>1, Zenon
    <3>10. h = IF e.plan.capture THEN Captured(e) ELSE v2.env.holds
      BY <2>1, <3>4, <3>8 DEF Radiance
    <3>. QED  BY <3>5, <3>8, <3>9, <3>10
  <2>8. /\ HasFields(g) /\ SameDecode(e, g)
        /\ g.generation = e.generation /\ g.liveSet = e.liveSet /\ g.liveKey = e.liveKey
        /\ g.building = e.building
        /\ g.radiance = e.radiance /\ g.source = e.source /\ g.cubeSource = e.cubeSource
        /\ g.panorama = e.panorama /\ g.equirect = e.equirect
        /\ g.built = sets1 /\ g.holds = h
    <3>1. HasFields(e)
      BY <1>3
    <3>. QED  BY <1>2, <2>2, <2>4, <2>5, <3>1 DEF HasFields, SameDecode
  <2>9. PICK due : due = Retire(worked, frame, e.equirect, {})
    OBVIOUS
  <2>10. \/ t = worked
         \/ t = [due EXCEPT !.env.equirect = NoImages, !.env.projection = FALSE]
    BY <1>5, <2>6, <2>9, Zenon DEF RecordEnvironment, Works
  <2>11. CASE t = worked
    BY <1>5, <2>1, <2>3, <2>7, <2>8, <2>11 DEF Recorded
  <2>12. CASE t = [due EXCEPT !.env.equirect = NoImages, !.env.projection = FALSE]
    <3>1. IsState(worked)
      BY <2>7, <2>8 DEF IsState
    <3>2. IsState(due) /\ SameLight(g, due.env) /\ SameSource(g, due.env) /\ SameDecode(g, due.env)
      BY <2>7, <2>9, <3>1, Retiring
    <3>3. PICK k, store1, no : due = [env |-> k, store |-> store1] /\ HasFields(k) /\ k = due.env
                               /\ no = FALSE
      BY <3>2 DEF IsState
    <3>4. f = [k EXCEPT !.equirect = NoImages, !.projection = no]
      BY <2>12, <3>3
    <3>5. HasFields(k)
      BY <3>3
    <3>6. /\ HasFields(f) /\ SameDecode(k, f) /\ SameLight(k, f)
          /\ f.building = k.building /\ f.holds = k.holds
          /\ f.radiance = k.radiance /\ f.source = k.source /\ f.cubeSource = k.cubeSource
          /\ f.panorama = k.panorama /\ f.equirect = NoImages
      BY <3>4, <3>5 DEF HasFields, SameDecode, SameLight
    <3>. QED  BY <1>5, <2>1, <2>3, <2>8, <3>2, <3>3, <3>6
           DEF SameLight, SameSource, SameDecode, Recorded
  <2>. QED  BY <2>10, <2>11, <2>12
<1>. QED  BY <1>4, <1>5

(* A capture is of what is wished, or of a panorama that was let go.         *)
LEMMA CapturedIsWished ==
  ASSUME NEW e, HasFields(e), SourceHolds(e), HasRadiance(e), desired \in Skies \cup Files
  PROVE  /\ Captured(e) \in {desired, Garbage}
         /\ desired \in Skies => Captured(e) = desired
         /\ e.cubeSource => Captured(e) = e.source
<1>1. CASE desired \in Skies
  <2>1. e.source = ProceduralSky /\ ~e.cubeSource
    BY <1>1, Names DEF HasRadiance, SourceHolds
  <2>. QED  BY <2>1 DEF Captured
<1>2. CASE desired \in Files
  <2>1. e.source = desired /\ desired # ProceduralSky /\ desired # Flat
    BY <1>2, Names DEF HasRadiance
  <2>2. e.cubeSource => e.holds = desired
    BY <2>1 DEF SourceHolds
  <2>3. ~e.cubeSource => desired \in Panoramas
    BY <2>1, Names DEF SourceHolds, HasFields, Sources
  <2>4. ~e.cubeSource => e.equirect = NoImages \/ e.panorama = desired
    BY <2>1, <2>3 DEF SourceHolds
  <2>5. desired \notin Skies
    BY <1>2, Names
  <2>. QED  BY <2>1, <2>2, <2>4, <2>5 DEF Captured
<1>. QED  BY <1>1, <1>2

(* The build of this frame: one that started, or one that goes on.           *)
Building(e) ==
  LET b == e.building IN
  /\ HasFields(e) /\ SourceHolds(e) /\ LiveIsWhole(e)
  /\ b # NoBuild
  /\ Starts(e) \/ BuildGoesOn(e)

BuildNames(e) == IF e.source = ProceduralSky THEN {e.building.key.of}
             ELSE {e.building.key.of, Garbage}

LEMMA BuildOfFrame ==
  ASSUME NEW e, Building(e), NEW b, b = e.building, desired \in Skies \cup Files
  PROVE  /\ b \in Builds /\ IsLoaded(e) /\ b.key # NoKey /\ b.key \in Keys
         /\ b.captured => /\ e.source = ProceduralSky /\ e.liveKey # NoKey
                          /\ b.target = 1 - e.liveSet
                          /\ b.faces < FaceCount /\ b.key.of = e.holds
                          /\ MadeFrom(e.built[b.target], {b.key.of}, b.faces)
         /\ ~b.captured => /\ b.faces = 0
                           /\ Captured(e) \in BuildNames(e)
                           /\ b.amortized => /\ e.source = ProceduralSky
                                             /\ desired \in Skies /\ e.liveKey # NoKey
                                             /\ b.target = 1 - e.liveSet
         /\ e.cubeSource => ~b.captured /\ Captured(e) = e.source
<1>1. HasFields(e) /\ SourceHolds(e) /\ b # NoBuild
  BY DEF Building
<1>2. b \in Builds /\ b.key \in Keys
  BY <1>1 DEF HasFields, Builds
<1>3. CASE BuildGoesOn(e)
  <2>1. /\ b.captured /\ e.source = ProceduralSky /\ e.liveKey # NoKey
        /\ b.target = 1 - e.liveSet
        /\ b.faces < FaceCount /\ b.key.of = e.holds /\ b.key # NoKey
        /\ MadeFrom(e.built[b.target], {b.key.of}, b.faces)
    BY <1>1, <1>3 DEF BuildGoesOn
  <2>2. ~e.cubeSource /\ IsLoaded(e)
    BY <1>1, <2>1, Names DEF SourceHolds
  <2>. QED  BY <1>2, <2>1, <2>2
<1>4. CASE Starts(e)
  <2>1. /\ HasRadiance(e) /\ b.key # NoKey /\ b.key.of = desired
        /\ ~b.captured /\ b.faces = 0
        /\ b.amortized => desired \in Skies /\ e.liveKey # NoKey /\ b.target = 1 - e.liveSet
    BY <1>4 DEF Starts
  <2>2. /\ Captured(e) \in {desired, Garbage}
        /\ desired \in Skies => Captured(e) = desired
        /\ e.cubeSource => Captured(e) = e.source
    BY <1>1, <2>1, CapturedIsWished
  <2>3. IsLoaded(e) /\ (desired \in Skies <=> e.source = ProceduralSky)
    BY <2>1, Names DEF HasRadiance
  <2>4. Captured(e) \in BuildNames(e)
    BY <2>1, <2>2, <2>3 DEF BuildNames
  <2>. QED  BY <1>2, <2>1, <2>2, <2>3, <2>4
<1>. QED  BY <1>3, <1>4 DEF Building

(* The frame's plan makes the next faces from the same capture as those      *)
(* before.                                                                   *)
LEMMA FacesAreMade ==
  ASSUME NEW e, Building(e), NEW b, b = e.building, desired \in Skies \cup Files,
         NEW g, HasFields(g), SameImages(e, g), PlansFor(b, g.plan), g.built = e.built,
         NEW n, n = b.faces + g.plan.count
  PROVE  /\ MadeFrom(BuiltSet(g), BuildNames(e), n)
         /\ BuiltSet(g).base = Radiance(g)
         /\ e.cubeSource => Radiance(g) = e.source
         /\ Works(g)
         /\ n \in Nat
<1>1. PICK set : set = BuiltSet(g)
  OBVIOUS
<1>2. desired \in Environments
  BY Names
<1>3. PICK r : r = Radiance(g)
  OBVIOUS
<1>4. /\ g.plan.capture => set.base = r
      /\ ~g.plan.capture => set.base = g.built[g.plan.target].base
      /\ \A f \in Faces :
           set.face[f] = IF f \in g.plan.first .. g.plan.first + g.plan.count - 1
                         THEN r ELSE g.built[g.plan.target].face[f]
  BY <1>1, <1>2, <1>3, SetIsBuilt
<1>5. b \in Builds /\ IsLoaded(g) /\ Captured(g) = Captured(e) /\ g.holds = e.holds
  BY BuildOfFrame DEF SameImages, IsLoaded, Captured
<1>6. CASE b.captured
  <2>1. /\ e.source = ProceduralSky /\ b.faces < FaceCount /\ b.key.of = e.holds
        /\ MadeFrom(e.built[b.target], {b.key.of}, b.faces) /\ ~e.cubeSource
    BY <1>6, BuildOfFrame
  <2>2. /\ ~g.plan.capture /\ g.plan.first = b.faces /\ g.plan.count = 1
        /\ g.plan.target = b.target
    BY <1>6 DEF PlansFor
  <2>3. r = b.key.of /\ set.base = b.key.of
    BY <1>3, <1>4, <1>5, <2>1, <2>2 DEF Radiance, MadeFrom
  <2>4. PICK k \in Nat : k = b.faces /\ n = k + 1
    BY <1>5, <2>2 DEF Builds
  <2>5. ASSUME NEW f \in Faces, f < n PROVE set.face[f] = r
    <3>1. CASE f = k
      BY <1>4, <2>2, <2>4, <3>1
    <3>2. CASE f # k
      <4>1. f < k /\ f \notin k .. k + 1 - 1
        BY <2>4, <2>5, <3>2 DEF Faces
      <4>2. set.face[f] = e.built[b.target].face[f]
        BY <1>4, <2>2, <2>4, <4>1
      <4>. QED  BY <2>1, <2>3, <2>4, <4>1, <4>2 DEF MadeFrom
    <3>. QED  BY <3>1, <3>2
  <2>6. MadeFrom(set, BuildNames(e), n)
    BY <2>1, <2>3, <2>5 DEF MadeFrom, BuildNames
  <2>. QED  BY <1>1, <1>3, <1>5, <2>1, <2>2, <2>3, <2>4, <2>6 DEF Works
<1>7. CASE ~b.captured
  <2>1. b.faces = 0 /\ Captured(e) \in BuildNames(e) /\ (e.cubeSource => Captured(e) = e.source)
    BY <1>7, BuildOfFrame
  <2>2. /\ g.plan.capture /\ g.plan.first = 0
        /\ g.plan.count = IF b.amortized THEN 0 ELSE FaceCount
    BY <1>7 DEF PlansFor
  <2>3. r = Captured(e) /\ set.base = r
    BY <1>3, <1>4, <1>5, <2>2 DEF Radiance
  <2>4. PICK c \in Nat : c = g.plan.count /\ n = c
    BY <2>1, <2>2, Names
  <2>5. ASSUME NEW f \in Faces, f < n PROVE set.face[f] = r
    BY <1>4, <2>2, <2>4, <2>5 DEF Faces
  <2>6. MadeFrom(set, BuildNames(e), n)
    BY <2>1, <2>3, <2>5 DEF MadeFrom
  <2>. QED  BY <1>1, <1>3, <1>5, <2>1, <2>2, <2>3, <2>4, <2>6 DEF Works
<1>. QED  BY <1>6, <1>7

(* A frame's work on a build: it flips, or goes on with more faces.          *)
LEMMA BuildAdvances ==
  ASSUME NEW e, Building(e), NEW b, b = e.building, desired \in Skies \cup Files,
         NEW s, IsState(s), s.env = PlanFrame(e), NEW frame,
         NEW t, t = RecordEnvironment(s, frame), NEW r, r = t.env
  PROVE  /\ Lights(r) /\ SameDecode(e, r)
         /\ r.generation = e.generation /\ r.source = e.source
         /\ \/ /\ r.building = NoBuild /\ r.liveKey = b.key
               /\ b.captured => b.faces + 1 >= FaceCount
            \/ /\ r.building # NoBuild /\ r.building.key = b.key
               /\ b.captured \/ desired \in Skies
               /\ r.building.faces = IF b.captured THEN b.faces + 1 ELSE 0
<1>1. HasFields(e) /\ SourceHolds(e) /\ LiveIsWhole(e) /\ b # NoBuild /\ desired \in Environments
  BY Names DEF Building
<1>2. PICK g : g = s.env
  OBVIOUS
<1>3. /\ HasFields(g) /\ SameImages(e, g) /\ SameDecode(e, g) /\ PlansFor(b, g.plan)
      /\ g.generation = e.generation /\ g.built = e.built
      /\ IsLastFrame(b) => g.liveSet = b.target /\ g.liveKey = b.key /\ g.building = NoBuild
      /\ ~IsLastFrame(b) =>
           /\ g.liveSet = e.liveSet /\ g.liveKey = e.liveKey
           /\ g.building \in Builds /\ g.building.captured
           /\ g.building.key = b.key /\ g.building.target = b.target
           /\ g.building.faces = b.faces + g.plan.count
  BY <1>1, <1>2, FramePlanned
<1>4. PICK n : n = b.faces + g.plan.count
  OBVIOUS
<1>5. /\ MadeFrom(BuiltSet(g), BuildNames(e), n) /\ BuiltSet(g).base = Radiance(g)
      /\ e.cubeSource => Radiance(g) = e.source
      /\ Works(g) /\ n \in Nat
  BY <1>3, <1>4, FacesAreMade
<1>6. /\ HasFields(r) /\ SameDecode(g, r)
      /\ r.generation = g.generation /\ r.liveSet = g.liveSet /\ r.liveKey = g.liveKey
      /\ r.building = g.building
      /\ r.radiance = g.radiance /\ r.source = g.source /\ r.cubeSource = g.cubeSource
      /\ r.panorama = g.panorama /\ r.equirect \in {g.equirect, NoImages}
      /\ r.built = [g.built EXCEPT ![g.plan.target] = BuiltSet(g)]
      /\ r.holds = Radiance(g)
  <2>1. Recorded(g, r)
    BY <1>1, <1>2, FrameRecorded
  <2>. QED  BY <1>5, <2>1 DEF Recorded
<1>7. PICK target \in Sets : target = b.target /\ g.plan.target = target
  BY <1>1, <1>3 DEF HasFields, Builds, PlansFor
<1>8. /\ r.built[target] = BuiltSet(g)
      /\ \A x \in Sets : x # target => r.built[x] = e.built[x]
  BY <1>1, <1>3, <1>6, <1>7 DEF HasFields
<1>9. SourceHolds(r)
  BY <1>1, <1>3, <1>5, <1>6 DEF SourceHolds, SameImages, SameDecode, IsLoaded
<1>10. /\ b \in Builds /\ b.key # NoKey
       /\ b.captured => /\ e.source = ProceduralSky /\ e.liveKey # NoKey
                        /\ b.target = 1 - e.liveSet /\ b.faces < FaceCount
       /\ ~b.captured => /\ b.faces = 0
                         /\ b.amortized => /\ e.source = ProceduralSky
                                           /\ desired \in Skies /\ e.liveKey # NoKey
                                           /\ b.target = 1 - e.liveSet
  BY BuildOfFrame
<1>11. /\ b.captured => g.plan.count = 1 /\ n = b.faces + 1
       /\ ~b.captured => n = IF b.amortized THEN 0 ELSE FaceCount
  BY <1>3, <1>4, <1>10, Names DEF PlansFor
<1>12. CASE IsLastFrame(b)
  <2>1. r.building = NoBuild /\ r.liveKey = b.key /\ r.liveSet = target
    BY <1>3, <1>6, <1>7, <1>12
  <2>2. n >= FaceCount /\ (b.captured => b.faces + 1 >= FaceCount)
    <3>1. CASE b.captured
      BY <1>12, <1>11, <3>1 DEF IsLastFrame, Flips
    <3>2. CASE ~b.captured
      BY <1>12, <1>11, <3>2, Names DEF IsLastFrame
    <3>. QED  BY <3>1, <3>2
  <2>3. MadeFrom(r.built[r.liveSet], {r.liveKey.of, Garbage}, FaceCount)
    <3>1. \A f \in Faces : f < n
      BY <1>5, <2>2, Names
    <3>. QED  BY <1>5, <1>8, <2>1, <3>1 DEF MadeFrom, BuildNames
  <2>4. BuildGoesOn(r) /\ LiveIsWhole(r)
    BY <2>1, <2>3 DEF BuildGoesOn, LiveIsWhole
  <2>. QED  BY <1>3, <1>6, <1>9, <2>1, <2>2, <2>4 DEF Lights, SameDecode, SameImages
<1>13. CASE ~IsLastFrame(b)
  <2>1. /\ r.liveSet = e.liveSet /\ r.liveKey = e.liveKey
        /\ r.building \in Builds /\ r.building.captured
        /\ r.building.key = b.key /\ r.building.target = target
        /\ r.building.faces = n
    BY <1>3, <1>4, <1>6, <1>7, <1>13
  <2>2. /\ e.source = ProceduralSky /\ e.liveKey # NoKey /\ target = 1 - e.liveSet
        /\ n < FaceCount /\ n = IF b.captured THEN b.faces + 1 ELSE 0
        /\ b.captured \/ desired \in Skies
    <3>1. CASE b.captured
      <4>1. ~(b.faces + 1 >= FaceCount) /\ n = b.faces + 1 /\ b.faces \in Nat
        BY <1>13, <1>10, <1>11, <3>1 DEF IsLastFrame, Flips, Builds
      <4>. QED  BY <1>7, <1>10, <3>1, <4>1, Names
    <3>2. CASE ~b.captured
      <4>1. b.amortized
        BY <1>13, <3>2 DEF IsLastFrame
      <4>. QED  BY <1>7, <1>10, <1>11, <3>2, <4>1, Names
    <3>. QED  BY <3>1, <3>2
  <2>3. b.key # NoKey /\ r.building # NoBuild
    BY <1>10, <2>1 DEF NoBuild
  <2>4. r.built[target].base = b.key.of /\ MadeFrom(r.built[target], {b.key.of}, n)
    BY <1>5, <1>8, <2>2 DEF MadeFrom, BuildNames
  <2>5. BuildGoesOn(r)
    BY <1>3, <1>5, <1>6, <1>8, <2>1, <2>2, <2>3, <2>4 DEF BuildGoesOn, SameImages
  <2>6. LiveIsWhole(r)
    <3>1. e.liveSet \in Sets /\ e.liveSet # target
      BY <1>1, <2>2 DEF HasFields, Sets
    <3>. QED  BY <1>1, <1>8, <2>1, <3>1 DEF LiveIsWhole
  <2>. QED  BY <1>3, <1>6, <1>9, <2>1, <2>2, <2>3, <2>5, <2>6 DEF Lights, SameDecode, SameImages
<1>. QED  BY <1>12, <1>13

(* The builds of one frame under a sky or a file: none, all of one, the      *)
(* first or next part of one, or its last part.                              *)
Advances(e, r) ==
  LET b == e.building IN
  \/ /\ b = NoBuild /\ (~HasRadiance(e) \/ e.liveKey = DesiredKey(e))
     /\ r.building = NoBuild /\ r.liveKey = e.liveKey
  \/ /\ b = NoBuild
     /\ r.building = NoBuild /\ r.liveKey = DesiredKey(e)
  \/ /\ b = NoBuild /\ e.liveKey # DesiredKey(e) /\ desired \in Skies
     /\ r.building # NoBuild /\ r.building.key = DesiredKey(e) /\ r.building.faces = 0
  \/ /\ b # NoBuild
     /\ r.building # NoBuild /\ r.building.key = b.key /\ r.building.faces = b.faces + 1
  \/ /\ b # NoBuild /\ b.faces + 1 >= FaceCount
     /\ r.building = NoBuild /\ r.liveKey = b.key

LEMMA BuildOrNot ==
  ASSUME NEW e, Lights(e), Idle(e), desired \in Skies \cup Files, amortize \in BOOLEAN,
         NEW s, s.env = PlanFrame(StartBuild(e)), NEW left, s = [env |-> s.env, store |-> left],
         NEW frame, NEW t, t = RecordEnvironment(s, frame), NEW r, r = t.env
  PROVE  /\ Lights(r) /\ SameDecode(e, r)
         /\ r.generation = e.generation /\ r.source = e.source
         /\ Advances(e, r)
<1>1. PICK f : f = StartBuild(e)
  OBVIOUS
<1>2. \/ /\ f = e
         /\ e.building # NoBuild \/ ~HasRadiance(e) \/ e.liveKey = DesiredKey(e)
      \/ /\ e.building = NoBuild /\ e.liveKey # DesiredKey(e)
         /\ HasFields(f) /\ SameLight(e, f) /\ SameImages(e, f) /\ SameDecode(e, f)
         /\ f.building # NoBuild /\ f.building.key = DesiredKey(e) /\ Starts(f)
  BY <1>1, BuildStarted
<1>3. desired \in Environments
  BY Names
<1>4. CASE f.building = NoBuild
  <2>1. f = e /\ (~HasRadiance(e) \/ e.liveKey = DesiredKey(e))
    BY <1>2, <1>4
  <2>2. s.env = e
    BY <1>1, <1>4, <2>1 DEF PlanFrame
  <2>3. IsState(s) /\ ~Works(e)
    BY <1>1, <2>1, <2>2, <1>4 DEF IsState, Lights, Works, Idle, PlanFrame
  <2>4. /\ HasFields(r) /\ SameDecode(e, r)
        /\ r.generation = e.generation /\ r.liveSet = e.liveSet /\ r.liveKey = e.liveKey
        /\ r.building = e.building
        /\ r.radiance = e.radiance /\ r.source = e.source /\ r.cubeSource = e.cubeSource
        /\ r.panorama = e.panorama /\ r.equirect \in {e.equirect, NoImages}
        /\ r.built = e.built /\ r.holds = e.holds
    <3>1. Recorded(s.env, r)
      BY <1>3, <2>3, FrameRecorded
    <3>. QED  BY <2>2, <2>3, <3>1 DEF Recorded
  <2>5. SourceHolds(r)
    BY <2>4 DEF Lights, SourceHolds, SameDecode, IsLoaded
  <2>6. BuildGoesOn(r) /\ LiveIsWhole(r)
    BY <1>4, <2>1, <2>4 DEF Lights, BuildGoesOn, LiveIsWhole
  <2>7. Advances(e, r)
    BY <1>4, <2>1, <2>4 DEF Advances
  <2>. QED  BY <2>4, <2>5, <2>6, <2>7 DEF Lights
<1>5. CASE f.building # NoBuild
  <2>1. Building(f)
    <3>1. CASE f = e
      BY <1>5, <3>1 DEF Building, Lights
    <3>2. CASE f # e
      <4>1. SourceHolds(f) /\ LiveIsWhole(f)
        BY <1>2, <3>2 DEF Lights, SourceHolds, LiveIsWhole, SameLight, SameImages, SameDecode, IsLoaded
      <4>. QED  BY <1>2, <1>5, <3>2, <4>1 DEF Building
    <3>. QED  BY <3>1, <3>2
  <2>2. s.env = PlanFrame(f)
    BY <1>1
  <2>3. IsState(s)
    <3>1. HasFields(s.env)
      BY <1>5, <2>1, <2>2, FramePlanned DEF Building
    <3>. QED  BY <2>2, <3>1 DEF IsState
  <2>4. PICK b : b = f.building
    OBVIOUS
  <2>5. /\ Lights(r) /\ SameDecode(f, r)
        /\ r.generation = f.generation /\ r.source = f.source
        /\ \/ /\ r.building = NoBuild /\ r.liveKey = b.key
              /\ b.captured => b.faces + 1 >= FaceCount
           \/ /\ r.building # NoBuild /\ r.building.key = b.key
              /\ b.captured \/ desired \in Skies
              /\ r.building.faces = IF b.captured THEN b.faces + 1 ELSE 0
    BY <2>1, <2>2, <2>3, <2>4, BuildAdvances
  <2>6. CASE f = e
    <3>1. b.captured
      BY <1>5, <2>4, <2>6 DEF Lights, BuildGoesOn
    <3>2. Advances(e, r)
      BY <1>5, <2>4, <2>5, <2>6, <3>1 DEF Advances
    <3>. QED  BY <2>5, <2>6, <3>2
  <2>7. CASE f # e
    <3>1. ~b.captured /\ b.key = DesiredKey(e)
      BY <1>2, <2>4, <2>7 DEF Starts
    <3>2. Advances(e, r)
      BY <1>2, <2>5, <2>7, <3>1 DEF Advances
    <3>. QED  BY <1>2, <2>5, <2>7, <3>2 DEF SameLight, SameImages, SameDecode
  <2>. QED  BY <2>6, <2>7
<1>. QED  BY <1>4, <1>5

(* A frame under a sky or a file, from what prepare() starts from.           *)
LEMMA FrameAdvances ==
  ASSUME LightingInv, desired \in Skies \cup Files, NEW st, NEW made, NEW frame,
         NEW p, p = PrepareEnvironment(st, frame),
         NEW t, t = RecordEnvironment([env |-> p.env, store |-> made], frame)
  PROVE  \E e :
           /\ Lights(t.env) /\ SameDecode(e, t.env)
           /\ t.env.generation = e.generation /\ t.env.source = e.source
           /\ Advances(e, t.env)
           /\ e.generation = Generation(env) /\ e.liveKey = env.liveKey
           /\ Lights(e)
           /\ desired \in Skies =>
                /\ e.source = ProceduralSky
                /\ env.source = ProceduralSky => e.building = env.building
           /\ desired \in Files =>
                /\ ~e.decode.ready
                /\ ~env.decode.ready /\ e.decode = NoDecode =>
                     e.source = desired \/ e.decodeError = desired
<1>1. PICK fresh : fresh = Fresh(st, frame)
  OBVIOUS
<1>2. /\ IsState(fresh) /\ Lights(fresh.env) /\ Idle(fresh.env)
      /\ SameSource(env, fresh.env) /\ SameDecode(env, fresh.env)
      /\ fresh.env.liveKey = env.liveKey
      /\ fresh.env.generation = Generation(env)
  BY <1>1, Freshened DEF LightingInv
<1>3. PICK ready : ready = PrepareSource(fresh, frame)
  OBVIOUS
<1>4. /\ IsState(ready) /\ Lights(ready.env) /\ ready.env.plan = fresh.env.plan
      /\ ready.env.generation = fresh.env.generation /\ ready.env.liveKey = fresh.env.liveKey
      /\ desired \in Skies =>
           /\ ready.env.source = ProceduralSky
           /\ fresh.env.source = ProceduralSky => ready.env = fresh.env
      /\ desired \in Files =>
           /\ ~ready.env.decode.ready
           /\ ~fresh.env.decode.ready /\ ready.env.decode = NoDecode =>
                ready.env.source = desired \/ ready.env.decodeError = desired
  BY <1>2, <1>3, SourcePrepared
<1>5. PICK e : e = ready.env
  OBVIOUS
<1>6. desired # Flat /\ amortize \in BOOLEAN
  BY Names DEF LightingInv
<1>7. p = [ready EXCEPT !.env = PlanFrame(StartBuild(e))]
  BY <1>1, <1>3, <1>5, <1>6, Zenon DEF PrepareEnvironment, Fresh
<1>8. PICK s : s = [env |-> p.env, store |-> made]
  OBVIOUS
<1>9. p.env = PlanFrame(StartBuild(e))
  BY <1>4, <1>7 DEF IsState
<1>10. /\ Lights(t.env) /\ SameDecode(e, t.env)
       /\ t.env.generation = e.generation /\ t.env.source = e.source
       /\ Advances(e, t.env)
  <2>1. /\ s = [env |-> s.env, store |-> made] /\ s.env = PlanFrame(StartBuild(e))
        /\ t = RecordEnvironment(s, frame)
    BY <1>8, <1>9
  <2>2. Idle(e) /\ Lights(e)
    BY <1>2, <1>4, <1>5 DEF Idle
  <2>3. PICK r : r = t.env
    OBVIOUS
  <2>. QED  BY <1>6, <2>1, <2>2, <2>3, BuildOrNot
<1>. QED  BY <1>2, <1>4, <1>5, <1>10 DEF SameSource, SameDecode

(* Flat ambient gives up a build and leaves the rest.                        *)
LEMMA FlatFrame ==
  ASSUME LightingInv, desired = Flat, NEW st, NEW made, NEW frame,
         NEW p, p = PrepareEnvironment(st, frame),
         NEW t, t = RecordEnvironment([env |-> p.env, store |-> made], frame)
  PROVE  Lights(t.env)
<1>1. PICK fresh : fresh = Fresh(st, frame)
  OBVIOUS
<1>2. IsState(fresh) /\ Lights(fresh.env) /\ Idle(fresh.env)
  BY <1>1, Freshened DEF LightingInv
<1>3. p = [fresh EXCEPT !.env.building = NoBuild, !.env.decodeError = Flat]
  BY <1>1, Zenon DEF PrepareEnvironment, Fresh
<1>4. PICK e, f, left : /\ fresh = [env |-> e, store |-> left] /\ Lights(e) /\ Idle(e)
                        /\ f = [e EXCEPT !.building = NoBuild, !.decodeError = Flat]
  BY <1>2 DEF IsState
<1>5. p.env = f
  BY <1>3, <1>4
<1>6. /\ HasFields(f) /\ SameLight(e, f) /\ SameImages(e, f) /\ f.decode = e.decode
      /\ f.building = NoBuild
  BY <1>4, Names DEF Lights, HasFields, SameLight, SameImages
<1>7. ~Works(f)
  BY <1>4, <1>6 DEF Works, Idle, SameLight
<1>8. PICK s : s = [env |-> p.env, store |-> made] /\ s.env = f /\ IsState(s)
  BY <1>5, <1>6 DEF IsState
<1>9. Recorded(f, t.env)
  <2>1. desired \in Environments /\ t = RecordEnvironment(s, frame)
    BY <1>8, Names
  <2>. QED  BY <1>8, <2>1, FrameRecorded
<1>10. SourceHolds(t.env) /\ LiveIsWhole(t.env) /\ BuildGoesOn(t.env)
  BY <1>4, <1>6, <1>7, <1>9
     DEF Recorded, Lights, SourceHolds, LiveIsWhole, BuildGoesOn, SameLight, SameImages,
         SameDecode, IsLoaded
<1>. QED  BY <1>9, <1>10 DEF Recorded, Lights

LEMMA SkyFollows ==
  ASSUME LightingInv, desired \in Skies, NEW e, Lights(e), NEW r, Lights(r),
         r.generation = e.generation, r.source = ProceduralSky, e.source = ProceduralSky,
         Advances(e, r), e.generation = Generation(env), e.liveKey = env.liveKey,
         env.source = ProceduralSky => e.building = env.building
  PROVE  SkyBehind(r, DesiredKey(r), quiet + 1)
<1>1. PICK w : w = DesiredKey(e) /\ w = DesiredKey(r)
  BY DEF DesiredKey
<1>2. HasRadiance(e)
  BY Names DEF HasRadiance, Lights, SourceHolds
<1>3. PICK b, c : b = e.building /\ c = r.building
  OBVIOUS
<1>4. /\ b \in Builds /\ c \in Builds /\ b.faces \in Nat /\ c.faces \in Nat
      /\ b # NoBuild => b.faces < FaceCount
  BY <1>3 DEF Lights, HasFields, BuildGoesOn, Builds
<1>5. quiet \in Nat /\ FaceCount \in Nat \ {0}
  BY Names DEF LightingInv
<1>6. CASE quiet = 0
  BY <1>1, <1>3, <1>4, <1>5, <1>6 DEF SkyBehind, Advances
<1>7. CASE quiet # 0
  <2>1. changed = {} /\ SkyBehind(env, Wished, quiet)
    BY <1>5, <1>7 DEF LightingInv, LightingBehind
  <2>2. Wished = w /\ b = env.building
    <3>1. Generation(env) = env.generation + 0 /\ env.generation \in Nat
      BY <2>1 DEF Generation, LightingInv, Lights, HasFields
    <3>. QED  BY <1>1, <1>3, <2>1, <3>1 DEF Wished, DesiredKey, SkyBehind
  <2>3. /\ b = NoBuild => e.liveKey = w \/ quiet <= FaceCount
        /\ b # NoBuild /\ b.key # w => quiet <= b.faces
        /\ b # NoBuild /\ b.key = w => quiet <= b.faces + FaceCount + 1
    BY <2>1, <2>2 DEF SkyBehind
  <2>. QED  BY <1>1, <1>2, <1>3, <1>4, <1>5, <2>3 DEF SkyBehind, Advances
<1>. QED  BY <1>6, <1>7

LEMMA FileFollows ==
  ASSUME LightingInv, desired \in Files, NEW e, Lights(e), NEW r, Lights(r),
         SameDecode(e, r), r.generation = e.generation, r.source = e.source, Advances(e, r),
         ~e.decode.ready,
         ~env.decode.ready /\ e.decode = NoDecode => e.source = desired \/ e.decodeError = desired
  PROVE  FileBehind(r, DesiredKey(r), IF quiet = 0 THEN 1 ELSE 2)
<1>1. PICK w : w = DesiredKey(e) /\ w = DesiredKey(r) /\ w.of = desired
  <2>1. PICK w : w = DesiredKey(e)
    OBVIOUS
  <2>2. w = DesiredKey(r) /\ w.of = desired
    BY <2>1 DEF DesiredKey
  <2>. QED  BY <2>1, <2>2
<1>2. CASE quiet = 0
  BY <1>1, <1>2 DEF FileBehind, SameDecode
<1>3. CASE quiet # 0
  <2>1. ~env.decode.ready
    BY <1>3 DEF LightingInv, LightingBehind, FileBehind
  <2>2. CASE e.source = desired
    <3>1. e.building = NoBuild /\ HasRadiance(e)
      BY <2>2, Names DEF Lights, SourceHolds, BuildGoesOn, HasRadiance
    <3>2. desired \notin Skies
      BY Names
    <3>. QED  BY <1>1, <3>1, <3>2 DEF FileBehind, Advances, SameDecode
  <2>3. CASE e.source # desired
    BY <1>1, <2>1, <2>3 DEF FileBehind, SameDecode
  <2>. QED  BY <2>2, <2>3
<1>. QED  BY <1>2, <1>3

EnvironmentChanges == WishChanges \/ ShaderChanges \/ Rebuild \/ DecodeFinishes

EnvironmentDrawn ==
  \E st, made, p, t :
    /\ p = PrepareEnvironment(st, frameNumber)
    /\ t = RecordEnvironment([env |-> p.env, store |-> made], frameNumber)
    /\ EnvironmentRecorded(t)

LEMMA StepsOfLighting ==
  ASSUME [Next]_vars
  PROVE  UNCHANGED environmentVars \/ EnvironmentChanges \/ EnvironmentDrawn
<1>1. CASE UNCHANGED vars
  BY <1>1 DEF vars
<1>2. CASE LayoutChanges
  BY <1>2 DEF LayoutChanges
<1>3. CASE MaterialStep
  BY <1>3 DEF MaterialStep, CreateMaterial, UpdateMaterial, RetainMaterial, ReleaseMaterial,
              DestroyMaterial, MaterialChanges
<1>4. CASE TextureStep
  BY <1>4 DEF TextureStep
<1>5. CASE EnvironmentStep
  BY <1>5 DEF EnvironmentStep, EnvironmentChanges
<1>6. CASE FrameStep
  BY <1>6 DEF FrameStep
<1>7. CASE Draw
  <2>1. PICK st : st = ProcessReady(store).store
    OBVIOUS
  <2>2. PICK p : p = PrepareEnvironment(st, frameNumber)
    OBVIOUS
  <2>3. PICK made : made = IF TransientsFit THEN p.store
                           ELSE MakeTransients(ReleaseTransients(p.store))
    OBVIOUS
  <2>4. PICK t : t = RecordEnvironment([env |-> p.env, store |-> made], frameNumber)
    OBVIOUS
  <2>5. EnvironmentRecorded(t)
    BY <1>7, <2>1, <2>2, <2>3, <2>4, Zenon DEF Draw, DrawsFrame
  <2>. QED  BY <2>2, <2>4, <2>5, Zenon DEF EnvironmentDrawn
<1>8. CASE DrawFails
  BY <1>8 DEF DrawFails
<1>9. CASE \E q \in Queues : GpuCopies(q)
  BY <1>9 DEF GpuCopies
<1>. QED  BY <1>1, <1>2, <1>3, <1>4, <1>5, <1>6, <1>7, <1>8, <1>9 DEF Next

LEMMA LightingInitially == Init => LightingInv
<1>. SUFFICES ASSUME EnvironmentInit PROVE LightingInv
  BY DEF Init
<1>1. /\ desired = Flat /\ amortize \in BOOLEAN /\ quiet = 0
  BY DEF EnvironmentInit
<1>2. PICK e : e = env
  OBVIOUS
<1>3. NoSet \in BuiltSets
  BY DEF NoSet, BuiltSets, Contents
<1>4. PICK sets0 : sets0 = [s \in Sets |-> NoSet]
  OBVIOUS
<1>5. sets0 \in [Sets -> BuiltSets]
  BY <1>3, <1>4
<1>6. PICK no, none : no = FALSE /\ none = << >>
  OBVIOUS
<1>7. e = [generation |-> 0, retired |-> none, radiance |-> NoImages, holds |-> Nothing,
           source |-> Flat, cubeSource |-> no, equirect |-> NoImages, panorama |-> Nothing,
           projection |-> no, decode |-> NoDecode, decodeError |-> Flat,
           provided |-> Provided, building |-> NoBuild, liveSet |-> 0, liveKey |-> NoKey,
           built |-> sets0, lutReady |-> no, plan |-> NoPlan]
  BY <1>2, <1>4, <1>6, Zenon DEF EnvironmentInit
<1>8. no \in BOOLEAN /\ ~no
  BY <1>6, Zenon
<1>9. /\ Flat \in Environments /\ Flat \in Sources /\ Nothing \in Contents /\ 0 \in Sets
      /\ NoDecode \in [path: Environments, ready: BOOLEAN]
  BY Names DEF Sources, Contents, Sets, NoDecode
<1>10. HasFields(e)
  BY <1>5, <1>7, <1>8, <1>9, Names DEF HasFields
<1>11. SourceHolds(e) /\ BuildGoesOn(e) /\ LiveIsWhole(e)
  BY <1>7, <1>8, Names DEF SourceHolds, BuildGoesOn, LiveIsWhole, IsLoaded
<1>12. Lights(env)
  BY <1>2, <1>10, <1>11 DEF Lights
<1>. QED  BY <1>1, <1>12, Names DEF LightingInv, LightingBehind

LEMMA ChangesKeepLighting == LightingInv /\ EnvironmentChanges => LightingInv'
<1>. SUFFICES ASSUME LightingInv, EnvironmentChanges PROVE LightingInv'
  OBVIOUS
<1>1. PICK e : e = env /\ HasFields(e) /\ SourceHolds(e) /\ BuildGoesOn(e) /\ LiveIsWhole(e)
  BY DEF LightingInv, Lights
<1>2. quiet' = 0 /\ amortize' = amortize
  BY DEF EnvironmentChanges, WishChanges, ShaderChanges, Rebuild, DecodeFinishes, Change
<1>3. desired' \in Environments
  BY DEF EnvironmentChanges, WishChanges, ShaderChanges, Rebuild, DecodeFinishes, LightingInv
<1>4. Lights(env')
  <2>1. CASE env' = env
    BY <2>1 DEF LightingInv
  <2>2. CASE Rebuild
    <3>1. PICK f, n : n = e.generation + 1 /\ f = [e EXCEPT !.generation = n] /\ env' = f
      BY <1>1, <2>2 DEF Rebuild
    <3>2. n \in Nat
      BY <1>1, <3>1 DEF HasFields
    <3>3. HasFields(f) /\ SameImages(e, f) /\ SameDecode(e, f)
          /\ f.building = e.building /\ f.liveSet = e.liveSet /\ f.liveKey = e.liveKey
          /\ f.built = e.built
      BY <1>1, <3>1, <3>2 DEF HasFields, SameImages, SameDecode
    <3>. QED  BY <1>1, <3>1, <3>3 DEF Lights, SourceHolds, BuildGoesOn, LiveIsWhole, IsLoaded,
                                      SameImages, SameDecode
  <2>3. CASE DecodeFinishes
    <3>1. PICK d, yes : yes = TRUE /\ d = [e.decode EXCEPT !.ready = yes]
      OBVIOUS
    <3>2. yes \in BOOLEAN
      BY <3>1, Zenon
    <3>3. e.decode \in [path: Environments, ready: BOOLEAN]
      BY <1>1 DEF HasFields
    <3>4. d \in [path: Environments, ready: BOOLEAN] /\ d.path = e.decode.path
      <4>1. d = [e.decode EXCEPT !.ready = yes]
        BY <3>1
      <4>. QED  BY <3>2, <3>3, <4>1
    <3>5. PICK f : f = [e EXCEPT !.decode = d] /\ env' = f
      <4>1. env' = [env EXCEPT !.decode.ready = yes]
        BY <2>3, <3>1, Zenon DEF DecodeFinishes
      <4>. QED  BY <1>1, <3>1, <4>1
    <3>6. HasFields(f) /\ SameImages(e, f) /\ f.decode = d
          /\ f.building = e.building /\ f.liveSet = e.liveSet /\ f.liveKey = e.liveKey
          /\ f.built = e.built
      BY <1>1, <3>4, <3>5 DEF HasFields, SameImages
    <3>7. e.decode # NoDecode
      BY <1>1, <2>3 DEF DecodeFinishes
    <3>. QED  BY <1>1, <3>4, <3>5, <3>6, <3>7 DEF Lights, SourceHolds, BuildGoesOn, LiveIsWhole,
                                                  IsLoaded, SameImages
  <2>. QED  BY <2>1, <2>2, <2>3 DEF EnvironmentChanges, WishChanges, ShaderChanges
<1>5. amortize' \in BOOLEAN /\ quiet' \in Nat
  BY <1>2 DEF LightingInv
<1>6. LightingBehind'
  BY <1>2 DEF LightingBehind
<1>7. Lights(env)'
  BY <1>4, Names DEF Lights, HasFields, SourceHolds, BuildGoesOn, LiveIsWhole, MadeFrom,
                     IsLoaded
<1>. QED  BY <1>3, <1>5, <1>6, <1>7 DEF LightingInv

LEMMA DrawingKeepsLighting == LightingInv /\ EnvironmentDrawn => LightingInv'
<1>. SUFFICES ASSUME LightingInv, EnvironmentDrawn PROVE LightingInv'
  OBVIOUS
<1>1. PICK st, made, p, t :
        /\ p = PrepareEnvironment(st, frameNumber)
        /\ t = RecordEnvironment([env |-> p.env, store |-> made], frameNumber)
        /\ EnvironmentRecorded(t)
  BY DEF EnvironmentDrawn
<1>2. PICK r : r = t.env /\ env' = r
  BY <1>1 DEF EnvironmentRecorded
<1>3. /\ changed' = {} /\ desired' = desired /\ amortize' = amortize
      /\ quiet' = IF quiet > 2 * (FaceCount + 1) THEN quiet ELSE quiet + 1
  BY <1>1 DEF EnvironmentRecorded
<1>4. quiet \in Nat /\ FaceCount \in Nat \ {0} /\ desired \in Environments /\ amortize \in BOOLEAN
  BY Names DEF LightingInv
<1>5. /\ quiet' \in Nat /\ quiet' > 0 /\ quiet' <= quiet + 1
      /\ quiet = 0 => quiet' = 1
  BY <1>3, <1>4
<1>6. PICK w : w = DesiredKey(r) /\ w = Wished'
  BY <1>2, <1>3 DEF DesiredKey, Wished
<1>7. /\ Lights(r)
      /\ desired \in Skies => SkyBehind(r, w, quiet + 1)
      /\ desired \in Files => FileBehind(r, w, IF quiet = 0 THEN 1 ELSE 2)
  <2>1. CASE desired = Flat
    BY <1>1, <1>2, <2>1, FlatFrame, Names
  <2>2. CASE desired # Flat
    <3>1. desired \in Skies \cup Files
      BY <1>4, <2>2, Names
    <3>2. PICK e :
           /\ Lights(r) /\ SameDecode(e, r)
           /\ r.generation = e.generation /\ r.source = e.source
           /\ Advances(e, r)
           /\ e.generation = Generation(env) /\ e.liveKey = env.liveKey
           /\ Lights(e)
           /\ desired \in Skies =>
                /\ e.source = ProceduralSky
                /\ env.source = ProceduralSky => e.building = env.building
           /\ desired \in Files =>
                /\ ~e.decode.ready
                /\ ~env.decode.ready /\ e.decode = NoDecode =>
                     e.source = desired \/ e.decodeError = desired
      BY <1>1, <1>2, <3>1, FrameAdvances
    <3>3. desired \in Skies => SkyBehind(r, w, quiet + 1)
      BY <1>6, <3>2, SkyFollows
    <3>4. desired \in Files => FileBehind(r, w, IF quiet = 0 THEN 1 ELSE 2)
      BY <1>6, <3>2, FileFollows
    <3>. QED  BY <3>2, <3>3, <3>4
  <2>. QED  BY <2>1, <2>2
<1>8. desired \in Skies => SkyBehind(r, w, quiet')
  <2>1. PICK b : b = r.building /\ b \in Builds
    BY <1>7 DEF Lights, HasFields
  <2>2. b.faces \in Nat
    BY <2>1 DEF Builds
  <2>. QED  BY <1>4, <1>5, <1>7, <2>1, <2>2 DEF SkyBehind
<1>9. desired \in Files => FileBehind(r, w, quiet')
  BY <1>4, <1>5, <1>7 DEF FileBehind
<1>10. LightingBehind'
  <2>1. desired \in Skies => SkyBehind(env, Wished, quiet)'
    BY <1>2, <1>6, <1>8 DEF SkyBehind
  <2>2. desired \in Files => FileBehind(env, Wished, quiet)'
    BY <1>2, <1>6, <1>9 DEF FileBehind
  <2>. QED  BY <1>3, <2>1, <2>2 DEF LightingBehind
<1>11. Lights(env)'
  BY <1>2, <1>7 DEF Lights, HasFields, SourceHolds, BuildGoesOn, LiveIsWhole, MadeFrom, IsLoaded
<1>. QED  BY <1>3, <1>4, <1>5, <1>10, <1>11 DEF LightingInv

LEMMA LightingKept == LightingInv /\ [Next]_vars => LightingInv'
<1>1. ASSUME LightingInv, UNCHANGED environmentVars PROVE LightingInv'
  <2>1. Lights(env)'
    BY <1>1 DEF environmentVars, LightingInv, Lights, HasFields, SourceHolds, BuildGoesOn,
                LiveIsWhole, MadeFrom, IsLoaded
  <2>2. LightingBehind'
    BY <1>1 DEF environmentVars, LightingInv, LightingBehind, SkyBehind, FileBehind, Wished
  <2>. QED  BY <1>1, <2>1, <2>2 DEF environmentVars, LightingInv
<1>. QED  BY <1>1, StepsOfLighting, ChangesKeepLighting, DrawingKeepsLighting

LEMMA LightsByWholeSets == LightingInv => LitByWholeSets
<1>. SUFFICES ASSUME LightingInv, env.liveKey # NoKey
              PROVE  LET live == env.built[env.liveSet] IN
                     /\ \A f \in Faces : live.face[f] = live.base
                     /\ live.base \in {env.liveKey.of, Garbage}
  BY DEF LitByWholeSets
<1>1. MadeFrom(env.built[env.liveSet], {env.liveKey.of, Garbage}, FaceCount)
  BY DEF LightingInv, Lights, LiveIsWhole
<1>2. \A f \in Faces : f < FaceCount
  BY Names
<1>. QED  BY <1>1, <1>2 DEF MadeFrom

LEMMA LightsInTime == LightingInv => TwoBuildsBehind
<1>. SUFFICES ASSUME LightingInv, quiet > 2 * (FaceCount + 1), desired # Flat,
                     env.decode = NoDecode
              PROVE  env.liveKey = Wished \/ env.decodeError = desired
  BY DEF TwoBuildsBehind
<1>1. quiet \in Nat /\ FaceCount \in Nat \ {0} /\ desired \in Skies \cup Files
  BY Names DEF LightingInv
<1>2. quiet > 2
  BY <1>1
<1>3. CASE desired \in Skies
  <2>1. PICK b : b = env.building /\ b \in Builds
    BY DEF LightingInv, Lights, HasFields
  <2>2. b.faces \in Nat /\ (b # NoBuild => b.faces < FaceCount)
    BY <2>1 DEF Builds, LightingInv, Lights, BuildGoesOn
  <2>3. SkyBehind(env, Wished, quiet)
    BY <1>1, <1>2, <1>3 DEF LightingInv, LightingBehind
  <2>. QED  BY <1>1, <2>1, <2>2, <2>3 DEF SkyBehind
<1>4. CASE desired \in Files
  <2>1. FileBehind(env, Wished, quiet)
    BY <1>1, <1>2, <1>4 DEF LightingInv, LightingBehind
  <2>. QED  BY <1>1, <1>2, <2>1 DEF FileBehind, Wished
<1>. QED  BY <1>1, <1>3, <1>4

(* What is sampled is always a whole build, and the wish is met two builds   *)
(* after the last change: for any skies and files, any number of faces and   *)
(* any mix of changes in the middle of a build.                              *)
THEOREM LightingIsWholeAndInTime == Spec => []LightingFollows
<1>1. Spec => []LightingInv
  BY LightingInitially, LightingKept, PTL DEF Spec
<1>2. LightingInv => LightingFollows
  BY LightsByWholeSets, LightsInTime DEF LightingFollows
<1>. QED  BY <1>1, <1>2, PTL

=============================================================================
