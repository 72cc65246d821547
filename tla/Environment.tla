----------------------------- MODULE Environment -----------------------------
(***************************************************************************)
(* Image based lighting (src/rendering/environment.cxx): the scene asks    *)
(* for an environment, its radiance is decoded from a file or rendered by  *)
(* the sky model, captured into a cube, and prefiltered into one of two    *)
(* sets while the shaders sample the other one.  A build of a changed sky  *)
(* is spread over frames.  Cubes and panoramas that were replaced are kept *)
(* for the frames that may still read them.                                *)
(*                                                                         *)
(* A capture and the faces made from it are the name of the environment    *)
(* they hold.  HDR cubes have one size here.                               *)
(***************************************************************************)
EXTENDS FrameImages

CONSTANTS
  Skies,      \* procedural skies: the suns and turbidities that tell keys apart
  Panoramas,  \* HDR files that hold a panorama
  CubeFiles,  \* HDR files that hold the six faces of a cube
  BadFiles,   \* files that do not decode
  Provided,   \* the panoramas and cubes a pack holds decoded
  Flat,       \* no environment
  Nothing,    \* what an image holds before anything was written
  ProceduralSky, \* what a radiance cube is made from that all skies share
  FaceCount,  \* the faces of a cube, each one frame of an amortized build
  MaxChanges  \* bound of the model: what the user and the shaders change

ASSUME EnvironmentAssumption ==
  /\ FaceCount \in Nat \ {0}
  /\ MaxChanges \in Nat
  /\ Provided \subseteq Panoramas \cup CubeFiles
  /\ Panoramas \cap CubeFiles = {}
  /\ Skies \cap (Panoramas \cup CubeFiles \cup BadFiles) = {}
  /\ Flat \notin Skies \cup Panoramas \cup CubeFiles \cup BadFiles
  /\ ProceduralSky \notin {Flat} \cup Panoramas \cup CubeFiles \cup BadFiles

VARIABLES
  desired,    \* the active scene's environment, set in every frame
  amortize,   \* debug_.amortize_rebuilds
  changed,    \* the shader sets replaced since prepare() last looked
  env,        \* the EnvironmentSystem
  quiet,      \* frames since the wish, the shaders or a decode last changed
  changes     \* how many changes there were

environmentVars == << desired, amortize, changed, env, quiet, changes >>

Files == Panoramas \cup CubeFiles \cup BadFiles

Environments == {Flat} \cup Skies \cup Files

Sets == {0, 1}
Faces == 0 .. FaceCount - 1

\* Sampled by a projection whose panorama was let go: whatever index that is.
Garbage == "garbage"

\* What a holder of images has in it: nothing, or indexes of the pool, in the
\* order in which they go.
NoImages == << >>

NoKey == [of |-> Flat, generation |-> -1]
NoDecode == [path |-> Flat, ready |-> FALSE]
NoBuild == [key |-> NoKey, target |-> 0, amortized |-> FALSE, faces |-> 0,
            captured |-> FALSE]
NoPlan == [lut |-> FALSE, capture |-> FALSE, first |-> 0, count |-> 0,
           flip |-> FALSE, target |-> 0]

\* What is sampled once a set is live: SH and the first mip of all faces come
\* with the capture, the other mips face by face.
NoSet == [base |-> Nothing, face |-> [f \in Faces |-> Nothing]]

IsLoaded(e) == e.radiance # NoImages

EnvironmentInit ==
  /\ desired = Flat
  /\ amortize \in BOOLEAN
  /\ changed = {}
  /\ quiet = 0
  /\ changes = 0
  /\ env = [generation |-> 0,
            retired |-> << >>,
            radiance |-> NoImages,      \* a view of the cube's faces, and the cube
            holds |-> Nothing,          \* what its first mip holds
            source |-> Flat,            \* radiance_source_ and radiance_hdr_
            cubeSource |-> FALSE,       \* radiance_is_cube_source_
            equirect |-> NoImages,      \* the panorama
            panorama |-> Nothing,       \* what it holds
            projection |-> FALSE,       \* equirect_pending_projection_
            decode |-> NoDecode,
            decodeError |-> Flat,
            provided |-> Provided,
            building |-> NoBuild,
            liveSet |-> 0,
            liveKey |-> NoKey,
            built |-> [s \in Sets |-> NoSet],
            lutReady |-> FALSE,
            plan |-> NoPlan]

----------------------------------------------------------------------------
(* Between frames. *)

Change ==
  /\ phase = "between"
  /\ changes < MaxChanges
  /\ changes' = changes + 1
  /\ quiet' = 0

\* The scene's environment is edited, or another scene becomes active.
WishChanges ==
  /\ Change
  /\ desired' \in Environments \ {desired}
  /\ UNCHANGED << amortize, changed, env >>

\* The watcher replaced a shader object of the environment's pipelines.
ShaderChanges ==
  /\ Change
  /\ \E which \in {"lut", "capture"} : changed' = changed \cup {which}
  /\ UNCHANGED << desired, amortize, env >>

\* "Rebuild now" in the environment panel.
Rebuild ==
  /\ Change
  /\ env' = [env EXCEPT !.generation = @ + 1]
  /\ UNCHANGED << desired, amortize, changed >>

\* load_hdr_image() is done on its worker; at any time.
DecodeFinishes ==
  /\ env.decode # NoDecode
  /\ ~env.decode.ready
  /\ env' = [env EXCEPT !.decode.ready = TRUE]
  /\ quiet' = 0
  /\ UNCHANGED << desired, amortize, changed, changes >>

----------------------------------------------------------------------------
(* prepare(): each step from [env, store] to [env, store]. *)

\* Mutant: kept for the next frame only.
ReleasedTooSoon(r) == r.frame + FramesInFlight - 1

\* The frame that may destroy what was retired.
ReleasedIn(r) == r.frame + FramesInFlight + 1

ReleaseRetired(state, frame) ==
  LET due == SelectSeq(state.env.retired, LAMBDA r : ReleasedIn(r) <= frame)
      Release(st, r) ==
        DestroyObjects(DestroyImages(st, r.indexes), r.buffers)
  IN  [env |-> [state.env EXCEPT !.retired =
                  SelectSeq(@, LAMBDA r : ReleasedIn(r) > frame)],
       store |-> FoldLeft(Release, state.store, due)]

\* retire(): the holders go on the list, the slots stay as they are.
Retire(state, frame, indexes, buffers) ==
  [state EXCEPT !.env.retired =
     Append(@, [frame |-> frame, indexes |-> indexes, buffers |-> buffers])]

\* The cube with the views of its faces, which go first; a build that
\* captured into it is given up.
RetireRadiance(state, frame) ==
  IF ~IsLoaded(state.env) THEN state
  ELSE [Retire(state, frame, state.env.radiance, {})
          EXCEPT !.env.radiance = NoImages, !.env.building = NoBuild]

\* create_cube(): the cube's image, then the views of its faces.
CreateCube(state) ==
  LET made == CreateImage(state.store) IN
  [state EXCEPT
     !.store = RegisterView(made, made.slots[NewIndex(state.store)].obj),
     !.env.radiance = << NewIndex(made), NewIndex(state.store) >>,
     !.env.holds = Nothing]

Generation(e) == e.generation + (IF "capture" \in changed THEN 1 ELSE 0)

\* detect_shader_changes().
DetectShaderChanges(state) ==
  [state EXCEPT !.env.generation = Generation(state.env),
                !.env.lutReady = @ /\ "lut" \notin changed]

\* ensure_procedural_radiance(): skies share one cube.
EnsureProceduralRadiance(state, frame) ==
  IF state.env.source = ProceduralSky /\ IsLoaded(state.env) THEN state
  ELSE [CreateCube(RetireRadiance(state, frame)) EXCEPT
          !.env.source = ProceduralSky, !.env.cubeSource = FALSE,
          !.env.building = NoBuild]

\* A decode is started for a file that is not the loaded one, not the one
\* being decoded and not the one that failed last.
StartDecode(state) ==
  LET e == state.env IN
  IF e.source = desired \/ e.decode.path = desired \/ e.decodeError = desired
  THEN state
  ELSE [state EXCEPT
          !.env.decode = [path |-> desired, ready |-> desired \in e.provided],
          !.env.provided = @ \ {desired},
          !.env.decodeError = Flat]

\* upload_cube() and upload_equirect(): the staging buffer is retired at once,
\* and so is the panorama before.
UploadPixels(state, frame, path) ==
  LET staged == CreateStaging(state.store)
      buffer == staged.live \ state.store.live
      kept == Retire([state EXCEPT !.store = staged], frame, << >>, buffer)
      old == kept.env.equirect
      made == [kept EXCEPT !.store = CreateImage(@),
                           !.env.equirect = << NewIndex(kept.store) >>,
                           !.env.panorama = path]
  IN  IF path \in CubeFiles THEN [kept EXCEPT !.env.holds = path]
      ELSE IF old = NoImages THEN made ELSE Retire(made, frame, old, {})

\* finish_decode(): a new cube for what was decoded, whatever is wished now.
FinishDecode(state, frame, path) ==
  UploadPixels([CreateCube(RetireRadiance(state, frame)) EXCEPT
                  !.env.source = path,
                  !.env.cubeSource = path \in CubeFiles,
                  !.env.projection = path \in Panoramas,
                  !.env.building = NoBuild],
               frame, path)

TakeDecode(state, frame) ==
  LET path == state.env.decode.path
      taken == IF path \in BadFiles
              THEN [state EXCEPT !.env.decodeError = path]
              ELSE FinishDecode(state, frame, path)
  IN  IF ~state.env.decode.ready THEN state
      ELSE [taken EXCEPT !.env.decode = NoDecode]

\* desired_key(): the environment and how often it is to be built anew.
DesiredKey(e) == [of |-> desired, generation |-> e.generation]

HasRadiance(e) ==
  IsLoaded(e) /\ e.source = (IF desired \in Skies THEN ProceduralSky ELSE desired)

\* A build starts when the live set is not what is wished and none is going on;
\* the first one goes into set 0 in one frame.
StartBuild(e) ==
  IF e.building # NoBuild \/ ~HasRadiance(e) \/ e.liveKey = DesiredKey(e)
  THEN e
  ELSE LET first == e.liveKey = NoKey IN
       [e EXCEPT !.building =
          [key |-> DesiredKey(e),
           target |-> IF first THEN 0 ELSE 1 - e.liveSet,
           amortized |-> amortize /\ desired \in Skies /\ ~first,
           captured |-> FALSE, faces |-> 0]]

\* Mutant: the last face is taken for done when it is planned, a frame early.
FlipsAfter(b) == b.faces + 1 >= FaceCount - 1

\* An amortized build flips with the frame that makes its last face.
Flips(b) == b.faces + 1 >= FaceCount

\* plan_frame(): the capture with everything or alone, or the next face.
PlanFrame(e) ==
  LET b == e.building
      plan == [lut |-> e.plan.lut, target |-> b.target,
               capture |-> ~b.captured,
               first |-> IF b.captured THEN b.faces ELSE 0,
               count |-> IF b.captured THEN 1
                         ELSE IF b.amortized THEN 0 ELSE FaceCount,
               flip |-> IF b.captured THEN Flips(b) ELSE ~b.amortized]
  IN  IF b = NoBuild THEN e
      ELSE IF plan.flip
      THEN [e EXCEPT !.plan = plan, !.liveSet = b.target, !.liveKey = b.key,
                     !.building = NoBuild]
      ELSE [e EXCEPT !.plan = plan,
                     !.building.captured = TRUE,
                     !.building.faces = @ + plan.count]

\* The radiance the wish needs: the sky's own cube, or a decoded file's.
PrepareSource(state, frame) ==
  IF desired \in Skies THEN EnsureProceduralRadiance(state, frame)
  ELSE TakeDecode(StartDecode(state), frame)

\* prepare(frame_number): flat ambient gives up a build and does no more.
PrepareEnvironment(st, frame) ==
  LET released == ReleaseRetired([env |-> env, store |-> st], frame)
      seen == DetectShaderChanges(released)
      fresh == [seen EXCEPT !.env.plan =
                  [NoPlan EXCEPT !.lut = ~seen.env.lutReady]]
      ready == PrepareSource(fresh, frame)
  IN  IF desired = Flat
      THEN [fresh EXCEPT !.env.building = NoBuild, !.env.decodeError = Flat]
      ELSE [ready EXCEPT !.env = PlanFrame(StartBuild(ready.env))]

----------------------------------------------------------------------------
(* record(): this frame's compute work. *)

\* What the capture leaves in the radiance cube: the sky of this frame's UBO,
\* the panorama, or what was uploaded into it.
Captured(e) ==
  IF e.cubeSource THEN e.holds
  ELSE IF e.source = ProceduralSky THEN desired
  ELSE IF e.equirect = NoImages THEN Garbage ELSE e.panorama

\* The set the plan writes, after this frame's capture and faces.
BuiltSet(e) ==
  LET radiance == IF e.plan.capture THEN Captured(e) ELSE e.holds
      planned == e.plan.first .. e.plan.first + e.plan.count - 1
      before == e.built[e.plan.target]
  IN  [base |-> IF e.plan.capture THEN radiance ELSE before.base,
       face |-> [f \in Faces |-> IF f \in planned THEN radiance
                                                  ELSE before.face[f]]]

\* The panorama is let go once it was projected.
RecordEnvironment(state, frame) ==
  LET e == state.env
      works == IsLoaded(e) /\ (e.plan.capture \/ e.plan.count # 0)
      worked == [state EXCEPT !.env.lutReady = @ \/ e.plan.lut,
                              !.env.built[e.plan.target] = BuiltSet(e),
                              !.env.holds = IF e.plan.capture THEN Captured(e)
                                                              ELSE @]
      projected == [Retire(worked, frame, e.equirect, {}) EXCEPT
                      !.env.equirect = NoImages, !.env.projection = FALSE]
  IN  IF ~works THEN [state EXCEPT !.env.lutReady = @ \/ e.plan.lut]
      ELSE IF e.plan.capture /\ e.projection /\ e.equirect # NoImages
      THEN projected ELSE worked

\* After prepare() and record() in one frame, whose storage is state.store.
EnvironmentRecorded(state) ==
  /\ env' = state.env
  /\ changed' = {}
  /\ quiet' = IF quiet > 2 * (FaceCount + 1) THEN quiet ELSE quiet + 1
  /\ UNCHANGED << desired, amortize, changes >>

\* Listed by the sets, but indexed by no shader: their handles are gone.
RetiredObjects(e, st) ==
  { st.slots[i].obj : i \in UNION { Range(e.retired[n].indexes) :
                                    n \in DOMAIN e.retired } }

----------------------------------------------------------------------------

Wished == [of |-> desired, generation |-> env.generation]

IsLit == desired # Flat /\ env.liveKey # NoKey

\* The shaders never sample a half-built set: all of the live set was made from
\* one capture, of no environment but the one its key names.
LitByWholeSets ==
  env.liveKey # NoKey /\ phase = "drawn" =>
    LET live == env.built[env.liveSet] IN
    /\ \A f \in Faces : live.face[f] = live.base
    /\ live.base \in {env.liveKey.of, Garbage}

\* Once nothing changes any more the lighting is what the scene asks for, or the
\* file is known to have failed, after the frames of two builds.
TwoBuildsBehind ==
  /\ phase = "drawn"
  /\ quiet > 2 * (FaceCount + 1)
  /\ desired # Flat
  /\ env.decode = NoDecode
  => env.liveKey = Wished \/ env.decodeError = desired

(* The lighting follows the scene: it is at most two builds behind what is    *)
(* asked for, and what is sampled on the way is always a finished build, made *)
(* from one capture of the environment its key names, through every change of *)
(* wish, shaders and files in the middle of a build.                          *)
LightingFollows == LitByWholeSets /\ TwoBuildsBehind

(* "Throws away the live environment and builds again from scratch": a        *)
(* finished build holds the environment that was asked for.                   *)
RebuiltFromItsSource ==
  IsLit /\ phase = "drawn" => env.built[env.liveSet].base = env.liveKey.of

=============================================================================
