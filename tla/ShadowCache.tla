---------------------------- MODULE ShadowCache ----------------------------
(***************************************************************************)
(* The cached cascades of the shadow atlas: which of them a frame draws    *)
(* again and with which matrices the frame samples all of them             *)
(* (Renderer::prepare_frame() and record_shadow_pass(),                    *)
(* src/rendering/renderer.cxx), with what the application does to the      *)
(* casters before and after it submits the scene (src/main.cxx,            *)
(* src/app/application.cxx).                                               *)
(*                                                                         *)
(* The casters are abstracted to where they are, which ones there are (the *)
(* signature of the batches), how they look (their materials and meshes)   *)
(* and whether the texture that cuts them out is in; a cascade's matrix is *)
(* abstracted to the light, the shape of the projection and the camera's   *)
(* position, snapped more coarsely the farther it is.                      *)
(***************************************************************************)
EXTENDS Integers, FiniteSets

CONSTANTS
  Periods,    \* cache_update_periods: a cascade's least distance between redraws
  CameraEnd,  \* bound of the model: the camera's positions are 0 .. CameraEnd
  MaxCount,   \* the counters' largest value: the next one is 0 again
  MaxStirs    \* bound of the model: changes of the casters, camera and settings

ASSUME ShadowsAssumption ==
  /\ IsFiniteSet(DOMAIN Periods)
  /\ DOMAIN Periods = 0 .. Cardinality(DOMAIN Periods) - 1
  /\ 0 \in DOMAIN Periods
  /\ Periods \in [DOMAIN Periods -> Nat \ {0}]
  /\ CameraEnd \in Nat
  /\ MaxCount \in Nat \ {0, 1}
  /\ \A c \in DOMAIN Periods : Periods[c] < MaxCount
  /\ MaxStirs \in Nat

VARIABLES
  moment,      \* how far the main loop is in its frame
  casters,     \* [place, those, look, cut]: the active scene's
  camera,
  settings,    \* [light, bias, shape, cached]: light_ and shadow_settings_
  submitted,   \* the casters of this frame's batches
  shadows,     \* the renderer's members about the cache
  shadowFrame, \* frame.shadow_update_mask and what is pending in the frame
  atlas,       \* per cascade: what its tile was drawn from
  lag,         \* per cascade: frames in a row it had a reason and was not drawn
  still,       \* frames drawn since the last change
  stirs        \* how many changes there were

shadowVars == << moment, casters, camera, settings, submitted, shadows,
                 shadowFrame, atlas, lag, still, stirs >>

Cascades == DOMAIN Periods
LongestPeriod == CHOOSE p \in { Periods[c] : c \in Cascades } :
                   \A c \in Cascades : Periods[c] <= p

\* Whether a material of theirs bends in the wind.
Windy(those) == those = "grass"

Groups == { "few", "many", "grass" }
Casters == [place: {0, 1}, those: Groups, look: 0 .. 2, cut: BOOLEAN]
Settings == [light: {0, 1}, bias: {0, 1}, shape: {0, 1}, cached: BOOLEAN]
Matrices == {0, 1} \X {0, 1} \X Int
CachedCascades == [valid: BOOLEAN, matrix: Matrices, shape: {0, 1}, last: Nat]
Tiles == [matrix: Matrices, shape: {0, 1}, casters: Casters, light: {0, 1},
          bias: {0, 1}]

NoMatrix == << 0, 0, -1 >>
NoCasters == [place |-> 0, those |-> "few", look |-> 0, cut |-> FALSE]
NoTile == [matrix |-> NoMatrix, shape |-> 0, casters |-> NoCasters, light |-> 0,
           bias |-> 0]
NoCache == [valid |-> FALSE, matrix |-> NoMatrix, shape |-> 0, last |-> 0]
NoFrame == [mask |-> {}, cache |-> [c \in Cascades |-> NoCache],
            resolved |-> [c \in Cascades |-> NoMatrix],
            matrix |-> [c \in Cascades |-> NoMatrix]]

ShadowTypeOK ==
  /\ moment \in { "update", "ui", "prepared", "drawn", "quit" }
  /\ casters \in Casters /\ submitted \in Casters
  /\ camera \in 0 .. CameraEnd
  /\ settings \in Settings
  /\ shadows \in [frame: 0 .. MaxCount, revision: 1 .. MaxCount,
                  cachedRevision: 0 .. MaxCount,
                  cache: [Cascades -> CachedCascades],
                  light: {0, 1}, bias: {0, 1}, globalValid: BOOLEAN,
                  signature: Groups, signatureValid: BOOLEAN,
                  initialized: BOOLEAN, dynamic: BOOLEAN]
  /\ shadowFrame \in [mask: SUBSET Cascades, cache: [Cascades -> CachedCascades],
                      resolved: [Cascades -> Matrices],
                      matrix: [Cascades -> Matrices]]
  /\ atlas \in [Cascades -> Tiles]
  /\ lag \in [Cascades -> Nat]

ShadowInit ==
  /\ moment = "update"
  /\ casters = NoCasters
  /\ camera = 0
  /\ settings = [light |-> 0, bias |-> 0, shape |-> 0, cached |-> TRUE]
  /\ submitted = casters
  /\ shadows = [frame |-> 0, revision |-> 1, cachedRevision |-> 0,
                cache |-> [c \in Cascades |-> NoCache],
                light |-> 0, bias |-> 0, globalValid |-> FALSE,
                signature |-> "few", signatureValid |-> FALSE,
                initialized |-> FALSE, dynamic |-> FALSE]
  /\ shadowFrame = NoFrame
  /\ atlas = [c \in Cascades |-> NoTile]
  /\ lag = [c \in Cascades |-> 0]
  /\ still = 0
  /\ stirs = 0

----------------------------------------------------------------------------
(* What changes the picture. *)

Stir ==
  /\ stirs < MaxStirs
  /\ stirs' = stirs + 1
  /\ still' = 0
  /\ UNCHANGED << moment, submitted, shadowFrame, atlas, lag >>

\* Mutant: a revision that wraps is taken for the one that was drawn.
RevisedOnly(s) ==
  [s EXCEPT !.revision = IF @ = MaxCount THEN 1 ELSE @ + 1]

\* mark_shadow_casters_dirty(): a revision of 0 means nothing was drawn yet, so
\* one that wraps starts over with an empty cache.
Revised(s) ==
  IF s.revision # MaxCount THEN [s EXCEPT !.revision = @ + 1]
  ELSE [s EXCEPT !.revision = 1, !.cachedRevision = 0, !.initialized = FALSE,
                 !.cache = [c \in Cascades |-> [@[c] EXCEPT !.valid = FALSE]]]

\* In update(): physics and scripts of the running game move what they move.
GameMoves ==
  /\ moment = "update"
  /\ Stir
  /\ casters' = [casters EXCEPT !.place = 1 - @]
  /\ UNCHANGED << camera, settings, shadows >>

CameraMoves ==
  /\ moment = "update"
  /\ Stir
  /\ camera' \in (0 .. CameraEnd) \ {camera}
  /\ UNCHANGED << casters, settings, shadows >>

\* Entities come and go, or other levels of detail are chosen for them.
OthersCast ==
  /\ moment = "update"
  /\ Stir
  /\ \E those \in Groups \ { casters.those } :
       casters' = [casters EXCEPT !.those = those]
  /\ UNCHANGED << camera, settings, shadows >>

\* The operations on materials, meshes and models that can change a caster, at
\* any time between two frames' preparations.
CastersLookDifferent ==
  /\ moment \in { "update", "ui" }
  /\ Stir
  /\ casters' = [casters EXCEPT !.look = (@ + 1) % 3]
  /\ shadows' = Revised(shadows)
  /\ UNCHANGED << camera, settings >>

\* prepare_frame() lets the texture streamer put a texture in its place: nothing
\* is marked, although masked casters are cut out by it.
CutoutArrives ==
  /\ moment = "ui"
  /\ Stir
  /\ ~casters.cut
  /\ casters' = [casters EXCEPT !.cut = TRUE]
  /\ UNCHANGED << camera, settings, shadows >>

\* In on_ui(), after the scene was submitted: the gizmo, the inspector, a script
\* run by hand or another model for an entity.
EditorMoves ==
  /\ moment = "ui"
  /\ Stir
  /\ casters' = [casters EXCEPT !.place = 1 - @]
  /\ shadows' = [shadows EXCEPT !.dynamic = TRUE]
  /\ UNCHANGED << camera, settings >>

\* The environment is handed over with the scene, set_shadow_settings() is called
\* in on_ui().
SettingsChange ==
  /\ Stir
  /\ \/ /\ moment = "update"
        /\ settings' = [settings EXCEPT !.light = 1 - @]
     \/ /\ moment = "ui"
        /\ \/ settings' = [settings EXCEPT !.bias = 1 - @]
           \/ settings' = [settings EXCEPT !.shape = 1 - @]
           \/ settings' = [settings EXCEPT !.cached = ~@]
  /\ UNCHANGED << casters, camera, shadows >>

----------------------------------------------------------------------------
(* The frame. *)

\* submit_scene(): the transforms are copied.
Submit ==
  /\ moment = "update"
  /\ submitted' = casters
  /\ moment' = "ui"
  /\ UNCHANGED << casters, camera, settings, shadows, shadowFrame, atlas, lag,
                  still, stirs >>

\* fit_shadow_cascades(), where the texels of cascade c are c + 1 steps wide.
Fitted(c) == << settings.light, settings.shape, camera \div (c + 1) >>

\* ++shadow_frame_: frame 0 again is nobody's, so the cache starts over.
NextFrame(s) ==
  IF s.frame # MaxCount THEN [s EXCEPT !.frame = @ + 1]
  ELSE [s EXCEPT !.frame = 1, !.initialized = FALSE,
                 !.cache = [c \in Cascades |-> [@[c] EXCEPT !.valid = FALSE]]]

ProjectionShapeChanged(s) ==
  \E c \in Cascades : ~s.cache[c].valid \/ s.cache[c].shape # settings.shape

GlobalStateChanged(s) ==
  ~s.globalValid \/ s.light # settings.light \/ s.bias # settings.bias

SceneChanged(s) == ~s.signatureValid \/ s.signature # submitted.those

ForceAllCascades(s) ==
  \/ ~settings.cached
  \/ ~s.initialized
  \/ GlobalStateChanged(s)
  \/ SceneChanged(s)
  \/ s.cachedRevision # s.revision
  \/ ProjectionShapeChanged(s)

PeriodDue(s, c) ==
  s.cache[c].valid => s.frame - s.cache[c].last >= Periods[c]

MatrixChanged(s, c) == ~s.cache[c].valid \/ Fitted(c) # s.cache[c].matrix

HasReason(s, c) == MatrixChanged(s, c) \/ s.dynamic \/ Windy(submitted.those)

UpdateMask(s) ==
  { c \in Cascades : \/ ForceAllCascades(s)
                     \/ c = 0
                     \/ HasReason(s, c) /\ PeriodDue(s, c) }

\* Mutant: all tiles are sampled with this frame's matrices.
ResolvedAsFitted(s, mask) == [c \in Cascades |-> Fitted(c)]

\* A tile that is not drawn is sampled with the matrix that drew it.
Resolved(s, mask) ==
  [c \in Cascades |-> IF c \in mask THEN Fitted(c) ELSE s.cache[c].matrix]

PendingCache(s, mask) ==
  [c \in Cascades |->
     IF c \in mask THEN [valid |-> TRUE, matrix |-> Fitted(c),
                         shape |-> settings.shape, last |-> s.frame]
                   ELSE s.cache[c]]

PrepareShadows ==
  /\ moment = "ui"
  /\ LET s == NextFrame(shadows)
         mask == UpdateMask(s)
     IN  /\ shadowFrame' = [mask |-> mask, resolved |-> Resolved(s, mask),
                            cache |-> PendingCache(s, mask),
                            matrix |-> [c \in Cascades |-> Fitted(c)]]
         /\ shadows' = [s EXCEPT !.dynamic = FALSE]
         /\ lag' = [c \in Cascades |->
                      IF c \in mask \/ ~HasReason(s, c) THEN 0 ELSE lag[c] + 1]
  /\ moment' = "prepared"
  /\ UNCHANGED << casters, camera, settings, submitted, atlas, still, stirs >>

\* Places are copied when they are submitted; materials, meshes and textures are
\* looked up when the frame is prepared and drawn.
Shown == [submitted EXCEPT !.look = casters.look, !.cut = casters.cut]

Tile(c) ==
  [matrix |-> shadowFrame.resolved[c], shape |-> settings.shape,
   casters |-> Shown, light |-> settings.light, bias |-> settings.bias]

\* render_pass::shadow(): only the tiles in the mask are cleared and drawn; what
\* an atlas without contents holds elsewhere is not kept.
DrawnTiles ==
  [c \in Cascades |-> IF c \in shadowFrame.mask THEN Tile(c)
                      ELSE IF shadows.initialized THEN atlas[c] ELSE NoTile]

\* record_shadow_pass() once the tiles are recorded.
Committed ==
  [shadows EXCEPT !.cache = shadowFrame.cache,
                  !.cachedRevision = shadows.revision,
                  !.light = settings.light, !.bias = settings.bias,
                  !.globalValid = TRUE, !.signature = submitted.those,
                  !.signatureValid = TRUE, !.initialized = TRUE]

RecordShadows ==
  /\ moment = "prepared"
  /\ atlas' = DrawnTiles
  /\ shadows' = Committed
  /\ moment' = "drawn"
  /\ still' = IF still > LongestPeriod THEN still ELSE still + 1
  /\ UNCHANGED << casters, camera, settings, submitted, shadowFrame, lag, stirs >>

\* A pass that cannot be recorded ends the application.
RecordShadowsFails ==
  /\ moment = "prepared"
  /\ moment' = "quit"
  /\ UNCHANGED << casters, camera, settings, submitted, shadows, shadowFrame,
                  atlas, lag, still, stirs >>

NextIteration ==
  /\ moment = "drawn"
  /\ moment' = "update"
  /\ shadowFrame' = NoFrame
  /\ UNCHANGED << casters, camera, settings, submitted, shadows, atlas, lag,
                  still, stirs >>

ShadowNext ==
  \/ GameMoves \/ CameraMoves \/ OthersCast \/ CastersLookDifferent
  \/ CutoutArrives \/ EditorMoves \/ SettingsChange
  \/ Submit \/ PrepareShadows \/ RecordShadows \/ RecordShadowsFails \/ NextIteration

ShadowSpec == ShadowInit /\ [][ShadowNext]_shadowVars

----------------------------------------------------------------------------

\* "Never sample a cached tile with a matrix that did not create it."
TilesMatch ==
  moment = "drawn" =>
    \A c \in Cascades : atlas[c].matrix = shadowFrame.resolved[c]

\* A tile that was kept shows the casters, the light and the bias as a redraw
\* would, but for where moving casters are and what has arrived to cut them out.
TilesAreCurrent ==
  moment = "drawn" =>
    \A c \in Cascades :
      /\ atlas[c].casters.those = Shown.those
      /\ atlas[c].casters.look = Shown.look
      /\ << atlas[c].light, atlas[c].bias, atlas[c].shape >>
           = << settings.light, settings.bias, settings.shape >>

\* The near cascade, and all of them without the cache, are of this frame.
NearIsFresh ==
  moment = "drawn" =>
    \A c \in Cascades :
      c = 0 \/ ~settings.cached =>
        atlas[c].casters = Shown /\ atlas[c].matrix = shadowFrame.matrix[c]

\* While there is a reason to draw a cascade, it is never put off for longer
\* than its period.
LagIsBounded == \A c \in Cascades : lag[c] < Periods[c]

(* The cache changes what the shadows cost and not what they are: every tile  *)
(* is sampled with the matrix it was drawn with, a kept tile differs from a   *)
(* redraw by moving casters and a camera step at most, and those for less     *)
(* than its period; through changes of casters, light and settings between    *)
(* any two steps of the frame, and when the counters start over.              *)
SampledAsRendered ==
  /\ ShadowTypeOK
  /\ TilesMatch
  /\ TilesAreCurrent
  /\ NearIsFresh
  /\ LagIsBounded

(* "Far cascades update when their snapped matrix changes or casters move,    *)
(* once their minimum interval has elapsed": when nothing has changed for     *)
(* longer than every interval, each tile shows the casters as they are.       *)
TilesCatchUp ==
  moment = "drawn" /\ still > LongestPeriod =>
    \A c \in Cascades : atlas[c].casters = casters

=============================================================================
