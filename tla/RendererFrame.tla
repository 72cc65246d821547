--------------------------- MODULE RendererFrame ---------------------------
(***************************************************************************)
(* The frame that Renderer::record_frame() declares                        *)
(* (src/rendering/renderer_frame_graph.cxx), for every setting that adds   *)
(* or drops passes, as a graph for the frame graph's compiler.             *)
(*                                                                         *)
(* Of a pass, accesses is what it declares, and reached what its record    *)
(* function and the shaders it runs touch of the frame's buffers and of    *)
(* the images they sample by index: neither the compiler nor validation    *)
(* can see that.  Colour and depth targets are attached by the graph.      *)
(* Task shaders look their draw commands up in the buffer the draw is      *)
(* read from.                                                              *)
(***************************************************************************)
EXTENDS Integers, Sequences, TLC

----------------------------------------------------------------------------
\* What a use means to the compiler: use_info() and discards_contents().

Use(stages, layout, writes, discard) ==
  [stages |-> stages, layout |-> layout, writes |-> writes, discard |-> discard, exit |-> {}]

ColorAttachment(load) == Use({"color"}, "attachment", TRUE, load # "load")
ColorResolve == Use({"color"}, "attachment", TRUE, TRUE)
DepthAttachment(load) == Use({"early_tests", "late_tests"}, "depth", TRUE, load # "load")
DepthResolve == Use({"color", "late_tests"}, "depth", TRUE, TRUE)
Sampled(stages) == Use(stages, "sampled", FALSE, FALSE)
StorageWrite(stages) == Use(stages, "general", TRUE, TRUE)
TransferSrc == Use({"transfer"}, "transfer_src", FALSE, FALSE)
IndirectRead == Use({"indirect"}, "none", FALSE, FALSE)
ShaderRead(stages) == Use(stages, "none", FALSE, FALSE)
ShaderWrite(stages) == Use(stages, "none", TRUE, FALSE)
TransferRead == Use({"transfer"}, "none", FALSE, FALSE)
TransferWrite == Use({"transfer"}, "none", TRUE, FALSE)
TokenWrite == Use({"all_commands"}, "none", TRUE, FALSE)
TokenRead == Use({"all_commands"}, "none", FALSE, FALSE)

WriteDiscard(use) == [use EXCEPT !.discard = TRUE]

\* ExitUse: the pass leaves what it wrote as another use would.
LeftAs(use, exit) ==
  [use EXCEPT !.exit = {[stages |-> exit.stages, writes |-> exit.writes, layout |-> exit.layout]}]

Geometry == {"vertex", "task", "mesh"}
Draw == Geometry \cup {"fragment"}

Of(S, use) == [r \in S |-> use]
When(condition, map) == IF condition THEN map ELSE << >>

----------------------------------------------------------------------------
\* The imports: the state each arrives in, and the one it has to be left in.

Idle == [stages |-> {}, writes |-> FALSE, layout |-> "none"]
HostReads == [Idle EXCEPT !.stages = {"host"}]
SampledByFragment == [stages |-> {"fragment"}, writes |-> FALSE, layout |-> "sampled"]
HizReaders == [SampledByFragment EXCEPT !.stages = {"compute", "task", "fragment"}]
NoContents == [Idle EXCEPT !.layout = "undefined"]
Presented == [Idle EXCEPT !.layout = "present"]

\* Read-only buffers, and those that the frame's passes write.
SourceBuffers == {"draws", "transforms", "indirect", "batch_bounds", "frustum_planes",
                  "occlusion_views"}
FrameBuffers ==
  SourceBuffers \cup
  {"visible_draws", "visible_transforms", "culled_indirect", "late_indirect", "merged_indirect",
   "occlusion_candidates", "candidate_counts", "occlusion_stats", "meshlet_bits",
   "visible_lights", "cluster_lights"}
Readbacks == {"occlusion_stats_readback", "cluster_stats_readback"}
FrameTokens == {"overlay_data", "environment"}

\* The atlas has no contents, and no layout, until shadows were drawn: it is
\* another import then.
Atlas(s) == IF s.fresh THEN "fresh_shadow_atlas" ELSE "shadow_atlas"
KeptImages == {"viewport", "shadow_atlas", "fresh_shadow_atlas", "hiz", "swapchain"}
FrameImports == FrameBuffers \cup Readbacks \cup FrameTokens \cup KeptImages

FrameEntry ==
  Of(FrameBuffers \cup FrameTokens, Idle) @@ Of(Readbacks, HostReads) @@
  "viewport" :> SampledByFragment @@ "shadow_atlas" :> SampledByFragment @@
  "fresh_shadow_atlas" :> NoContents @@ "hiz" :> HizReaders @@ "swapchain" :> NoContents
FrameExit ==
  [FrameEntry EXCEPT !["fresh_shadow_atlas"] = SampledByFragment, !["swapchain"] = Presented]

\* The transients; with one sample per pixel an image is its own resolve.
ResolvedDepth(s) == IF s.multisampled THEN "resolved_depth" ELSE "depth"
Hdr(s) == IF s.multisampled THEN "resolved_hdr" ELSE "hdr"
FrameTransients == {"depth", "resolved_depth", "hdr", "hdr_msaa", "resolved_hdr",
                    "ao_raw", "ao", "bloom"}
Target(s) == IF s.fullscreen THEN "swapchain" ELSE "viewport"
Commands == {"indirect", "culled_indirect", "late_indirect", "merged_indirect"}

----------------------------------------------------------------------------
\* The passes.

Pass(name, accesses, reached) ==
  << [name |-> name, affinity |-> "graphics", root |-> "swapchain" \in DOMAIN accesses,
      fence |-> FALSE, accesses |-> accesses, reached |-> reached] >>

SideEffect(pass) == << [pass[1] EXCEPT !.root = TRUE] >>
Preferred(asked, pass) ==
  IF asked THEN << [pass[1] EXCEPT !.affinity = "compute_preferred"] >> ELSE pass

OverlayPrepare == SideEffect(Pass("overlay_prepare", "overlay_data" :> TokenWrite, << >>))

EnvironmentPass == Pass("environment", "environment" :> TokenWrite, << >>)

StatsClear ==
  Pass("occlusion_stats_clear", "occlusion_stats" :> WriteDiscard(TransferWrite),
       "occlusion_stats" :> TransferWrite)

MeshletClear ==
  Pass("meshlet_visibility_clear", "meshlet_bits" :> WriteDiscard(TransferWrite),
       "meshlet_bits" :> TransferWrite)

\* record_gpu_culling() and main_cs of frustum_cull.slang.
CullingReaches(s) ==
  LET by == {"compute"}
  IN  Of(SourceBuffers, ShaderRead(by)) @@ When(s.occlusion, "hiz" :> Sampled(by)) @@
      Of({"visible_draws", "visible_transforms", "culled_indirect", "occlusion_candidates",
          "candidate_counts", "occlusion_stats"}, ShaderWrite(by))

GpuCulling(s) ==
  LET by == {"compute"}
  IN  Pass("gpu_culling",
        Of(SourceBuffers, ShaderRead(by)) @@ When(s.occlusion, "hiz" :> Sampled(by)) @@
        Of({"visible_draws", "visible_transforms", "culled_indirect", "occlusion_candidates",
            "candidate_counts", "occlusion_stats"}, ShaderWrite(by)),
        CullingReaches(s))

ClusterStatsClear ==
  Pass("cluster_stats_clear", "cluster_lights" :> TransferWrite, "cluster_lights" :> TransferWrite)

\* One workgroup walks the lights; then one a tile.
LightCullReaches ==
  "frustum_planes" :> ShaderRead({"compute"}) @@ "visible_lights" :> ShaderWrite({"compute"})
LightClusterReaches ==
  "visible_lights" :> ShaderRead({"compute"}) @@ "cluster_lights" :> ShaderWrite({"compute"})

LightCull(s) ==
  Preferred("light" \in s.async,
    Pass("light_cull",
         "frustum_planes" :> ShaderRead({"compute"}) @@ "visible_lights" :> ShaderWrite({"compute"}),
         LightCullReaches))

LightCluster(s) ==
  Preferred("light" \in s.async,
    Pass("light_cluster",
         "visible_lights" :> ShaderRead({"compute"}) @@ "cluster_lights" :> ShaderWrite({"compute"}),
         LightClusterReaches))

ClusterReadbackReaches ==
  "cluster_lights" :> TransferRead @@ "cluster_stats_readback" :> TransferWrite

ClusterReadback ==
  SideEffect(
    Pass("cluster_stats_readback",
         "cluster_lights" :> TransferRead @@ "cluster_stats_readback" :> TransferWrite,
         ClusterReadbackReaches))

\* draw_scene_commands(), by tasks and meshes and by indexed vertices.
DrawsReach(draws, transforms, commands) ==
  Of({draws, transforms}, ShaderRead(Geometry)) @@ "frustum_planes" :> ShaderRead({"task"}) @@
  commands :> ShaderRead({"indirect", "task"})

\* Every caster, whether culled or not.
ShadowsReach == DrawsReach("draws", "transforms", "indirect")

Shadows(s) ==
  Pass("shadow_pass",
       Of({"draws", "transforms"}, ShaderRead(Draw)) @@ "indirect" :> IndirectRead @@
       "frustum_planes" :> ShaderRead({"task"}) @@
       Atlas(s) :> DepthAttachment(IF s.fresh THEN "dont_care" ELSE "load"),
       ShadowsReach)

\* record_depth_prepass(), depth_prepass.slang and meshlet_task.slang.
PrepassReaches(s, commands) ==
  DrawsReach("visible_draws", "visible_transforms", commands) @@
  When(s.meshlet, "occlusion_views" :> ShaderRead({"task"}) @@ "hiz" :> Sampled({"task"}) @@
                  Of({"meshlet_bits", "occlusion_stats"}, ShaderWrite({"task"})))

\* Mutant: as before there were mesh shaders.
VerticesOnly(s, commands) ==
  Of({"visible_draws", "visible_transforms"}, ShaderRead({"vertex"})) @@
  commands :> IndirectRead @@ "frustum_planes" :> ShaderRead({"task"})

PrepassReads(s, commands) ==
  Of({"visible_draws", "visible_transforms"}, ShaderRead(Geometry)) @@
  commands :> IndirectRead @@ "frustum_planes" :> ShaderRead({"task"}) @@
  When(s.meshlet, "occlusion_views" :> ShaderRead({"task"}) @@ "hiz" :> Sampled({"task"}) @@
                  Of({"meshlet_bits", "occlusion_stats"}, ShaderWrite({"task"})))

DepthPrepass(s) ==
  Pass("depth_prepass",
       PrepassReads(s, "culled_indirect") @@ "depth" :> DepthAttachment("clear") @@
       When(s.multisampled, "resolved_depth" :> DepthResolve),
       PrepassReaches(s, "culled_indirect"))

\* build_hiz() reduces the depth level by level, with barriers of its own.
HizReaches(s) ==
  ResolvedDepth(s) :> Sampled({"compute"}) @@ "hiz" :> StorageWrite({"compute"})

HizBuild(s) ==
  Preferred("occlusion" \in s.async,
    Pass("hiz_build",
         ResolvedDepth(s) :> Sampled({"compute"}) @@
         "hiz" :> LeftAs(StorageWrite({"compute"}), Sampled({"compute"})),
         HizReaches(s)))

\* record_occlusion_cull_pass() and late_cs of frustum_cull.slang.
LateReaches ==
  LET by == {"compute"}
  IN  "hiz" :> Sampled(by) @@
      Of((SourceBuffers \ {"frustum_planes"}) \cup
         {"culled_indirect", "occlusion_candidates", "candidate_counts"}, ShaderRead(by)) @@
      Of({"visible_draws", "visible_transforms", "late_indirect", "merged_indirect",
          "occlusion_stats"}, ShaderWrite(by))

LateCulling(s) ==
  LET by == {"compute"}
  IN  Preferred("occlusion" \in s.async,
        Pass("late_cs",
             "hiz" :> Sampled(by) @@
             Of(SourceBuffers \cup {"culled_indirect", "occlusion_candidates", "candidate_counts"},
                ShaderRead(by)) @@
             Of({"visible_draws", "visible_transforms", "late_indirect", "merged_indirect",
                 "occlusion_stats"}, ShaderWrite(by)),
             LateReaches))

DepthPrepassLate(s) ==
  Pass("depth_prepass_late",
       PrepassReads(s, "late_indirect") @@ "depth" :> DepthAttachment("load") @@
       When(s.multisampled, "resolved_depth" :> DepthResolve),
       PrepassReaches(s, "late_indirect"))

GtaoReaches(s) ==
  ResolvedDepth(s) :> Sampled({"compute"}) @@ "ao_raw" :> StorageWrite({"compute"})
DenoiseReaches(s) ==
  Of({"ao_raw", ResolvedDepth(s)}, Sampled({"compute"})) @@ "ao" :> StorageWrite({"compute"})

Gtao(s) ==
  Preferred("gtao" \in s.async,
    Pass("gtao",
         ResolvedDepth(s) :> Sampled({"compute"}) @@ "ao_raw" :> StorageWrite({"compute"}),
         GtaoReaches(s)))

GtaoDenoise(s) ==
  Preferred("gtao" \in s.async,
    Pass("gtao_denoise",
         Of({"ao_raw", ResolvedDepth(s)}, Sampled({"compute"})) @@
         "ao" :> LeftAs(StorageWrite({"compute"}), Sampled({"compute"})),
         DenoiseReaches(s)))

\* record_forward_pass() and forward_geom.slang.
ForwardReaches(s) ==
  Atlas(s) :> Sampled({"fragment"}) @@
  DrawsReach("visible_draws", "visible_transforms",
             IF s.occlusion THEN "merged_indirect" ELSE "culled_indirect") @@
  When(s.meshlet, Of({"occlusion_views", "meshlet_bits"}, ShaderRead({"task"}))) @@
  When(s.clustered, "cluster_lights" :> ShaderRead({"fragment"})) @@
  When(s.ao, "ao" :> Sampled({"fragment"}))

Forward(s) ==
  Pass("forward",
       Atlas(s) :> Sampled({"fragment"}) @@ "overlay_data" :> TokenRead @@
       When(s.environment, "environment" :> TokenRead) @@
       Of({"visible_draws", "visible_transforms"}, ShaderRead(Draw)) @@
       (IF s.occlusion THEN "merged_indirect" ELSE "culled_indirect") :> IndirectRead @@
       "frustum_planes" :> ShaderRead({"task"}) @@
       When(s.meshlet, Of({"occlusion_views", "meshlet_bits"}, ShaderRead({"task"}))) @@
       When(s.clustered, "cluster_lights" :> ShaderRead({"fragment"})) @@
       When(s.ao, "ao" :> Sampled({"fragment"})) @@
       (IF s.multisampled THEN "hdr_msaa" :> ColorAttachment("clear") @@ "resolved_hdr" :> ColorResolve
        ELSE "hdr" :> ColorAttachment("clear")) @@
       "depth" :> DepthAttachment("load"),
       ForwardReaches(s))

\* Down the mip chain and up again, with barriers of its own.
BloomReaches(s) == Hdr(s) :> Sampled({"compute"}) @@ "bloom" :> StorageWrite({"compute"})

Bloom(s) ==
  Pass("bloom",
       Hdr(s) :> Sampled({"compute"}) @@
       "bloom" :> LeftAs(StorageWrite({"compute"}), Sampled({"compute"})),
       BloomReaches(s))

\* render_pass::composite() samples the scene's colours and the bloom.
CompositionReaches(s) ==
  Hdr(s) :> Sampled({"fragment"}) @@ When(s.bloom, "bloom" :> Sampled({"fragment"}))

Composition(s) ==
  Pass("composition",
       When(s.fullscreen, "overlay_data" :> TokenRead) @@
       When(s.bloom, "bloom" :> Sampled({"fragment"})) @@
       Target(s) :> ColorAttachment("dont_care"),
       CompositionReaches(s))

Ui ==
  Pass("ui",
       "viewport" :> Sampled({"fragment"}) @@ "overlay_data" :> TokenRead @@
       "swapchain" :> ColorAttachment("clear"),
       "viewport" :> Sampled({"fragment"}))

StatsReadbackReaches ==
  "occlusion_stats" :> TransferRead @@ "occlusion_stats_readback" :> TransferWrite

StatsReadback ==
  SideEffect(
    Pass("occlusion_stats_readback",
         "occlusion_stats" :> TransferRead @@ "occlusion_stats_readback" :> TransferWrite,
         StatsReadbackReaches))

\* A capture of the viewport is only honoured in the editor.
Screenshot(s) ==
  LET source == IF s.screenshot = "viewport" /\ ~ s.fullscreen THEN "viewport" ELSE "swapchain"
  IN  SideEffect(Pass("screenshot", source :> TransferSrc, source :> TransferSrc))

FrameEnd == SideEffect(Pass("frame_end", << >>, << >>))

\* With compute passes on another queue the shadows go after those that feed
\* them, so that there is raster work beside them.
ShadowsAfter(s) ==
  CASE "occlusion" \in s.async -> "early_prepass"
    [] "occlusion" \notin s.async /\ "gtao" \in s.async -> "late_prepass"
    [] OTHER -> "culling"

ShadowsHere(s, place) == When(s.shadows /\ ShadowsAfter(s) = place, Shadows(s))

Frame(s) ==
  OverlayPrepare \o When(s.environment, EnvironmentPass) \o
  StatsClear \o When(s.meshlet, MeshletClear) \o GpuCulling(s) \o
  When(s.clustered, ClusterStatsClear \o LightCull(s) \o LightCluster(s) \o ClusterReadback) \o
  ShadowsHere(s, "culling") \o DepthPrepass(s) \o ShadowsHere(s, "early_prepass") \o
  When(s.occlusion, HizBuild(s) \o LateCulling(s) \o DepthPrepassLate(s)) \o
  ShadowsHere(s, "late_prepass") \o
  When(s.ao, Gtao(s) \o GtaoDenoise(s)) \o Forward(s) \o
  When(s.bloom, Bloom(s)) \o Composition(s) \o When(~ s.fullscreen, Ui) \o
  StatsReadback \o When(s.screenshot # "none", Screenshot(s)) \o FrameEnd

=============================================================================
