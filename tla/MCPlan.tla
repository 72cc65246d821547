------------------------------- MODULE MCPlan -------------------------------
(* Frames of the renderer, and all small frames of a kind: four passes over   *)
(* an image that lives for the frame, one that is kept and a buffer that the  *)
(* queues share; three that may be culled, pinned, or go to either queue; and *)
(* four that fill and read three transients, two of which need all memory.    *)
EXTENDS TransientMemory, RendererFrame

----------------------------------------------------------------------------
\* Resources.

MCScratch == {"scratch", "first", "second", "third"}
MCImported == {"kept", "counts"} \cup FrameImports
MCResources == MCImported \cup MCScratch \cup FrameTransients
MCImages == MCScratch \cup {"kept"} \cup FrameTransients \cup KeptImages
MCConcurrent == {"counts"} \cup FrameBuffers

MCEntry ==
  "kept" :> SampledByFragment @@
  "counts" :> [stages |-> {"compute"}, writes |-> TRUE, layout |-> "none"] @@ FrameEntry
MCExit == "kept" :> SampledByFragment @@ "counts" :> [Idle EXCEPT !.stages = {"vertex"}] @@ FrameExit

Memory(size, alignment, types) == [size |-> size, alignment |-> alignment, types |-> types]
MCRequirement ==
  Of({"scratch", "first"}, Memory(3, 1, {1, 2})) @@ "second" :> Memory(2, 2, {1}) @@
  "third" :> Memory(3, 2, {2}) @@
  Of({"depth", "resolved_depth"}, Memory(4, 2, {1, 2})) @@
  Of({"hdr", "resolved_hdr"}, Memory(8, 1, {1, 2})) @@ "hdr_msaa" :> Memory(16, 4, {1}) @@
  Of({"ao_raw", "ao"}, Memory(3, 1, {1, 2})) @@ "bloom" :> Memory(3, 2, {1, 2})

----------------------------------------------------------------------------
\* Small frames.

Reads(stage, layout) == Use({stage}, layout, FALSE, FALSE)
Changes(stage, layout) == Use({stage}, layout, TRUE, FALSE)
Replaces(stage, layout) == Use({stage}, layout, TRUE, TRUE)

Graphics(accesses) == SideEffect(Pass("", accesses, << >>))[1]
Compute(accesses) == [Graphics(accesses) EXCEPT !.affinity = "compute_required"]

MCPasses ==
  { Graphics("scratch" :> Replaces("color", "attachment") @@ "counts" :> Reads("vertex", "none")),
    Graphics("scratch" :> Changes("color", "attachment")),
    Compute("scratch" :> Reads("compute", "sampled") @@
            "kept" :> LeftAs(Replaces("compute", "general"), Sampled({"compute"}))),
    Compute("kept" :> Reads("compute", "sampled") @@ "counts" :> Changes("compute", "none")),
    Graphics("kept" :> Reads("fragment", "sampled") @@ "counts" :> Reads("vertex", "none")),
    Graphics("scratch" :> Reads("fragment", "sampled")),
    Compute("counts" :> Changes("compute", "none")),
    Graphics("counts" :> Reads("fragment", "none")),
    Compute("counts" :> Reads("compute", "none")),
    Compute("kept" :> Changes("compute", "general")),
    Graphics("kept" :> Reads("fragment", "sampled")) }

Offscreen(pass) == [pass EXCEPT !.root = FALSE]
Either(pass) == [pass EXCEPT !.affinity = "compute_preferred"]
Pinned(pass) == [pass EXCEPT !.fence = TRUE]

MCLoosePasses ==
  { Offscreen(Graphics("scratch" :> Replaces("color", "attachment"))),
    Offscreen(Graphics("scratch" :> Changes("color", "attachment"))),
    Offscreen(Either(Compute("scratch" :> Changes("compute", "general")))),
    Either(Compute("scratch" :> Reads("compute", "sampled") @@ "kept" :> Changes("compute", "general"))),
    Either(Compute("counts" :> Changes("compute", "none"))),
    Graphics("scratch" :> Reads("fragment", "sampled")),
    Graphics("counts" :> Reads("vertex", "none")),
    Pinned(Graphics(<< >>)),
    Pinned(Graphics("kept" :> Reads("fragment", "sampled"))) }

MCMemoryPasses ==
  { Graphics("first" :> Replaces("color", "attachment")),
    Graphics("first" :> Reads("fragment", "sampled") @@ "second" :> Replaces("color", "attachment")),
    Compute("first" :> Reads("compute", "sampled")),
    Compute("second" :> Replaces("compute", "general")),
    Compute("second" :> Reads("compute", "sampled") @@ "third" :> Replaces("compute", "general")),
    Graphics("second" :> Reads("fragment", "sampled")),
    Graphics("third" :> Replaces("color", "attachment")),
    Compute("first" :> Replaces("compute", "general")) }

MCSmallFrames ==
  { g \in [1 .. 4 -> MCPasses] \cup [1 .. 3 -> MCLoosePasses] \cup [1 .. 4 -> MCMemoryPasses] :
      Declared(g) }

----------------------------------------------------------------------------
\* The renderer's frames: everything on, each setting toggled, and the groups
\* of passes that may go to the compute queue.

AllOn ==
  [fullscreen |-> FALSE, multisampled |-> TRUE, bloom |-> TRUE, ao |-> TRUE, occlusion |-> TRUE,
   meshlet |-> TRUE, clustered |-> TRUE, environment |-> TRUE, shadows |-> TRUE, fresh |-> FALSE,
   screenshot |-> "viewport", async |-> {"occlusion", "gtao", "light"}]

MCSettings ==
  { AllOn, [AllOn EXCEPT !.fullscreen = TRUE], [AllOn EXCEPT !.multisampled = FALSE],
    [AllOn EXCEPT !.ao = FALSE], [AllOn EXCEPT !.bloom = FALSE], [AllOn EXCEPT !.clustered = FALSE],
    [AllOn EXCEPT !.meshlet = FALSE], [AllOn EXCEPT !.meshlet = FALSE, !.occlusion = FALSE],
    [AllOn EXCEPT !.environment = FALSE, !.shadows = FALSE],
    [AllOn EXCEPT !.fresh = TRUE, !.screenshot = "swapchain"],
    [AllOn EXCEPT !.async = {"gtao"}, !.screenshot = "none"],
    [AllOn EXCEPT !.async = {}, !.multisampled = FALSE, !.meshlet = FALSE, !.occlusion = FALSE],
    [AllOn EXCEPT !.async = {"gtao"}, !.multisampled = FALSE, !.meshlet = FALSE, !.occlusion = FALSE] }

MCFrames == { Frame(s) : s \in MCSettings }
MCGraphs == MCSmallFrames \cup MCFrames

\* A pass that reaches a buffer by its address has declared it: "neither sync
\* validation nor the compiler can see a device-address access otherwise"
\* (renderer_frame_graph.cxx).  The lookup of a task shader in the buffer its
\* draw is read from is declared as the draw's read only.
UsesAreDeclared ==
  \A p \in Passes(graph) : \A r \in DOMAIN graph[p].reached \ Images :
    LET reached == graph[p].reached[r]
    IN  /\ r \in Uses(graph, p)
        /\ reached.stages \ (IF r \in Commands THEN {"task"} ELSE {})
             \subseteq graph[p].accesses[r].stages
        /\ reached.writes => graph[p].accesses[r].writes

\* What a pass samples of the frame was drawn in the frame: composition "reads
\* (resolved_hdr, sampled, fragment)", and without bloom "culling removes
\* nothing else" (docs/frame-graph.md).
SceneIsComposed ==
  step = "planned" =>
    \A n \in DOMAIN order : \A r \in DOMAIN graph[order[n]].reached \ Imported :
      \E a \in 1 .. n : Writes(graph, order[a], r)

=============================================================================
