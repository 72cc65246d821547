------------------------------ MODULE MCReload ------------------------------
(* Two files, three stages and two pipelines: the first file holds both of    *)
(* the first pipeline's stages, and the pipelines share one of them.          *)
EXTENDS ShaderReload

CONSTANTS fileA, fileB, vertexA, fragmentA, fragmentB

MCFiles == {fileA, fileB}
MCStages == {vertexA, fragmentA, fragmentB}
MCFileOf == [s \in MCStages |-> IF s = fragmentB THEN fileB ELSE fileA]
MCStagesOf == << << vertexA, fragmentA >>, << vertexA, fragmentB >> >>

=============================================================================
