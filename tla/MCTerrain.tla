----------------------------- MODULE MCTerrain -----------------------------
(* A coarse chunk and two of the finer ones that replace it close by: what    *)
(* the camera sees when it is far off, near, or looks at the edge.            *)
EXTENDS TerrainStreaming

CONSTANTS near1, near2, far

MCFine == {near1, near2}
MCCoarse == {far}
MCViews == {{far}, {near1, near2}}

=============================================================================
