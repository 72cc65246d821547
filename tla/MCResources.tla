----------------------------- MODULE MCResources -----------------------------
(* An instance of RendererResources: a file and an embedded texture, two      *)
(* skies, a panorama, a cube and a file that does not decode, two layouts of   *)
(* the transients and two materials.                                           *)
EXTENDS RendererResources

MCResources == 1 .. 16
MCFrames == [textures |-> 3, environment |-> 12, transients |-> 6,
             materials |-> 5]
MCKinds == [t \in {"brick", "moss"} |->
              IF t = "brick" THEN "file" ELSE "memory"]
=============================================================================
