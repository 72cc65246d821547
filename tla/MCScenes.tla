------------------------------ MODULE MCScenes ------------------------------
(***************************************************************************)
(* The editor small enough for TLC, one subject at a time:                 *)
(*   - scene files: a scene with a field of grass and a lamp, one model    *)
(*     that can be dropped, one texture and two files, one of them saved   *)
(*     before (SceneFiles);                                                *)
(*   - panels: a rigid cube and an entity under it (Editor).               *)
(***************************************************************************)
EXTENDS SceneFiles, Editor

MCFiles == {"a.lbf", "b.lbf"}
MCModelFiles == {"car.glb"}
MCTextureFiles == {"grass.png"}
MCImports == [m \in MCModelFiles |-> {"grass.png"}]
MCEngineModels == {"engine:cube"}
MCMaterials == << [name |-> "grass", refs |-> 1, look |-> 0, texture |-> "grass.png"],
                  [name |-> None, refs |-> 1, look |-> 0, texture |-> NoSource] >>
MCPopulated ==
    << [name |-> "field", place |-> 0, parent |-> 0, streamed |-> FALSE, model |-> 0, over |-> 2,
        slots |-> {}, field |-> 1, inst |-> 1, plain |-> [point_light |-> 0], lifetime |-> None] >>

MCFirstFiles == {"a.lbf"}
\* An entity is moved, a lamp is given a number that no file may hold, a material is
\* painted, and the environment becomes an image without a path.
MCEdited == [place |-> {1}, value |-> {Bad}, look |-> {1}, settings |-> {Bad}]

MCEntities == << [ Named("a") EXCEPT !.model = "cube", !.rigid = TRUE ],
                 [ Named("b") EXCEPT !.parent = 1 ] >>

VARIABLE subject

scenesVars == << subject, filesVars, editorVars >>

ScenesInit ==
  /\ subject \in {"files", "panels"}
  /\ FilesInit /\ EditorInit

ScenesNext ==
  /\ UNCHANGED subject
  /\ \/ subject = "files" /\ FilesNext /\ UNCHANGED editorVars
     \/ subject = "panels" /\ EditorNext /\ UNCHANGED filesVars

ScenesSpec ==
  ScenesInit /\ [][ScenesNext]_scenesVars /\ FilesFairness
=============================================================================
