-------------------------------- MODULE Editor --------------------------------
(***************************************************************************)
(* The editor's panels and events (src/app/application.cxx) on the scene   *)
(* they show: the editor's own, or the runtime clone of it while playing.  *)
(* Entities come and go, and with them the references they hold on models  *)
(* and materials and, while playing, their bodies in the physics world     *)
(* (rendering/scene.cxx, physics/physics_world.cxx).                       *)
(*                                                                         *)
(* An entity's values are left out: it has a name, a parent, a model, two  *)
(* places for a material of its own (all submeshes, one slot), and or has  *)
(* not the other components the steps here look at.  Streaming itself is   *)
(* ModelStreaming's, scene files are SceneFiles'.                          *)
(***************************************************************************)
EXTENDS Hierarchy, FiniteSetsExt

CONSTANTS
  InitialScene,  \* the editor's scene at first: a registry
  MaxEntities,   \* bound: entities created in a scene
  MaxMaterials,  \* bound: materials created
  ListedLoads,   \* max_listed_model_loads
  MaxEdits       \* bound: what the user does

Models == { "cube", "file" }   \* the engine's, and one from a file
Materials == 1 .. MaxMaterials
Places == { "all", "slot" }

EntityRecords ==
  [ name : { "a", "b" }, transform : BOOLEAN, parent : Nat \cup { None },
    model : Models \cup { None }, owned : BOOLEAN,
    slots : [ Places -> Materials \cup { None } ], rigid : BOOLEAN,
    body : BOOLEAN, lifetime : BOOLEAN, bullet : BOOLEAN ]

\* What the game builds shows the engine's model, has no materials of its own,
\* and no bodies before it is played.
ASSUME EditorAssumption ==
  /\ { MaxEntities, MaxMaterials, ListedLoads, MaxEdits } \subseteq Nat
  /\ None \notin Nat \cup Models \cup EntityRecords
  /\ InitialScene \in Seq(EntityRecords)
  /\ \A e \in DOMAIN InitialScene :
       /\ InitialScene[e].model \in { "cube", None } /\ ~InitialScene[e].owned
       /\ ~InitialScene[e].body
       /\ \A s \in Places : InitialScene[e].slots[s] = None

VARIABLES
  registry,   \* editor_scene's and runtime_scene's
  stored, materials, pendingDeletions,
  bodies,     \* the entities whose bodies are in the physics world
  loads,      \* model_loads
  playing,    \* 0, or which play this is
  plays,
  selection,  \* the process-wide selection, and the scene it was made in
  renaming,   \* renaming_entity
  typed,      \* inspector_name_entity, while inspector_name_dirty
  browse,     \* what the open model browser is for
  view,       \* hierarchy_model
  mouse,      \* who has the mouse and the keyboard
  edits

editorVars == << registry, stored, materials, pendingDeletions, bodies, loads,
                 playing, plays, selection, renaming, typed, browse, view, mouse,
                 edits >>

Shown == IF playing = 0 THEN "editor" ELSE "runtime"   \* active_scene()
Reg == registry[Shown]
Primary == selection.primary

Named(name) ==
  [ name |-> name, transform |-> TRUE, parent |-> None, model |-> None,
    owned |-> FALSE, slots |-> [ s \in Places |-> None ], rigid |-> FALSE,
    body |-> FALSE, lifetime |-> FALSE, bullet |-> FALSE ]

----------------------------------------------------------------------------
\* References.  An entity owns a reference on its model if it is tagged with
\* it (StreamedModelTag), and one for each place it has a material in.
OwnedIn(reg, entities) ==
  [ m \in Models |->
      Cardinality({ e \in entities : reg[e].owned /\ reg[e].model = m }) ]
PlacedIn(reg, entities) ==
  [ m \in Materials |->
      Cardinality({ p \in entities \X Places : reg[p[1]].slots[p[2]] = m }) ]

One(things, m) == [ x \in things |-> IF x = m THEN 1 ELSE 0 ]
NoneOf(things) == [ x \in things |-> 0 ]

\* retain and release: a model goes with the last reference on it, and so
\* does a material, and the name it had.
Exchanged(given, taken) ==
  [ m \in Models |->
      LET refs == stored[m].refs + given[m] - taken[m]
      IN  [ refs |-> refs,
            state |-> IF refs = 0 THEN "none" ELSE stored[m].state ] ]
Reheld(mats, given, taken) ==
  [ m \in Materials |->
      LET refs == mats[m].refs + given[m] - taken[m]
      IN  [ mats[m] EXCEPT !.refs = refs, !.named = @ /\ refs > 0 ] ]

\* ModelStreamer::request(): a reference for the caller, on the cube if no
\* slot can be had.
Requested(m) ==
  [ Exchanged(One(Models, m), NoneOf(Models)) EXCEPT
      ![m].state = IF @ = "none" THEN "loading" ELSE @ ]

\* create_material(): the creator has a reference.
Unborn == { m \in Materials : ~materials[m].born }
Fresh == { m \in Unborn : \A n \in Unborn : m <= n }
Created(m, name) == [ born |-> TRUE, refs |-> 1, named |-> name ]

----------------------------------------------------------------------------
\* SelectionContext::Transaction::set() and what is built from it.
SetOn(s, e) == [ s EXCEPT !.ids = IF e \in Range(@) THEN @ ELSE Append(@, e),
                          !.primary = e ]
SetOff(s, e) ==
  LET left == Among(s.ids, Range(s.ids) \ {e})
  IN  IF e \notin Range(s.ids) THEN s
      ELSE [ s EXCEPT !.ids = left,
                      !.primary = IF @ # e THEN @
                                  ELSE IF left = << >> THEN None ELSE Last(left) ]
Cleared == [ of |-> 0, ids |-> << >>, primary |-> None ]
Assigned(entities) ==
  FoldLeft(SetOn, [ Cleared EXCEPT !.of = playing ], entities)

\* The Hierarchy drops what has been destroyed before anything else.
Chosen == FoldLeft(LAMBDA s, e : IF e \in Entities(Reg) THEN s ELSE SetOff(s, e),
                   selection, selection.ids)

----------------------------------------------------------------------------
EditorInit ==
  /\ registry = [ editor |-> InitialScene, runtime |-> << >> ]
  /\ stored = [ m \in Models |-> [ refs |-> IF m = "cube" THEN 1 ELSE 0,
                                   state |-> "none" ] ]
  /\ materials = [ m \in Materials |-> [ born |-> FALSE, refs |-> 0, named |-> FALSE ] ]
  /\ pendingDeletions = {} /\ bodies = {} /\ loads = << >>
  /\ playing = 0 /\ plays = 0 /\ selection = Cleared
  /\ renaming = None /\ typed = None /\ browse = None
  /\ view = [ filter |-> None, expanded |-> {}, group |-> FALSE,
              found |-> {}, groupFound |-> FALSE ]
  /\ mouse = [ captured |-> FALSE, game |-> FALSE, dragging |-> FALSE,
               fullscreen |-> FALSE, keyboardOff |-> FALSE ]
  /\ edits = 0

\* The panels are drawn and the mouse is theirs.
AtPanels == (playing # 0 => ~mouse.fullscreen) /\ ~mouse.captured
Counted == edits < MaxEdits /\ edits' = edits + 1
Edit == AtPanels /\ Counted

\* The tree is rebuilt when entities, names or parents have changed.
Put(reg) ==
  /\ registry' = [ registry EXCEPT ![Shown] = reg ]
  /\ view' = IF Nodes(reg) = Nodes(Reg) THEN view ELSE Rebuilt(view, reg)

Assets == << stored, materials, pendingDeletions >>
Session == << playing, plays, mouse >>
Typing == << renaming, typed >>
Physics == << bodies, loads >>

----------------------------------------------------------------------------
\* The Hierarchy's actions.

AddChild(under) ==
  /\ Edit /\ Len(Reg) < MaxEntities
  /\ Put(Append(Reg, [ Named("b") EXCEPT !.parent = under ]))
  /\ selection' = Assigned(<< Len(Reg) + 1 >>)
  /\ UNCHANGED << Assets, Session, Typing, Physics, browse >>

\* The copies of the roots' subtrees, each under its parent's copy: a root's
\* parent is not copied, or the root would be none.
Targets == SelectionRoots(Reg, Chosen.ids)
Copied == FlattenSeq([ i \in DOMAIN Targets |-> Subtree(Reg, Targets[i]) ])
CopyOf(e) == Len(Reg) + (CHOOSE i \in DOMAIN Copied : Copied[i] = e)
Copies ==
  [ i \in DOMAIN Copied |->
      [ Reg[Copied[i]] EXCEPT
          !.body = FALSE,
          !.parent = IF @ \in Range(Copied) THEN CopyOf(@) ELSE @ ] ]

DuplicateShared ==
  /\ Edit /\ Targets # << >> /\ Len(Reg) + Len(Copied) <= MaxEntities
  /\ Put(Reg \o Copies)
  /\ selection' = Assigned([ i \in DOMAIN Targets |-> CopyOf(Targets[i]) ])
  /\ materials' = Reheld(materials, PlacedIn(Copies, DOMAIN Copies), NoneOf(Materials))
  /\ UNCHANGED << stored, pendingDeletions, Session, Typing, Physics, browse >>

Duplicate ==
  /\ Edit /\ Targets # << >> /\ Len(Reg) + Len(Copied) <= MaxEntities
  /\ Put(Reg \o Copies)
  /\ selection' = Assigned([ i \in DOMAIN Targets |-> CopyOf(Targets[i]) ])
  /\ stored' = Exchanged(OwnedIn(Copies, DOMAIN Copies), NoneOf(Models))
  /\ materials' = Reheld(materials, PlacedIn(Copies, DOMAIN Copies), NoneOf(Materials))
  /\ UNCHANGED << pendingDeletions, Session, Typing, Physics, browse >>

\* registry.destroy(): Scene's signals give back what the entities hold.
Destroyed(reg, gone) == [ e \in DOMAIN reg |-> IF e \in gone THEN None ELSE reg[e] ]
GivenBack(gone) ==
  /\ Put(Destroyed(Reg, gone))
  /\ stored' = Exchanged(NoneOf(Models), OwnedIn(Reg, gone))
  /\ materials' = Reheld(materials, NoneOf(Materials), PlacedIn(Reg, gone))

\* EnTT empties an entity's pools last one first, and PhysicsBody's is younger
\* than RigidBody's: on_rigid_body_destroyed() finds no body to remove.
DeleteSelected ==
  /\ Edit /\ Chosen.ids # << >>
  /\ GivenBack(Range(Copied))
  /\ selection' = Cleared
  /\ renaming' = IF renaming # None /\ renaming.entity \in Range(Copied)
                   THEN None ELSE renaming
  /\ UNCHANGED << pendingDeletions, Session, typed, Physics, browse >>

\* A drop: the selection if the dragged row is in it, else that row; what
\* would come under itself stays.
Dragged(e) == IF e \in Range(Chosen.ids) THEN Targets ELSE << e >>
MovedBelowItself(under, reg, e) ==
  IF e = under THEN reg ELSE [ reg EXCEPT ![e].parent = under ]
Moved(under, reg, e) ==
  IF under # None /\ e \in Above(reg, under) \cup {under} THEN reg
  ELSE [ reg EXCEPT ![e].parent = under ]

Reparent(e, under) ==
  /\ Edit
  /\ Put(FoldLeft(LAMBDA reg, x : Moved(under, reg, x), Reg, Dragged(e)))
  /\ selection' = Chosen
  /\ UNCHANGED << Assets, Session, Typing, Physics, browse >>

\* Clicks on rows, and what multi-select asks for: all of a range, of what
\* the search matches, or nothing; only a click counts while a row is renamed.
RowEntities == Among(EntitiesOf(Rows(Reg, view)), Entities(Reg))
SelectionRequests ==
  /\ Edit
  /\ \/ \E e \in Range(RowEntities) :
          selection' \in { Assigned(<< e >>),
                           IF e \in Range(Chosen.ids) THEN SetOff(Chosen, e)
                             ELSE [ SetOn(Chosen, e) EXCEPT !.of = playing ] }
     \/ \E i, j \in DOMAIN RowEntities :
          i < j /\ selection' = Assigned(SubSeq(RowEntities, i, j))
     \/ /\ renaming = None
        /\ selection' \in { Cleared,
             Assigned(InOrder(Reg, SelfMatch(Reg, view.filter))) }
  /\ UNCHANGED << registry, Assets, Session, Typing, Physics, browse, view >>

LookAround ==
  /\ Edit
  /\ \/ \E f \in { None, "a" } \ { view.filter } : view' = SetFilter(view, Reg, f)
     \/ \E e \in Range(RowEntities) :
          ChildrenOf(Reg, e) # << >> /\ view' = ToggleExpanded(view, e)
     \/ GroupMembers(Reg) # {} /\ view' = ToggleGroup(view)
  /\ selection' = Chosen
  /\ UNCHANGED << registry, Assets, Session, Typing, Physics, browse >>

----------------------------------------------------------------------------
\* Names, typed in a row or in the Inspector.

At(e) == [ of |-> playing, entity |-> e ]
Renamed(e) ==
  IF e \in Entities(Reg)
    THEN [ Reg EXCEPT ![e].name = IF @ = "a" THEN "b" ELSE "a" ] ELSE Reg

BeginRename(e) ==
  /\ Edit /\ renaming' = At(e)
  /\ UNCHANGED << registry, Assets, Session, typed, Physics, selection, browse, view >>

\* Enter or a click elsewhere; Escape.
EndRename ==
  /\ Edit /\ renaming # None /\ renaming.entity \in Range(RowEntities)
  /\ Put(Renamed(renaming.entity)) \/ UNCHANGED << registry, view >>
  /\ renaming' = None
  /\ UNCHANGED << Assets, Session, typed, Physics, selection, browse >>

AtInspector == Primary # None /\ Primary \in Entities(Reg)

TypeName ==
  /\ Edit /\ AtInspector /\ typed = None
  /\ typed' = At(Primary)
  /\ UNCHANGED << registry, Assets, Session, renaming, Physics, selection, browse, view >>

\* Whatever is selected by now.
CommitName ==
  /\ AtPanels /\ typed # None /\ AtInspector
  /\ Put(Renamed(typed.entity)) /\ typed' = None
  /\ UNCHANGED << Assets, Session, renaming, Physics, selection, browse, edits >>

----------------------------------------------------------------------------
\* The Inspector's sections.

Inspect(entity) ==
  /\ Edit /\ AtInspector
  /\ Put([ Reg EXCEPT ![Primary] = entity ])
  /\ UNCHANGED << pendingDeletions, Session, Typing, loads, selection, browse >>

\* A closed header: the model's reference goes with its tag, the body with
\* the rigid body.
CloseSection ==
  LET e == Reg[Primary]
      plain == UNCHANGED << stored, materials, bodies >>
  IN  /\ AtInspector
      /\ \/ e.transform /\ plain /\ Inspect([ e EXCEPT !.transform = FALSE ])
         \/ e.bullet /\ plain /\ Inspect([ e EXCEPT !.bullet = FALSE ])
         \/ e.lifetime /\ plain /\ Inspect([ e EXCEPT !.lifetime = FALSE ])
         \/ /\ e.rigid /\ Inspect([ e EXCEPT !.rigid = FALSE, !.body = FALSE ])
            /\ bodies' = IF e.body THEN bodies \ {Primary} ELSE bodies
            /\ UNCHANGED << stored, materials >>
         \/ /\ e.model # None
            /\ Inspect([ e EXCEPT !.model = None, !.owned = FALSE ])
            /\ stored' = Exchanged(NoneOf(Models), OwnedIn(Reg, {Primary}))
            /\ UNCHANGED << materials, bodies >>
         \/ /\ \E s \in Places : e.slots[s] # None
            /\ Inspect([ e EXCEPT !.slots = [ s \in Places |-> None ] ])
            /\ materials' = Reheld(materials, NoneOf(Materials), PlacedIn(Reg, {Primary}))
            /\ UNCHANGED << stored, bodies >>

\* A rigid body added while playing has no body.
AddComponent ==
  LET e == Reg[Primary]
  IN  /\ AtInspector
      /\ \/ /\ UNCHANGED << stored, materials, bodies >>
            /\ \/ ~e.transform /\ Inspect([ e EXCEPT !.transform = TRUE ])
               \/ e.transform /\ ~e.rigid /\ Inspect([ e EXCEPT !.rigid = TRUE ])
               \/ ~e.lifetime /\ Inspect([ e EXCEPT !.lifetime = TRUE ])
         \/ \E m \in Models :
              /\ e.transform /\ e.model = None /\ stored[m].refs > 0
              /\ Inspect([ e EXCEPT !.model = m, !.owned = TRUE ])
              /\ stored' = Exchanged(One(Models, m), NoneOf(Models))
              /\ UNCHANGED << materials, bodies >>

\* set_entity_model(), with the reference the caller brings.
SetEntityModel(e, m, brought) ==
  /\ Put([ Reg EXCEPT ![e].model = m, ![e].owned = TRUE ])
  /\ stored' = [ x \in Models |->
                   LET after == Exchanged(One(Models, m), OwnedIn(Reg, {e}))
                   IN  IF x = m THEN [ after[x] EXCEPT !.state = brought[m].state ]
                       ELSE after[x] ]

ChooseModel(m) ==
  /\ Edit /\ AtInspector
  /\ Reg[Primary].model \notin { None, m } /\ stored[m].refs > 0
  /\ SetEntityModel(Primary, m, stored)
  /\ UNCHANGED << materials, pendingDeletions, Session, Typing, Physics, selection, browse >>

\* set_material_override() with one place changed: to nothing, to a named
\* material, to a copy made for it.
Place(s, m) ==
  LET after == [ Reg EXCEPT ![Primary].slots[s] = m ]
      born == IF m \in Unborn THEN [ materials EXCEPT ![m] = Created(m, FALSE) ]
                ELSE materials
      creation == IF m \in Unborn THEN One(Materials, m) ELSE NoneOf(Materials)
      before == PlacedIn(Reg, {Primary})
  IN  /\ materials' = Reheld(born, PlacedIn(after, {Primary}),
                             [ x \in Materials |-> before[x] + creation[x] ])
      /\ Inspect(after[Primary])

ChooseMaterial(s) ==
  /\ AtInspector
  /\ Reg[Primary].model # None \/ \E t \in Places : Reg[Primary].slots[t] # None
  /\ s = "slot" => Reg[Primary].model # None /\ stored[Reg[Primary].model].state # "loading"
  /\ \E m \in { None } \cup Fresh
              \cup { n \in Materials : materials[n].named /\ n \notin pendingDeletions } :
       m # Reg[Primary].slots[s] /\ Place(s, m)
  /\ UNCHANGED << stored, bodies >>

SaveAsAsset(s) ==
  /\ Edit /\ AtInspector /\ Reg[Primary].slots[s] # None
  /\ ~materials[Reg[Primary].slots[s]].named
  /\ materials' = [ materials EXCEPT ![Reg[Primary].slots[s]].named = TRUE,
                                     ![Reg[Primary].slots[s]].refs = @ + 1 ]
  /\ UNCHANGED << registry, stored, pendingDeletions, Session, Typing, Physics,
                  selection, browse, view >>

----------------------------------------------------------------------------
\* The Assets panel: a material's deletion waits, and can be called off.

Asset == UNCHANGED << registry, stored, Session, Typing, Physics, selection, browse, view >>

NewMaterial ==
  /\ Edit /\ Asset /\ UNCHANGED pendingDeletions
  /\ \E m \in Fresh : materials' = [ materials EXCEPT ![m] = Created(m, TRUE) ]

DeleteOrRestore(m) ==
  /\ Edit /\ Asset /\ UNCHANGED materials
  /\ materials[m].named \/ m \in pendingDeletions
  /\ pendingDeletions' = Toggled(pendingDeletions, m)

\* Its time is over, or it is deleted now: destroy_material().
CommitDeletion(m) ==
  /\ m \in pendingDeletions /\ Asset /\ UNCHANGED edits
  /\ pendingDeletions' = pendingDeletions \ {m}
  /\ materials' = IF materials[m].refs = 0 THEN materials
                  ELSE Reheld([ materials EXCEPT ![m].named = FALSE ],
                              NoneOf(Materials), One(Materials, m))

----------------------------------------------------------------------------
\* Models from files.

OpenBrowser ==
  /\ Edit /\ browse = None
  /\ browse' \in { [ target |-> "spawn", entity |-> None ] }
       \cup IF AtInspector /\ Reg[Primary].model # None
              THEN { [ target |-> "inspector", entity |-> Primary ] } ELSE {}
  /\ UNCHANGED << registry, Assets, Session, Typing, Physics, selection, view >>

\* The oldest settled loads leave a list that is too long.
Trimmed(list) ==
  FoldLeft(LAMBDA l, x :
             LET settled == { i \in DOMAIN l : l[i].settled }
             IN  IF Len(l) <= ListedLoads \/ settled = {} THEN l
                 ELSE RemoveAt(l, Min(settled)),
           list, list)

\* spawn_streamed_model(): a pick, or a file dropped on the window.
SpawnStreamedModel(m) ==
  /\ Len(Reg) < MaxEntities
  /\ stored' = Requested(m)
  /\ Put(Append(Reg, [ Named("a") EXCEPT !.model = m, !.owned = TRUE ]))
  /\ selection' = Assigned(<< Len(Reg) + 1 >>)
  /\ loads' = Trimmed(Append(loads, [ of |-> playing, entity |-> Len(Reg) + 1,
                                      model |-> m, settled |-> FALSE ]))
  /\ UNCHANGED << materials, pendingDeletions, Session, Typing, bodies >>

DropFile == \E m \in Models : Counted /\ SpawnStreamedModel(m) /\ UNCHANGED browse

\* The Inspector's pick is for the entity the browser was opened for, if the
\* scene that is shown by now has it.
Pick ==
  /\ Edit /\ browse # None /\ browse' = None
  /\ \E m \in Models :
       \/ browse.target = "spawn" /\ SpawnStreamedModel(m)
       \/ /\ browse.target = "inspector"
          /\ IF browse.entity \in Entities(Reg)
               THEN /\ Reg[browse.entity].model # None
                    /\ SetEntityModel(browse.entity, m, Requested(m))
               ELSE UNCHANGED << registry, stored, view >>
          /\ UNCHANGED << materials, pendingDeletions, Session, Typing, Physics, selection >>

\* The streamer's part: the file's model is installed, or is not.
ModelArrives ==
  /\ stored["file"].state = "loading"
  /\ \E s \in { "loaded", "failed" } : stored' = [ stored EXCEPT !["file"].state = s ]
  /\ UNCHANGED << registry, materials, pendingDeletions, Session, Typing, Physics,
                  selection, browse, view, edits >>

\* update_model_loads(): a collider for what is shown as it was loaded.
Ends(l) == ~l.settled /\ stored[l.model].state # "loading"
GetsCollider(l) ==
  /\ Ends(l) /\ l.model # "cube" /\ stored[l.model].state = "loaded"
  /\ l.of = playing /\ l.entity \in Entities(Reg)
  /\ ~Reg[l.entity].rigid /\ Reg[l.entity].model = l.model

UpdateModelLoads ==
  /\ \E i \in DOMAIN loads : Ends(loads[i])
  /\ loads' = [ i \in DOMAIN loads |->
                  IF Ends(loads[i]) THEN [ loads[i] EXCEPT !.settled = TRUE ] ELSE loads[i] ]
  /\ registry' = [ registry EXCEPT ![Shown] =
       [ e \in DOMAIN Reg |->
           IF \E i \in DOMAIN loads : GetsCollider(loads[i]) /\ loads[i].entity = e
             THEN [ Reg[e] EXCEPT !.rigid = TRUE ] ELSE Reg[e] ] ]
  /\ UNCHANGED << Assets, Session, Typing, bodies, selection, browse, view, edits >>

----------------------------------------------------------------------------
\* Playing.

\* clone_editor_into_runtime(): the same entities, without the tags; then
\* PhysicsWorld::populate_from().
Cloned(reg) ==
  [ e \in DOMAIN reg |->
      IF reg[e] = None THEN None
      ELSE [ reg[e] EXCEPT !.owned = FALSE, !.bullet = FALSE,
                           !.body = reg[e].transform /\ reg[e].rigid ] ]

Play ==
  LET clone == Cloned(registry.editor)
  IN  /\ Edit /\ playing = 0
      /\ playing' = plays + 1 /\ plays' = plays + 1
      /\ registry' = [ registry EXCEPT !.runtime = clone ]
      /\ bodies' = { e \in Entities(clone) : clone[e].body }
      /\ materials' = Reheld(materials, PlacedIn(clone, Entities(clone)), NoneOf(Materials))
      /\ view' = IF Nodes(clone) = Nodes(Reg) THEN view ELSE Rebuilt(view, clone)
      /\ selection' = Cleared /\ renaming' = None /\ typed' = None
      /\ mouse' = [ mouse EXCEPT !.game = FALSE, !.captured = mouse.fullscreen,
                                 !.keyboardOff = mouse.fullscreen ]
      /\ UNCHANGED << stored, pendingDeletions, loads, browse >>

\* stop(): the runtime scene gives back what it holds and goes with its
\* physics world.
LoadsLeft == Among(loads, { l \in Range(loads) : l.of # playing })
StopListing ==
  /\ playing # 0 /\ playing' = 0
  /\ bodies' = {} /\ loads' = loads
  /\ selection' = Cleared /\ renaming' = None /\ typed' = None
  /\ mouse' = [ mouse EXCEPT !.game = FALSE, !.captured = FALSE, !.keyboardOff = FALSE ]

Stop ==
  /\ playing # 0 /\ playing' = 0
  /\ bodies' = {} /\ loads' = LoadsLeft
  /\ selection' = Cleared /\ renaming' = None /\ typed' = None
  /\ mouse' = [ mouse EXCEPT !.game = FALSE, !.captured = FALSE, !.keyboardOff = FALSE ]

Summed(things, holds(_, _), scenes) ==
  LET of(s) == holds(registry[s], IF s \in scenes THEN Entities(registry[s]) ELSE {})
  IN  [ x \in things |-> of("editor")[x] + of("runtime")[x] ]
Emptied(scenes, left) ==
  /\ stored' = Exchanged(NoneOf(Models), Summed(Models, OwnedIn, scenes))
  /\ materials' = Reheld(materials, NoneOf(Materials), Summed(Materials, PlacedIn, scenes))
  /\ registry' = [ editor |-> left, runtime |-> << >> ]
  /\ view' = IF Nodes(left) = Nodes(Reg) THEN view ELSE Rebuilt(view, left)

EndPlay ==
  /\ Stop /\ Emptied({"runtime"}, registry.editor)
  /\ UNCHANGED << pendingDeletions, plays, browse, edits >>

PressStop == AtPanels /\ EndPlay

\* Ctrl+R: on_populate() clears the editor's scene and builds the game's.
Repopulate ==
  /\ Counted /\ Len(registry.editor) < MaxEntities
  /\ IF playing # 0 THEN Stop
     ELSE UNCHANGED << playing, bodies, loads, selection, renaming, typed, mouse >>
  /\ Emptied({"editor"} \cup (IF playing # 0 THEN {"runtime"} ELSE {}),
             Append(Destroyed(registry.editor, DOMAIN registry.editor),
                    [ Named("a") EXCEPT !.model = "cube", !.rigid = TRUE ]))
  /\ UNCHANGED << pendingDeletions, plays, browse >>

\* on_mouse_button_pressed() of the game: an entity with a body of its own.
Shoot ==
  /\ Counted /\ playing # 0 /\ Len(Reg) < MaxEntities
  /\ mouse.game \/ mouse.fullscreen
  /\ Put(Append(Reg, [ Named("b") EXCEPT !.model = "cube", !.rigid = TRUE, !.body = TRUE,
                                         !.lifetime = TRUE, !.bullet = TRUE ]))
  /\ bodies' = bodies \cup { Len(Reg) + 1 }
  /\ UNCHANGED << Assets, Session, Typing, loads, selection, browse >>

\* systems::lifetime(): the body first.
Expire(e) ==
  /\ playing # 0 /\ Reg[e].lifetime
  /\ bodies' = IF Reg[e].body THEN bodies \ {e} ELSE bodies
  /\ GivenBack({e})
  /\ UNCHANGED << pendingDeletions, Session, Typing, loads, selection, browse, edits >>

----------------------------------------------------------------------------
\* The mouse (main.cxx): a right drag turns the editor's camera; a click on
\* the viewport gives the mouse to an embedded play until Escape.

MouseOnly == UNCHANGED << registry, Assets, playing, plays, Typing, Physics,
                          selection, browse, view >>

PressMouse ==
  /\ Counted /\ MouseOnly
  /\ \E right, hovered \in BOOLEAN :
       LET turns == playing = 0 /\ right
           takes == playing # 0 /\ ~mouse.fullscreen /\ hovered /\ ~mouse.game
       IN  mouse' = [ mouse EXCEPT !.captured = @ \/ turns \/ takes,
                                   !.game = @ \/ takes, !.dragging = @ \/ right ]

ReleaseMouse ==
  /\ mouse.dragging /\ MouseOnly /\ UNCHANGED edits
  /\ mouse' = [ mouse EXCEPT !.dragging = FALSE, !.captured = @ /\ playing # 0 ]

SetFullscreen ==
  /\ Edit /\ MouseOnly
  /\ mouse' = [ mouse EXCEPT !.fullscreen = ~@ ]

Escape ==
  /\ playing # 0
  /\ \/ /\ mouse.game /\ MouseOnly /\ UNCHANGED edits
        /\ mouse' = [ mouse EXCEPT !.game = FALSE, !.captured = FALSE ]
     \/ ~mouse.game /\ EndPlay

FocusLost == EndPlay

----------------------------------------------------------------------------
EditorNext ==
  \/ \E under \in Entities(Reg) \cup { None } : AddChild(under)
  \/ Duplicate \/ DeleteSelected
  \/ \E e \in Range(RowEntities), under \in Range(RowEntities) \cup { None } :
       Reparent(e, under)
  \/ SelectionRequests \/ LookAround
  \/ \E e \in Range(RowEntities) : BeginRename(e)
  \/ EndRename \/ TypeName \/ CommitName
  \/ CloseSection \/ AddComponent
  \/ \E m \in Models : ChooseModel(m)
  \/ \E s \in Places : ChooseMaterial(s) \/ SaveAsAsset(s)
  \/ NewMaterial
  \/ \E m \in Materials : DeleteOrRestore(m) \/ CommitDeletion(m)
  \/ OpenBrowser \/ Pick \/ DropFile \/ ModelArrives \/ UpdateModelLoads
  \/ Play \/ PressStop \/ Repopulate \/ Shoot
  \/ \E e \in Entities(Reg) : Expire(e)
  \/ PressMouse \/ ReleaseMouse \/ SetFullscreen \/ Escape \/ FocusLost

EditorSpec == EditorInit /\ [][EditorNext]_editorVars

----------------------------------------------------------------------------
\* Every reference is somebody's and everybody has theirs: the engine's on its
\* model, an asset's on its material, and those of the entities of the scene
\* and of its clone; so nothing an entity is drawn with is gone, whatever is
\* duplicated, swapped, deleted, called off, played and stopped in between.
RefsAreHeld ==
  LET both(things, holds(_, _)) == Summed(things, holds, DOMAIN registry)
  IN  /\ \A m \in Models :
           stored[m].refs = both(Models, OwnedIn)[m] + (IF m = "cube" THEN 1 ELSE 0)
      /\ \A m \in Materials :
           materials[m].refs = both(Materials, PlacedIn)[m]
                                 + (IF materials[m].named THEN 1 ELSE 0)
      /\ \A s \in DOMAIN registry : \A e \in Entities(registry[s]) :
           registry[s][e].model # None => stored[registry[s][e].model].refs > 0

\* The runtime scene has the editor scene's entities' ids.  What names an
\* entity - the selection, a name being typed, a load - is of the scene that is
\* shown, a body is in the world there is, and the mouse and the keyboard are
\* taken only by what is going on.
PlayLeavesNothing ==
  /\ selection.ids # << >> => selection.of = playing
  /\ \A x \in { renaming, typed } \ { None } : x.of = playing
  /\ \A l \in Range(loads) : l.of \in { 0, playing }
  /\ \A e \in Entities(Reg) : Reg[e].body => e \in bodies
  /\ playing = 0 => bodies = {} /\ registry.runtime = << >>
  /\ mouse.captured =>
       mouse.dragging \/ (playing # 0 /\ (mouse.game \/ mouse.fullscreen))
  /\ mouse.keyboardOff \/ mouse.game => playing # 0

\* No entity comes under itself, and the Hierarchy lists what it should, once
\* and in its place, while entities are moved, deleted and renamed, searched
\* for, expanded and collapsed.
HierarchyShowsTheScene ==
  /\ \A e \in Entities(Reg) : e \notin Above(Reg, e)
  /\ Reached(Reg) = Listed(Reg)
  /\ RowsAreTheTree(Reg, view)
=============================================================================
