------------------------------ MODULE Hierarchy ------------------------------
(***************************************************************************)
(* The tree of entities the editor shows (src/scene/hierarchy_model.cxx),  *)
(* and who is under whom in it.                                            *)
(*                                                                         *)
(* A registry is a sequence: an entity is a place in it, which holds what  *)
(* the entity has, or None once it is destroyed; places are not reused.    *)
(* A name is abstracted to a value, and a search text to the name it is    *)
(* found in.                                                               *)
(***************************************************************************)
EXTENDS Engine, Integers, Sequences, FiniteSets, SequencesExt

\* Those of a sequence that are in S, in the order they have.
Among(s, S) ==
  FoldLeft(LAMBDA t, x : IF x \in S THEN Append(t, x) ELSE t, << >>, s)

Entities(reg) == { e \in DOMAIN reg : reg[e] # None }

\* collect_hierarchy_nodes(): every entity with a Transform; all have a name.
Listed(reg) == { e \in Entities(reg) : reg[e].transform }
Nodes(reg) ==
  [ e \in Listed(reg) |-> << reg[e].name, reg[e].parent, reg[e].bullet >> ]

\* HierarchyModel::rebuild(): who has no listed parent starts a tree.
ParentOf(reg, e) ==
  IF reg[e].parent \in Listed(reg) \ {e} THEN reg[e].parent ELSE None
InOrder(reg, entities) == Among([ e \in DOMAIN reg |-> e ], entities)
ChildrenOf(reg, e) == InOrder(reg, { c \in Listed(reg) : ParentOf(reg, c) = e })
Starts(reg) == { e \in Listed(reg) : ParentOf(reg, e) = None }
GroupMembers(reg) == { e \in Starts(reg) : reg[e].bullet }
Roots(reg) == Starts(reg) \ GroupMembers(reg)

\* What is met from there: a cycle is not.
Reached(reg) ==
  FoldLeft(LAMBDA met, e : met \cup { c \in Listed(reg) : ParentOf(reg, c) \in met },
           Starts(reg), reg)

\* A walk from an entity on: a row for each that is wanted, parents first, and
\* what is below those that are open one deeper.
Deeper(rows) == [ i \in DOMAIN rows |-> [ rows[i] EXCEPT !.depth = @ + 1 ] ]
Walked(reg, wanted, open) ==
  LET rows[e \in Reached(reg)] ==
        IF e \notin wanted THEN << >>
        ELSE << [ entity |-> e, depth |-> 0 ] >>
               \o IF e \notin open THEN << >>
                  ELSE Deeper(FlattenSeq([ i \in DOMAIN ChildrenOf(reg, e) |->
                                             rows[ChildrenOf(reg, e)[i]] ]))
  IN  rows
EntitiesOf(rows) == [ i \in DOMAIN rows |-> rows[i].entity ]

\* An entity and what is below it, as the tree has it.
Subtree(reg, root) ==
  IF root \in Reached(reg)
    THEN EntitiesOf(Walked(reg, Reached(reg), Reached(reg))[root]) ELSE << root >>

\* recompute_matches().
SelfMatch(reg, filter) == { e \in Listed(reg) : filter \in { None, reg[e].name } }
SubtreeMatch(reg, filter) ==
  IF filter = None THEN Listed(reg)
  ELSE { e \in Reached(reg) : Range(Subtree(reg, e)) \cap SelfMatch(reg, filter) # {} }

\* What the widget keeps: the search, and what is open, with and without one.
\* A change of the tree or of the search opens what leads to a match.
Rebuilt(view, reg) ==
  LET match == SubtreeMatch(reg, view.filter)
  IN  IF view.filter = None
        THEN [ view EXCEPT !.found = {}, !.groupFound = FALSE ]
        ELSE [ view EXCEPT
                 !.found = { ParentOf(reg, c) : c \in match \ Starts(reg) },
                 !.groupFound = GroupMembers(reg) \cap match # {} ]

SetFilter(view, reg, filter) == Rebuilt([ view EXCEPT !.filter = filter ], reg)

\* set_expanded() and set_group_expanded().
Toggled(S, e) == IF e \in S THEN S \ {e} ELSE S \cup {e}
ToggleExpanded(view, e) ==
  IF view.filter = None THEN [ view EXCEPT !.expanded = Toggled(@, e) ]
  ELSE [ view EXCEPT !.found = Toggled(@, e) ]
ToggleGroup(view) ==
  IF view.filter = None THEN [ view EXCEPT !.group = ~@ ]
  ELSE [ view EXCEPT !.groupFound = ~@ ]

Open(view) == IF view.filter = None THEN view.expanded ELSE view.found
GroupOpen(view) == IF view.filter = None THEN view.group ELSE view.groupFound

\* rebuild_rows().
Rows(reg, view) ==
  LET match == SubtreeMatch(reg, view.filter)
      emit == Walked(reg, match, Open(view))
      All(entities) == FlattenSeq([ i \in DOMAIN entities |-> emit[entities[i]] ])
      group == IF GroupMembers(reg) \cap match = {} THEN << >>
               ELSE << [ entity |-> None, depth |-> 0 ] >>
                      \o IF GroupOpen(view)
                           THEN Deeper(All(InOrder(reg, GroupMembers(reg))))
                           ELSE << >>
  IN  group \o All(InOrder(reg, Roots(reg)))

\* The valid entities the Parent components name from e on, listed or not.
Above(reg, e) ==
  FoldLeft(LAMBDA met, x :
             met \cup ({ reg[y].parent : y \in met \cup {e} } \cap Entities(reg)),
           {}, reg)

\* selection_roots().
SelectionRoots(reg, chosen) ==
  Among(chosen, { e \in Entities(reg) : Above(reg, e) \cap Range(chosen) = {} })

----------------------------------------------------------------------------
\* The rows said without walking the tree: an entity has a row exactly if it
\* or something under it is looked for and all it is under is open; its row
\* is as deep as it has ancestors, and follows its parent's with nothing in
\* between that is not under the parent too.
RowsAreTheTree(reg, view) ==
  LET rows == Rows(reg, view)
      parent == [ e \in Listed(reg) |-> ParentOf(reg, e) ]
      over == [ e \in Listed(reg) |->
                  FoldLeft(LAMBDA met, x : met \cup ({ parent[y] : y \in met \cup {e} } \ {None}),
                           {}, reg) ]
      top(e) == CHOOSE t \in over[e] \cup {e} : parent[t] = None
      grouped == { e \in Listed(reg) : top(e) \in GroupMembers(reg) }
      wanted == UNION { over[d] \cup {d} : d \in SelfMatch(reg, view.filter) }
      shown == { e \in wanted : over[e] \subseteq Open(view) /\ (e \in grouped => GroupOpen(view)) }
      listed == SelectSeq(rows, LAMBDA r : r.entity # None)
  IN  /\ { listed[i].entity : i \in DOMAIN listed } = shown
      /\ Len(listed) = Cardinality(shown)
      /\ \A i \in DOMAIN rows : rows[i].entity # None =>
           /\ rows[i].depth = Cardinality(over[rows[i].entity])
                                + (IF rows[i].entity \in grouped THEN 1 ELSE 0)
           /\ parent[rows[i].entity] # None =>
                \E j \in 1 .. i - 1 :
                  /\ rows[j].entity = parent[rows[i].entity]
                  /\ \A k \in j + 1 .. i : rows[k].depth > rows[j].depth
=============================================================================
