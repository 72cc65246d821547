---------------------------- MODULE FrameImages ----------------------------
(***************************************************************************)
(* The images the shaders index and the descriptor sets that list them     *)
(* (src/gpu/image_storage.cxx, src/gpu/gpu_resource_table.cxx), beside the *)
(* frame loop.                                                             *)
(*                                                                         *)
(* A slot of the pool owns an image object or aliases the view of another  *)
(* slot's object.  Every change of a slot counts its revision up, and each *)
(* frame slot's descriptor set is brought up to date with the slots whose  *)
(* revision it has not seen, in prepare_frame().  The objects are also the *)
(* staging buffers of uploads: everything a submission may touch and that  *)
(* somebody destroys.                                                      *)
(*                                                                         *)
(* Only the sampled views are modelled: a set's storage entry of a slot    *)
(* without a storage view is left as it was and no shader indexes it.      *)
(***************************************************************************)
EXTENDS FrameLoop, SequencesExt

CONSTANTS
  Capacity    \* the slots of the image pool

ASSUME ImagesAssumption ==
  /\ Capacity \in Nat \ {0}
  /\ Resources \subseteq Nat \ {0}
  /\ Resources # {}

VARIABLES
  store,  \* ImageStorage: slots, free (the pool's free list) and live (objects)
  sets    \* per frame slot: what its descriptor set lists, per index

imageVars == << store, sets >>

Indexes == 0 .. Capacity - 1

\* The first default image, which slots without a view of their own show.
White == 0

NoObject == 0

ImageSlots == [obj: Resources \cup {NoObject}, alias: BOOLEAN, revision: Nat]

ImagesTypeOK ==
  /\ store \in [slots: [Indexes -> ImageSlots], free: Seq(Indexes),
                live: SUBSET Resources]
  /\ sets \in [Slots -> [Indexes -> [revision: Nat,
                                     obj: Resources \cup {NoObject}]]]

WhiteObject == CHOOSE r \in Resources : \A other \in Resources : r <= other

\* ImageStorage::create(): the default images come first.
FreshStore ==
  [slots |-> [i \in Indexes |->
                [obj |-> IF i = White THEN WhiteObject ELSE NoObject,
                 alias |-> FALSE, revision |-> 1]],
   free |-> [n \in 1 .. Capacity - 1 |-> n],
   live |-> {WhiteObject}]

\* GpuResourceTable::create(): no frame slot's set has seen any revision.
FreshSets ==
  [s \in Slots |-> [i \in Indexes |-> [revision |-> 0, obj |-> NoObject]]]

ImagesInit ==
  /\ store = FreshStore
  /\ sets = FreshSets

\* The pool neither loses nor doubles a slot.
IndexesAccounted ==
  /\ \A i \in Indexes : (\E n \in DOMAIN store.free : store.free[n] = i)
                          <=> store.slots[i].obj = NoObject
  /\ IsInjective(store.free)

Listed(set) == { set[i].obj : i \in Indexes } \ {NoObject}

\* An object's name is used again only when nothing remembers it.
Remembered(st) ==
  st.live \cup recording \cup UNION { s.uses : s \in inFlight }
          \cup UNION { Listed(sets[s]) : s \in Slots }

NewObject(st) ==
  CHOOSE r \in Resources \ Remembered(st) :
    \A other \in Resources \ Remembered(st) : r <= other

NewIndex(st) == Head(st.free)

HasRoom(st, n) == Len(st.free) >= n

----------------------------------------------------------------------------
(* The operations, each from a storage to the storage it leaves. *)

\* Mutant: a slot that is taken again starts over at the first revision.
PutAfresh(st, i, obj, alias) ==
  [st EXCEPT !.slots[i] = [obj |-> obj, alias |-> alias, revision |-> 1]]

\* bump_revision() after the slot's image or aliased views changed.
Put(st, i, obj, alias) ==
  [st EXCEPT !.slots[i] = [obj |-> obj, alias |-> alias,
                           revision |-> @.revision + 1]]

\* create_image(): the next free slot owns a new object.
CreateImage(st) ==
  LET obj == NewObject(st) IN
  [Put(st, NewIndex(st), obj, FALSE) EXCEPT !.free = Tail(@),
                                            !.live = @ \cup {obj}]

\* register_view(): the next free slot aliases a view of another's object.
RegisterView(st, obj) ==
  [Put(st, NewIndex(st), obj, TRUE) EXCEPT !.free = Tail(@)]

\* create_pending_image(): the fallback's views until the image is there.
CreatePendingImage(st, fallback) == RegisterView(st, st.slots[fallback].obj)

\* A staging buffer for an upload, destroyed by whoever keeps it.
CreateStaging(st) == [st EXCEPT !.live = @ \cup {NewObject(st)}]

\* upgrade_pending_image(): the slot drops the alias, or destroys the image it
\* had, and owns a new one.
UpgradePendingImage(st, i) ==
  LET obj == NewObject(st)
      old == IF st.slots[i].alias THEN {} ELSE {st.slots[i].obj}
  IN  [Put(st, i, obj, FALSE) EXCEPT !.live = (@ \ old) \cup {obj}]

\* Mutant: the slot is emptied, but not given back.
DestroyImageOnly(st, i) ==
  LET old == IF st.slots[i].alias THEN {} ELSE {st.slots[i].obj} IN
  [Put(st, i, NoObject, FALSE) EXCEPT !.live = @ \ old]

\* destroy_image(): at once; the slot goes back to the front of the free list.
DestroyImage(st, i) ==
  LET old == IF st.slots[i].alias THEN {} ELSE {st.slots[i].obj} IN
  [Put(st, i, NoObject, FALSE) EXCEPT !.live = @ \ old, !.free = << i >> \o @]

DestroyImages(st, indexes) == FoldLeft(DestroyImage, st, indexes)

DestroyObjects(st, objects) == [st EXCEPT !.live = @ \ objects]

\* descriptor_record() with the table's fallback for a slot without a view.
DescriptorRecord(st, i) ==
  [revision |-> st.slots[i].revision,
   obj |-> IF st.slots[i].obj = NoObject THEN st.slots[White].obj
                                         ELSE st.slots[i].obj]

\* GpuResourceTable::prepare_frame() on one frame slot's set: the indexes whose
\* revision it has not seen are written.
UpdatedSet(set, st) ==
  [i \in Indexes |-> IF set[i].revision = st.slots[i].revision
                     THEN set[i] ELSE DescriptorRecord(st, i)]

=============================================================================
