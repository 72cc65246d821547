----------------------------- MODULE ObjectPool -----------------------------
(***************************************************************************)
(* The generation-checked free-list pool behind the storages of the engine *)
(* (include/core/object_pool.hxx) and the Holders that own its slots       *)
(* (include/core/holder.hxx).                                              *)
(*                                                                         *)
(* Generations are counted modulo GenerationLimit; the code has 2^32 of    *)
(* them.  MaxIssued stays below that: beyond it a handle kept for 2^32 - 1 *)
(* releases of its slot resolves again, which no generation scheme of that *)
(* width avoids.                                                           *)
(***************************************************************************)
EXTENDS Integers, FiniteSets

CONSTANTS
  PoolCapacity,    \* slots of the pool
  GenerationLimit, \* generations wrap here
  Owners,          \* Holders somewhere in the program
  MaxIssued        \* bound of the model: allocations in a behaviour

ASSUME PoolAssumption ==
  /\ PoolCapacity \in Nat \ {0}
  /\ GenerationLimit \in Nat \ {0, 1}
  /\ MaxIssued \in Nat /\ MaxIssued < GenerationLimit

VARIABLES
  slots,    \* slots_: generation, next_free and occupied
  freeHead, \* free_head_
  size,     \* size_
  holder,   \* the handle every Holder owns, or NoHandle
  raw,      \* handles of occupied slots no Holder owns
  issued,   \* every handle allocate() ever returned
  misses    \* a Holder asked for a release that found nothing

holderVars == << slots, freeHead, size, holder, raw, issued, misses >>

Indices == 0 .. PoolCapacity - 1
Handles == [index: Indices, generation: 0 .. GenerationLimit - 1]
NoHandle == [index |-> PoolCapacity, generation |-> 0]

PoolTypeOK ==
  /\ slots \in [Indices -> [generation: 1 .. GenerationLimit - 1,
                            nextFree: 0 .. PoolCapacity, occupied: BOOLEAN]]
  /\ freeHead \in 0 .. PoolCapacity
  /\ size \in 0 .. PoolCapacity
  /\ holder \in [Owners -> Handles \cup {NoHandle}]
  /\ raw \in SUBSET Handles
  /\ issued \in SUBSET Handles
  /\ misses \in BOOLEAN

\* create(): every slot points to the next one, the last one past the end.
PoolInit ==
  /\ slots = [i \in Indices |->
                [generation |-> 1, nextFree |-> i + 1, occupied |-> FALSE]]
  /\ freeHead = 0
  /\ size = 0
  /\ holder = [o \in Owners |-> NoHandle]
  /\ raw = {}
  /\ issued = {}
  /\ misses = FALSE

----------------------------------------------------------------------------

\* slot_for(): the slot is occupied by the allocation the handle came from.
Resolves(h) ==
  /\ h.index \in Indices
  /\ slots[h.index].occupied
  /\ slots[h.index].generation = h.generation

HandleAt(i) == [index |-> i, generation |-> slots[i].generation]

\* allocate(): the head of the free list; HandleAt(freeHead) is returned.
TakeSlot ==
  /\ freeHead < PoolCapacity
  /\ freeHead' = slots[freeHead].nextFree
  /\ slots' = [slots EXCEPT ![freeHead].nextFree = PoolCapacity,
                            ![freeHead].occupied = TRUE]
  /\ size' = size + 1
  /\ issued' = issued \cup {HandleAt(freeHead)}

\* Mutant: the generation of a released slot stays the same.
SameGeneration(generation) == generation

\* Never back to 0, which means "never allocated".
NextGeneration(generation) ==
  IF generation + 1 = GenerationLimit THEN 1 ELSE generation + 1

\* The part of release() after the handle was found.
FreeSlot(h) ==
  /\ slots' = [slots EXCEPT ![h.index] =
                 [generation |-> NextGeneration(@.generation),
                  nextFree |-> freeHead, occupied |-> FALSE]]
  /\ freeHead' = h.index
  /\ size' = size - 1
  /\ UNCHANGED issued

poolVars == << slots, freeHead, size, issued >>

\* release(): nothing happens to a handle that does not resolve.
ReleaseSlot(h) ==
  IF Resolves(h) THEN FreeSlot(h) ELSE UNCHANGED poolVars

\* What a Holder does with the handle it gives up, if it has one.
ReleaseOwned(h) ==
  IF h = NoHandle
  THEN UNCHANGED << poolVars, misses >>
  ELSE ReleaseSlot(h) /\ misses' = (misses \/ ~Resolves(h))

----------------------------------------------------------------------------

\* allocate() by code that keeps the handle itself.
AllocateSlot ==
  /\ Cardinality(issued) < MaxIssued
  /\ TakeSlot
  /\ raw' = raw \cup {HandleAt(freeHead)}
  /\ UNCHANGED << holder, misses >>

\* allocate() of a full pool returns nullopt.
AllocateFull ==
  /\ freeHead >= PoolCapacity
  /\ UNCHANGED holderVars

\* release() of a handle that was issued at some time and that no Holder owns.
Release(h) ==
  /\ h \in issued
  /\ \A o \in Owners : holder[o] # h
  /\ ReleaseSlot(h)
  /\ raw' = raw \ {h}
  /\ UNCHANGED << holder, misses >>

\* acquire(), assigned to a Holder that owns nothing yet.
Acquire(o) ==
  /\ Cardinality(issued) < MaxIssued
  /\ holder[o] = NoHandle
  /\ TakeSlot
  /\ holder' = [holder EXCEPT ![o] = HandleAt(freeHead)]
  /\ UNCHANGED << raw, misses >>

\* Holder::reset(), and its destructor.
Reset(o) ==
  /\ ReleaseOwned(holder[o])
  /\ holder' = [holder EXCEPT ![o] = NoHandle]
  /\ UNCHANGED raw

\* Mutant: the Holder moved from keeps its handle.
MovedLeavingSource(to, from) == [holder EXCEPT ![to] = holder[from]]

\* The Holders after a move: the source owns nothing any more.
Moved(to, from) == [holder EXCEPT ![to] = holder[from], ![from] = NoHandle]

\* Holder's move assignment: what it owned is released first.
Move(to, from) ==
  /\ to # from
  /\ ReleaseOwned(holder[to])
  /\ holder' = Moved(to, from)
  /\ UNCHANGED raw

\* Holder::detach(): the caller has the handle now.
Detach(o) ==
  /\ holder[o] # NoHandle
  /\ raw' = raw \cup {holder[o]}
  /\ holder' = [holder EXCEPT ![o] = NoHandle]
  /\ UNCHANGED << poolVars, misses >>

\* A Holder is given a handle that is live: like unique_ptr from a pointer.
Adopt(o, h) ==
  /\ holder[o] = NoHandle
  /\ h \in raw
  /\ raw' = raw \ {h}
  /\ holder' = [holder EXCEPT ![o] = h]
  /\ UNCHANGED << poolVars, misses >>

PoolNext ==
  \/ AllocateSlot
  \/ AllocateFull
  \/ \E h \in issued : Release(h)
  \/ \E o \in Owners : Acquire(o) \/ Reset(o) \/ Detach(o)
  \/ \E to, from \in Owners : Move(to, from)
  \/ \E o \in Owners, h \in raw : Adopt(o, h)

PoolSpec == PoolInit /\ [][PoolNext]_holderVars

----------------------------------------------------------------------------

Live == { HandleAt(i) : i \in { j \in Indices : slots[j].occupied } }

Unoccupied == { i \in Indices : ~slots[i].occupied }

\* The free list threads every unoccupied slot exactly once and ends, so no
\* slot is lost and none is handed out twice.
Threads(list, n) ==
  /\ list[0] = freeHead /\ list[n] = PoolCapacity
  /\ \A k \in 0 .. n - 1 :
       list[k] \in Unoccupied /\ slots[list[k]].nextFree = list[k + 1]
  /\ \A i \in Unoccupied : \E k \in 0 .. n - 1 : list[k] = i
  /\ \A j, k \in 0 .. n - 1 : list[j] = list[k] => j = k

FreeListIsTheRest ==
  \E list \in [0 .. PoolCapacity - size -> 0 .. PoolCapacity] :
    Threads(list, PoolCapacity - size)

OccupiedIsOwned == Live = raw \cup ({ holder[o] : o \in Owners } \ {NoHandle})

(* A Holder's handle is live and nobody else's: dropping it destroys a value  *)
(* nobody refers to, and never misses.  No slot leaks: what is occupied is    *)
(* owned by a Holder or by the code that allocated it.                        *)
HoldersOwnAlone ==
  /\ PoolTypeOK /\ FreeListIsTheRest
  /\ ~misses
  /\ \A o \in Owners : holder[o] # NoHandle =>
       /\ Resolves(holder[o])
       /\ holder[o] \notin raw
       /\ \A p \in Owners \ {o} : holder[p] # holder[o]
  /\ OccupiedIsOwned

(* The pool is the abstract one: a handle resolves from the allocate() that   *)
(* returned it to its release() and never again.                              *)
Promise == INSTANCE HandlePool
  WITH Capacity <- PoolCapacity, live <- { h \in issued : Resolves(h) }
ImplementsHandlePool == Promise!Spec

=============================================================================
