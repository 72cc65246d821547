------------------------- MODULE FreeListAllocator -------------------------
(***************************************************************************)
(* The address space of a geometry arena: the address-ordered, coalescing  *)
(* free list with alignment-aware best fit of                              *)
(* src/assets/geometry_allocator.cxx, and the way geometry_arena.cxx uses  *)
(* it: allocate, grow and try again, write, roll back if the write fails.  *)
(*                                                                         *)
(* Addresses are small numbers.  The code clamps alignments to at least 4  *)
(* bytes; here that floor is a constant.                                   *)
(***************************************************************************)
EXTENDS Integers, FiniteSets, SequencesExt

CONSTANTS
  Capacity,     \* what reset() is given
  Sizes,        \* the sizes allocations have
  Alignments,   \* the alignments asked for
  MinAlignment, \* the alignment allocate() uses at least
  MaxCapacity   \* bound of the model: no growth beyond this

ASSUME AllocatorAssumption ==
  /\ Capacity \in Nat \ {0}
  /\ Sizes \subseteq Nat \ {0}
  /\ Alignments \subseteq Nat \ {0}
  /\ MinAlignment \in Nat \ {0}

VARIABLES
  allocator, \* free_ranges_, capacity_ and used_
  slices,    \* the slices handed out and not yet deallocated
  result     \* how the last arena operation ended

vars == << allocator, slices, result >>

Slice(offset, size) == [offset |-> offset, size |-> size]
End(range) == range.offset + range.size

TypeOK ==
  /\ allocator.capacity \in Nat /\ allocator.used \in Nat
  /\ allocator.ranges \in Seq([offset: Nat, size: Nat])
  /\ slices \in SUBSET [offset: Nat, size: Sizes]
  /\ result \in {"ok", "out_of_memory", "device_error"}

Init ==
  /\ allocator = [ranges |-> << Slice(0, Capacity) >>, capacity |-> Capacity, used |-> 0]
  /\ slices = {}
  /\ result = "ok"

----------------------------------------------------------------------------

AlignUp(value, alignment) == ((value + alignment - 1) \div alignment) * alignment

\* What allocate() accepts as a candidate.
Fits(range, size, alignment) ==
  LET aligned == AlignUp(range.offset, alignment) IN
    aligned <= End(range) /\ size <= End(range) - aligned

\* Best fit by size; ties go to the lowest offset.
BestFit(ranges, size, alignment) ==
  LET candidates == { i \in DOMAIN ranges : Fits(ranges[i], size, alignment) }
  IN  CHOOSE i \in candidates : \A j \in candidates :
        \/ ranges[i].size < ranges[j].size
        \/ ranges[i].size = ranges[j].size /\ i <= j

HasFit(a, size, alignment) ==
  \E i \in DOMAIN a.ranges : Fits(a.ranges[i], size, alignment)

\* Mutant: the padding in front of an aligned allocation is lost.
CarvePaddingLost(range, taken) ==
  IF End(taken) < End(range)
  THEN << Slice(End(taken), End(range) - End(taken)) >> ELSE << >>

\* What is left of a range around the slice taken out of it, in order.
Carve(range, taken) ==
  (IF taken.offset > range.offset
   THEN << Slice(range.offset, taken.offset - range.offset) >> ELSE << >>)
  \o
  (IF End(taken) < End(range)
   THEN << Slice(End(taken), End(range) - End(taken)) >> ELSE << >>)

\* The slice allocate() returns and the allocator it leaves, given a fit.
BestSlice(a, size, alignment) ==
  Slice(AlignUp(a.ranges[BestFit(a.ranges, size, alignment)].offset, alignment), size)

Allocated(a, size, alignment) ==
  LET i == BestFit(a.ranges, size, alignment) IN
    [ranges |-> SubSeq(a.ranges, 1, i - 1)
                \o Carve(a.ranges[i], BestSlice(a, size, alignment))
                \o SubSeq(a.ranges, i + 1, Len(a.ranges)),
     capacity |-> a.capacity, used |-> a.used + size]

\* Mutant: a freed range is merged with the one after it only.
MergedForwardOnly(ranges, i) ==
  IF i < Len(ranges) /\ End(ranges[i]) = ranges[i + 1].offset
  THEN RemoveAt([ranges EXCEPT ![i].size = @ + ranges[i + 1].size], i + 1)
  ELSE ranges

\* Range i absorbs the following one, if they are adjacent.
Absorbing(ranges, i) ==
  IF i < Len(ranges) /\ End(ranges[i]) = ranges[i + 1].offset
  THEN RemoveAt([ranges EXCEPT ![i] = Slice(@.offset, @.size + ranges[i + 1].size)], i + 1)
  ELSE ranges

\* Range i merges with the following one, then with the preceding one.
Merged(ranges, i) ==
  IF i > 1 THEN Absorbing(Absorbing(ranges, i), i - 1) ELSE Absorbing(ranges, i)

\* Where lower_bound() inserts a range.
InsertPosition(ranges, offset) ==
  Cardinality({ i \in DOMAIN ranges : ranges[i].offset < offset }) + 1

\* deallocate(): the range is inserted in order and merged.
Deallocated(a, slice) ==
  LET i == InsertPosition(a.ranges, slice.offset) IN
    [ranges |-> Merged(InsertAt(a.ranges, i, slice), i),
     capacity |-> a.capacity, used |-> a.used - slice.size]

\* add_free_tail(): [from, capacity_) is free, merged with what ends there.
WithFreeTail(a, from) ==
  LET n == Len(a.ranges) IN
    CASE from >= a.capacity -> a
      [] from < a.capacity /\ n > 0 /\ End(a.ranges[n]) = from ->
           [a EXCEPT !.ranges[n] = Slice(@.offset, a.capacity - @.offset)]
      [] OTHER ->
           [a EXCEPT !.ranges = Append(@, Slice(from, a.capacity - from))]

GrownTo(a, capacity) ==
  IF capacity <= a.capacity THEN a
  ELSE WithFreeTail([a EXCEPT !.capacity = capacity], a.capacity)

\* rollback(): the free list and the count of the checkpoint, and whatever
\* was added since stays.
RolledBack(a, checkpoint) ==
  WithFreeTail([ranges |-> checkpoint.ranges, used |-> checkpoint.used,
                capacity |-> a.capacity], checkpoint.capacity)

----------------------------------------------------------------------------

Maximum(x, y) == IF x >= y THEN x ELSE y

\* Mutant: growing makes room for the bytes but not for the padding.
RoomWithoutPadding(size, alignment) == size

\* Room for the allocation plus worst-case alignment padding.
Room(size, alignment) == size + Maximum(alignment, MinAlignment)

GrownCapacity(a, size, alignment) ==
  Maximum(2 * a.capacity, a.capacity + Room(size, alignment))

\* allocate_bytes(): the allocator after an allocation was tried, grown if it
\* had to be.
ReadyFor(a, size, alignment) ==
  IF HasFit(a, size, Maximum(alignment, MinAlignment)) THEN a
  ELSE GrownTo(a, GrownCapacity(a, size, alignment))

\* allocate_vertices() and allocate_indices(), unless a device error stops them.
Allocate(size, alignment) ==
  LET a == ReadyFor(allocator, size, alignment)
      aligned == Maximum(alignment, MinAlignment)
  IN  /\ a.capacity <= MaxCapacity
      /\ IF HasFit(a, size, aligned)
         THEN /\ allocator' = Allocated(a, size, aligned)
              /\ slices' = slices \cup {BestSlice(a, size, aligned)}
              /\ result' = "ok"
         ELSE /\ allocator' = a
              /\ result' = "out_of_memory"
              /\ UNCHANGED slices

\* The new buffers cannot be created: grow() leaves the arena as it was.
GrowFails(size, alignment) ==
  /\ ~HasFit(allocator, size, Maximum(alignment, MinAlignment))
  /\ result' = "device_error"
  /\ UNCHANGED << allocator, slices >>

\* The bytes cannot be written: the allocation is rolled back.
WriteFails(size, alignment) ==
  LET a == ReadyFor(allocator, size, alignment)
      aligned == Maximum(alignment, MinAlignment)
  IN  /\ a.capacity <= MaxCapacity
      /\ HasFit(a, size, aligned)
      /\ allocator' = RolledBack(Allocated(a, size, aligned), allocator)
      /\ result' = "device_error"
      /\ UNCHANGED slices

\* allocate_mesh(): the vertices are in, the indices fail, and both are
\* rolled back to the checkpoint taken before the vertices.
AllocateMeshFails(size, alignment, indices) ==
  LET a == ReadyFor(allocator, size, alignment)
      aligned == Maximum(alignment, MinAlignment)
      b == Allocated(a, size, aligned)
      c == ReadyFor(b, indices, MinAlignment)
  IN  /\ a.capacity <= MaxCapacity /\ c.capacity <= MaxCapacity
      /\ HasFit(a, size, aligned)
      /\ HasFit(c, indices, MinAlignment)
      /\ allocator' = RolledBack(RolledBack(Allocated(c, indices, MinAlignment), b),
                                 allocator)
      /\ result' = "device_error"
      /\ UNCHANGED slices

\* tick_retirement() deallocates a slice once its countdown has expired.
Deallocate(slice) ==
  /\ slice \in slices
  /\ allocator' = Deallocated(allocator, slice)
  /\ slices' = slices \ {slice}
  /\ UNCHANGED result

Next ==
  \/ \E size \in Sizes, alignment \in Alignments :
       \/ Allocate(size, alignment)
       \/ GrowFails(size, alignment)
       \/ WriteFails(size, alignment)
       \/ \E indices \in Sizes : AllocateMeshFails(size, alignment, indices)
  \/ \E slice \in slices : Deallocate(slice)

Spec == Init /\ [][Next]_vars

----------------------------------------------------------------------------

Bytes(range) == range.offset .. End(range) - 1
FreeBytes == UNION { Bytes(r) : r \in ToSet(allocator.ranges) }

\* What the header says of free_ranges_ and deallocate()'s lower_bound relies
\* on: address-ordered, non-overlapping and coalesced, in any order of
\* allocations, failures, growth and deallocation.
FreeListOrdered ==
  \A i \in DOMAIN allocator.ranges :
    /\ allocator.ranges[i].size > 0
    /\ i > 1 => End(allocator.ranges[i - 1]) < allocator.ranges[i].offset

UsedIsWhatSlicesTake ==
  allocator.used = Cardinality(UNION { Bytes(s) : s \in slices })

(* No byte is lost and none is given away twice: the address space is split   *)
(* between the free ranges and the slices in use, padding included, and       *)
(* used_size() is how many bytes the slices take.  And grow() asks for      *)
(* enough: the allocation that follows it always succeeds.                    *)
EveryByteAccountedFor ==
  /\ TypeOK /\ FreeListOrdered
  /\ \A s, t \in slices : s # t => Bytes(s) \cap Bytes(t) = {}
  /\ \A s \in slices : Bytes(s) \cap FreeBytes = {}
  /\ FreeBytes \cup UNION { Bytes(s) : s \in slices } = 0 .. allocator.capacity - 1
  /\ UsedIsWhatSlicesTake
  /\ result # "out_of_memory"

=============================================================================
