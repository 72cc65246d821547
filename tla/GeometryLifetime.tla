-------------------------- MODULE GeometryLifetime --------------------------
(***************************************************************************)
(* Who may still read a piece of the geometry arena when it is reclaimed   *)
(* (src/assets/geometry_arena.cxx): slices of the arena are uploaded,      *)
(* drawn, retired with a countdown of FramesInFlight ticks and handed out  *)
(* again, and the buffer pair behind all of them is replaced by grow() and *)
(* retired the same way.  Frames, slots and the GPU are FrameLoop's.       *)
(*                                                                         *)
(* Which offsets a slice has is FreeListAllocator's business: here a slice *)
(* is a name that is free, live or retiring.                               *)
(***************************************************************************)
EXTENDS FrameLoop

CONSTANTS
  Slices, \* allocations of the arena
  Pairs   \* buffer pairs: a device buffer and the staging buffer mirroring it

\* What a command does to a slice or a pair: a draw reads both, an upload's
\* copy writes the slice and uses the pair, grow()'s copy reads the old pair.
Accesses == {"draw", "copy"} \X (Slices \cup Pairs)

ASSUME GeometryAssumption ==
  /\ Slices \cap Pairs = {}
  /\ Resources = Accesses

VARIABLES
  live,        \* slices a mesh, or a terrain slot, refers to
  retiring,    \* retiring_: slices with the ticks left before they are free
  pair,        \* buffer and upload_buffer
  retiredPairs \* retired_buffers_: pairs with the ticks left

arenaVars == << live, retiring, pair, retiredPairs >>
vars == << loopVars, arenaVars >>

Countdowns(S) == [item: S, framesRemaining: 1 .. FramesInFlight]
Items(retired) == { e.item : e \in retired }

FreeSlices == Slices \ (live \cup Items(retiring))
ExistingPairs == {pair} \cup Items(retiredPairs)

TypeOK ==
  /\ LoopTypeOK
  /\ live \in SUBSET Slices
  /\ retiring \in SUBSET Countdowns(Slices)
  /\ pair \in Pairs
  /\ retiredPairs \in SUBSET Countdowns(Pairs)

Init ==
  /\ LoopInit
  /\ live = {}
  /\ retiring = {}
  /\ pair \in Pairs
  /\ retiredPairs = {}

----------------------------------------------------------------------------

\* Mutant: the countdown starts one frame short.
RetiredOneShort(item) == [item |-> item, framesRemaining |-> FramesInFlight - 1]

\* RetiringRange and RetiredBuffers as they are pushed.
Retired(item) == [item |-> item, framesRemaining |-> FramesInFlight]

\* tick_retirement(): one countdown step; what reaches zero is freed.
Ticked(retired) ==
  { [item |-> e.item, framesRemaining |-> e.framesRemaining - 1] :
      e \in { x \in retired : x.framesRemaining > 1 } }

\* allocate_bytes() may have to grow(): a new pair replaces the current one,
\* which is retired with it; grow() itself copies from the old pair.
KeepPair == UNCHANGED << pair, retiredPairs >>

GrowTo(p) ==
  /\ p \in Pairs \ ExistingPairs
  /\ pair' = p
  /\ retiredPairs' = retiredPairs \cup {Retired(pair)}

CopyInto(r) == { <<"copy", r>>, <<"copy", pair>>, <<"copy", pair'>> }

\* allocate_vertices() and allocate_indices() into the open frame: terrain
\* chunks while it is open, models once it is being prepared.
Upload(r) ==
  /\ r \in FreeSlices
  /\ KeepPair \/ \E p \in Pairs : GrowTo(p)
  /\ RecordUploads(CopyInto(r))
  /\ live' = live \cup {r}
  /\ UNCHANGED retiring

\* The same through one_time_submit(), which waits for the copies: loading a
\* scene between frames.
UploadNow(r) ==
  /\ phase = "between"
  /\ r \in FreeSlices
  /\ KeepPair \/ \E p \in Pairs : GrowTo(p)
  /\ live' = live \cup {r}
  /\ UNCHANGED << loopVars, retiring >>

\* Renderer::destroy_mesh() and TerrainSlotPool::write() retire a slice: an
\* entity removed between frames or by the UI, a terrain slot rewritten, a
\* model install that fails.  Before the tick of a frame nothing that frame
\* recorded is retired; see WriteFails for the exception.
Retire(r) ==
  /\ phase \in {"between", "open", "prepared"}
  /\ r \in live
  /\ phase = "open" => <<"copy", r>> \notin recording
  /\ live' = live \ {r}
  /\ retiring' = retiring \cup {Retired(r)}
  /\ UNCHANGED << loopVars, pair, retiredPairs >>

\* TerrainSlotPool::write() uploads the indices, fails to upload the meshlets
\* and retires the indices at once.
WriteFails(r) ==
  /\ phase = "open"
  /\ r \in FreeSlices
  /\ KeepPair \/ \E p \in Pairs : GrowTo(p)
  /\ RecordUploads(CopyInto(r))
  /\ retiring' = retiring \cup {Retired(r)}
  /\ UNCHANGED live

\* prepare_frame() ticks the arena.
Prepare ==
  /\ PrepareFrame
  /\ retiring' = Ticked(retiring)
  /\ retiredPairs' = Ticked(retiredPairs)
  /\ UNCHANGED << live, pair >>

\* Mutant: draws of a mesh destroyed since it was submitted are not skipped.
DrawableOrRetiring == live \cup Items(retiring)

\* prepare_frame() skips what was destroyed after it was submitted.
Drawable == live

\* Every draw reads its slices through the current pair.
Draw ==
  /\ \E drawn \in SUBSET Drawable : DrawFrame({"draw"} \X (drawn \cup {pair}))
  /\ UNCHANGED arenaVars

Begin == BeginFrame /\ UNCHANGED arenaVars
Recreate == (WindowChanges \/ AcquireRecreates) /\ UNCHANGED arenaVars
End == (\E used \in (SUBSET Queues) \ {{}} : EndFrame(used)) /\ UNCHANGED arenaVars
Finish == (\E q \in Queues : GpuFinishes(q)) /\ UNCHANGED arenaVars

Next ==
  \/ Begin
  \/ Recreate
  \/ \E r \in Slices : Upload(r) \/ UploadNow(r) \/ Retire(r) \/ WriteFails(r)
  \/ Prepare
  \/ Draw
  \/ End
  \/ Finish

Spec == Init /\ [][Next]_vars /\ LoopFairness

----------------------------------------------------------------------------

(* No use after free on the GPU: as long as a submission that draws a slice   *)
(* has not finished, the slice is live or still counting down, so no upload   *)
(* can have been given its bytes.                                             *)
DrawnSlicesKept ==
  \A s \in inFlight : \A r \in Slices :
    <<"draw", r>> \in s.uses => r \in live \cup Items(retiring)

DrawsAreLive ==
  \A r \in Slices : <<"draw", r>> \in recording => r \in live

(* No stale draw either: what a frame records as drawn is live when it is     *)
(* submitted, so a slice is never read by a frame that begins after it was    *)
(* retired.  And the countdowns stay between 1 and FramesInFlight.            *)
ArenaSound == TypeOK /\ DrawsAreLive

(* The same for the buffers behind the slices: a pair replaced by grow() is   *)
(* destroyed only after every submission that draws from it has finished.     *)
DrawnPairsKept ==
  \A s \in inFlight : \A p \in Pairs :
    <<"draw", p>> \in s.uses => p \in ExistingPairs

(* What is drawn is kept: the slices, and the buffers they are in. *)
DrawnGeometryKept == DrawnSlicesKept /\ DrawnPairsKept

(* geometry_arena.hxx says of the replaced buffers that "in-flight frames and *)
(* this frame's copies may still read them", which is why they are retired.   *)
CopiedPairsKept ==
  \A s \in inFlight : \A p \in Pairs :
    <<"copy", p>> \in s.uses => p \in ExistingPairs

=============================================================================
