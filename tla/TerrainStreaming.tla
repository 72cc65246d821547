-------------------------- MODULE TerrainStreaming --------------------------
(***************************************************************************)
(* The streamed terrain: which chunks are generated, resident and drawn    *)
(* (src/terrain/terrain_world.cxx), the jobs that generate them            *)
(* (include/terrain/terrain_streamer.hxx), the GPU slots they are written  *)
(* to (src/terrain/terrain_slot_pool.cxx) and the physics colliders of the *)
(* finest level of detail.                                                 *)
(*                                                                         *)
(* Once a frame update() selects the desired chunks and process_ready()    *)
(* takes what was generated; jobs end at any time.  What select_chunks()   *)
(* may return is the constant Views.  Chunks are requested nearest first,  *)
(* and unordered maps are walked in some order: both are a choice here.    *)
(***************************************************************************)
EXTENDS Integers, FiniteSets, Sequences, SequencesExt

CONSTANTS
  Fine,               \* the chunks with LOD 0
  Coarse,             \* the chunks with LOD 1
  Views,              \* the sets of chunks select_chunks() may return
  SlotsPerLod,        \* slots_per_lod
  RetireTicks,        \* frames_in_flight, as release_deferred() uses it
  MaxGenerations,     \* max_generations_in_flight
  MaxUploads,         \* max_uploads_per_frame
  MaxColliderUpdates, \* max_collider_updates_per_frame
  MaxEvictions,       \* max_evictions_per_frame
  GraceFrames,        \* eviction_grace_frames
  MaxFailures         \* bound of the model: chunks whose write() fails

ASSUME TerrainAssumption ==
  /\ IsFiniteSet(Fine) /\ IsFiniteSet(Coarse) /\ Fine \cap Coarse = {}
  /\ {SlotsPerLod, RetireTicks, MaxGenerations, MaxUploads, MaxColliderUpdates,
      MaxEvictions, GraceFrames} \subseteq Nat \ {0}
  /\ MaxFailures \in Nat
  /\ \A view \in Views :
       /\ view \subseteq Fine \cup Coarse
       /\ Cardinality(view \cap Fine) <= SlotsPerLod
       /\ Cardinality(view \cap Coarse) <= SlotsPerLod

VARIABLES
  updated,    \* has update() run since the last frame was drawn?
  desired,    \* desired_set_
  requested,  \* in_flight_, a set of keys
  pending,    \* TerrainStreamer::pending_, in order
  generated,  \* those of pending whose future is ready
  pool,       \* TerrainSlotPool: free_by_lod_ and retiring_
  resident,   \* resident_: the slot, collider and frames_undesired of a chunk
  physics,    \* is there a PhysicsWorld?
  colliders,  \* collider_free_list_
  bound,      \* the colliders active in the PhysicsWorld, and for which chunk
  failures    \* how many writes have failed

terrainVars == << updated, desired, requested, pending, generated, pool, resident,
                  physics, colliders, bound, failures >>

Chunks == Fine \cup Coarse
Lods == {0, 1}
Lod(c) == IF c \in Fine THEN 0 ELSE 1
MeshSlots == Lods \X (1 .. SlotsPerLod)
ColliderHandles == 1 .. SlotsPerLod
NoCollider == 0

Residents == [slot: MeshSlots, collider: ColliderHandles \cup {NoCollider}, undesired: 0 .. GraceFrames]

TerrainTypeOK ==
  /\ updated \in BOOLEAN
  /\ desired \in SUBSET Chunks
  /\ requested \in SUBSET Chunks
  /\ pending \in Seq(Chunks) /\ Len(pending) <= MaxGenerations
  /\ generated \subseteq ToSet(pending)
  /\ pool.free \in [Lods -> Seq(MeshSlots)]
  /\ DOMAIN pool.retiring \subseteq MeshSlots
  /\ \A s \in DOMAIN pool.retiring : pool.retiring[s] \in 1 .. RetireTicks
  /\ \A c \in DOMAIN resident : c \in Chunks /\ resident[c] \in Residents
  /\ physics \in BOOLEAN
  /\ colliders \in Seq(ColliderHandles)
  /\ \A h \in DOMAIN bound : h \in ColliderHandles /\ bound[h] \in Fine
  /\ failures \in 0 .. MaxFailures

Nothing == [x \in {} |-> x]

\* TerrainSlotPool::create() and TerrainWorld::create().
TerrainInit ==
  /\ updated = FALSE
  /\ desired = {} /\ requested = {} /\ pending = << >> /\ generated = {}
  /\ pool = [free |-> [l \in Lods |-> [i \in 1 .. SlotsPerLod |-> <<l, i>>]],
             retiring |-> Nothing]
  /\ resident = Nothing
  /\ physics = FALSE
  /\ colliders = << >> /\ bound = Nothing
  /\ failures = 0

----------------------------------------------------------------------------

Without(f, xs) == [x \in DOMAIN f \ xs |-> f[x]]
With(f, x, y) == [z \in DOMAIN f \cup {x} |-> IF z = x THEN y ELSE f[z]]
Least(m, n) == IF m < n THEN m ELSE n

\* The orders in which a set may be walked.
Orders(S) == SetToSeqs(S)

\* The elements of s that are in S, in order.
Among(s, S) == FoldLeft(LAMBDA t, x : IF x \in S THEN Append(t, x) ELSE t, << >>, s)

\* Mutant: what is already being generated is requested again.
MissingButQueued == { c \in desired' : c \notin DOMAIN resident }

\* request_missing(): the candidates.
Missing == { c \in desired' : c \notin DOMAIN resident /\ c \notin requested }

\* How many more requests max_in_flight allows.
JobsLeft == MaxGenerations - Len(pending)

\* update(): the camera moved, and what fits under the cap is requested.  The
\* frame after it is not always drawn: the window may be minimized.
Update ==
  /\ updated' = TRUE
  /\ desired' \in Views
  /\ \E chosen \in SUBSET Missing :
       /\ Cardinality(chosen) = Least(JobsLeft, Cardinality(Missing))
       /\ \E order \in Orders(chosen) : pending' = pending \o order
       /\ requested' = requested \cup chosen
  /\ UNCHANGED << generated, pool, resident, physics, colliders, bound, failures >>

\* make_terrain_chunk() returns on the thread pool.
GenerationEnds(c) ==
  /\ c \in ToSet(pending) \ generated
  /\ generated' = generated \cup {c}
  /\ UNCHANGED << updated, desired, requested, pending, pool, resident, physics,
                  colliders, bound, failures >>

\* tick_retirement().
PoolTicked(p) ==
  LET left == [s \in DOMAIN p.retiring |-> p.retiring[s] - 1]
      over == { s \in DOMAIN left : left[s] = 0 }
  IN [free |-> [l \in Lods |-> p.free[l] \o SetToSeq({ s \in over : s[1] = l })],
      retiring |-> Without(left, over)]

\* Mutant: the slot of a chunk that could not be written is forgotten.
Forgotten(p, slot) == p

\* release_deferred().
ReleasedDeferred(p, slot) == [p EXCEPT !.retiring = With(@, slot, RetireTicks)]

\* acquire() takes the last free slot of the LOD.
Acquired(p, l) == [p EXCEPT !.free[l] = Front(@)]

\* A frame's work as upload_ready()'s callback sees it; failing are the chunks
\* write() will fail for.
Uploaded(frame, c, failing) ==
  LET l == Lod(c)
      slot == Last(frame.pool.free[l])
  IN IF frame.uploads >= MaxUploads \/ frame.pool.free[l] = << >> THEN frame
     ELSE IF c \in failing
     THEN [frame EXCEPT !.pool = ReleasedDeferred(Acquired(@, l), slot), !.failures = @ + 1]
     ELSE [frame EXCEPT !.pool = Acquired(@, l), !.uploads = @ + 1,
                        !.resident = With(@, c, [slot |-> slot, collider |-> NoCollider,
                                                 undesired |-> 0])]

\* upload_ready() passes every result to its callback.
UploadedAll(start, ready, failing) ==
  FoldLeft(LAMBDA frame, c : Uploaded(frame, c, failing), start, ready)

\* Mutant: a result that is dropped for want of a slot or budget stays tracked.
StillInFlight(ready, frame) == requested \ DOMAIN frame.resident

\* in_flight_.erase() for every result, whatever becomes of it.
NotInFlight(ready, frame) == requested \ ready

\* update_colliders() binds the chunks of order to the last free colliders.
Bound(frame, order) ==
  FoldLeft(LAMBDA f, c :
             [f EXCEPT !.resident[c].collider = Last(f.colliders),
                       !.bound = With(@, Last(f.colliders), c),
                       !.colliders = Front(@)],
           frame, order)

WantCollider(frame) ==
  { c \in DOMAIN frame.resident : c \in Fine /\ frame.resident[c].collider = NoCollider }

\* update_colliders(): some of those that want one, as the budget allows.
Collided(frame) ==
  IF ~physics THEN {frame}
  ELSE { Bound(frame, order) : order \in UNION { Orders(chosen) :
           chosen \in { some \in SUBSET WantCollider(frame) :
             Cardinality(some) = Least(MaxColliderUpdates,
               Least(Cardinality(WantCollider(frame)), Len(frame.colliders))) } } }

\* evict() gives a chunk's collider back if there is a physics world.
Unbound(frame, c) ==
  LET h == frame.resident[c].collider IN
    IF physics /\ h # NoCollider
    THEN [frame EXCEPT !.bound = Without(@, {h}), !.colliders = Append(@, h)]
    ELSE frame

Evicted(frame, order) ==
  FoldLeft(LAMBDA f, c :
             [Unbound(f, c) EXCEPT
                !.pool = ReleasedDeferred(@, f.resident[c].slot),
                !.resident = Without(@, {c})],
           frame, order)

\* evict() counts the frames a chunk was not desired.
Aging(r, c) ==
  [r EXCEPT !.undesired = IF c \in desired THEN 0 ELSE Least(GraceFrames, @ + 1)]

Aged(frame) ==
  [frame EXCEPT !.resident = [c \in DOMAIN frame.resident |-> Aging(frame.resident[c], c)]]

Undesired(frame) == { c \in DOMAIN frame.resident :
                      c \notin desired /\ frame.resident[c].undesired = GraceFrames }

AfterEviction(frame) ==
  { Evicted(frame, order) : order \in UNION { Orders(chosen) :
      chosen \in { some \in SUBSET Undesired(frame) :
        Cardinality(some) = Least(MaxEvictions, Cardinality(Undesired(frame))) } } }

\* process_ready(): retirement, uploads, colliders, eviction, in this order.
ProcessReady ==
  /\ updated
  /\ updated' = FALSE
  /\ LET ready == Among(pending, generated)
         start == [pool |-> PoolTicked(pool), resident |-> resident, colliders |-> colliders,
                   bound |-> bound, uploads |-> 0, failures |-> failures]
     IN \E failing \in SUBSET ToSet(ready) :
          LET uploaded == UploadedAll(start, ready, failing)
          IN /\ uploaded.failures <= MaxFailures
             /\ pending' = Among(pending, ToSet(pending) \ generated)
             /\ generated' = {}
             /\ requested' = NotInFlight(ToSet(ready), uploaded)
             /\ failures' = uploaded.failures
             /\ \E collided \in Collided(uploaded) :
                  \E frame \in AfterEviction(Aged(collided)) :
                    /\ pool' = frame.pool
                    /\ resident' = frame.resident
                    /\ colliders' = frame.colliders
                    /\ bound' = frame.bound
             /\ UNCHANGED << desired, physics >>

\* Mutant: one collider less than there are LOD 0 slots.
ReservedShort == [i \in 1 .. SlotsPerLod - 1 |-> i]

\* The colliders on_physics_world_changed() reserves in a new PhysicsWorld.
Reserved == [i \in 1 .. SlotsPerLod |-> i]

\* Mutant: chunks keep the handles of the world before.
HandlesKept == resident

\* on_physics_world_changed(): every chunk's handle is reset.
HandlesReset == [c \in DOMAIN resident |-> [resident[c] EXCEPT !.collider = NoCollider]]

\* Application::play() and stop(): the PhysicsWorld comes or goes.
PhysicsWorldChanges ==
  /\ physics' = ~physics
  /\ resident' = HandlesReset
  /\ colliders' = IF physics' THEN Reserved ELSE << >>
  /\ bound' = Nothing
  /\ UNCHANGED << updated, desired, requested, pending, generated, pool, failures >>

TerrainNext ==
  \/ Update
  \/ \E c \in Chunks : GenerationEnds(c)
  \/ ProcessReady
  \/ PhysicsWorldChanges

\* The main loop updates and draws frame after frame; jobs end.  A drawn frame
\* always resets updated, so this is weak fairness of both.
TerrainFairness ==
  /\ []<><< ProcessReady >>_terrainVars
  /\ \A c \in Chunks : WF_terrainVars(GenerationEnds(c))

TerrainSpec == TerrainInit /\ [][TerrainNext]_terrainVars /\ TerrainFairness

----------------------------------------------------------------------------

SlotsOf(p, l) == ToSet(p.free[l])

SlotsAccounted ==
  \A s \in MeshSlots :
    Cardinality({ i \in DOMAIN pool.free[s[1]] : pool.free[s[1]][i] = s })
    + (IF s \in DOMAIN pool.retiring THEN 1 ELSE 0)
    + Cardinality({ c \in DOMAIN resident : resident[c].slot = s }) = 1

InFlightIsPending ==
  /\ requested = ToSet(pending)
  /\ Len(pending) = Cardinality(requested)
  /\ requested \cap DOMAIN resident = {}

CollidersAccounted ==
  LET holders(h) == { c \in DOMAIN resident : resident[c].collider = h } IN
  IF physics
  THEN /\ Len(colliders) + Cardinality(DOMAIN bound) = SlotsPerLod
       /\ \A h \in ColliderHandles : IF h \in DOMAIN bound THEN holders(h) = {bound[h]}
                             ELSE h \in ToSet(colliders) /\ holders(h) = {}
  ELSE \A c \in DOMAIN resident : resident[c].collider = NoCollider

(* Every slot is free, retiring or some chunk's, and only one of these: none  *)
(* leaks on a failed write or a dropped result, none is handed out twice.     *)
(* The world's in_flight_ and the streamer's pending_ name the same chunks,   *)
(* each once, and none that is resident: no chunk is generated twice at a     *)
(* time, and none is believed to be on its way when it is not.  Every         *)
(* collider of the physics world is free or bound for the one chunk that      *)
(* holds it; chunks hold none when there is no physics world.                 *)
ChunksAccounted ==
  TerrainTypeOK /\ SlotsAccounted /\ InFlightIsPending /\ CollidersAccounted

(* A resident LOD 0 chunk collides before long while there is a physics       *)
(* world: the pool of colliders is large enough for all of them.              *)
FineChunksCollide ==
  \A c \in Fine :
    (physics /\ c \in DOMAIN resident)
      ~> (~physics \/ c \notin DOMAIN resident \/ resident[c].collider # NoCollider)

(* When the camera stays, what it sees becomes resident and what it no longer *)
(* sees is evicted, however often results were dropped on the way.            *)
ResidencySettles ==
  \A view \in Views : <>[](desired = view) => <>[](DOMAIN resident = view)

=============================================================================
