----------------------------- MODULE MCStorage -----------------------------
(***************************************************************************)
(* The storages of the engine small enough for TLC, one at a time:         *)
(*   - the free list of the geometry arena (FreeListAllocator);            *)
(*   - the pool of generational handles and its Holders (ObjectPool);      *)
(*   - the shader objects that are replaced while they are drawn with      *)
(*     (MCReload);                                                         *)
(*   - the mesh slots, jobs and colliders of the terrain (MCTerrain).      *)
(***************************************************************************)
EXTENDS FreeListAllocator, ObjectPool, MCReload, MCTerrain

VARIABLE subject

storageVars == << subject, vars, holderVars, reloadVars, terrainVars >>

StorageInit ==
  /\ subject \in {"allocator", "pool", "shaders", "terrain"}
  /\ Init /\ PoolInit /\ ReloadInit /\ TerrainInit

StorageNext ==
  /\ UNCHANGED subject
  /\ \/ subject = "allocator" /\ Next /\ UNCHANGED << holderVars, reloadVars, terrainVars >>
     \/ subject = "pool" /\ PoolNext /\ UNCHANGED << vars, reloadVars, terrainVars >>
     \/ subject = "shaders" /\ ReloadNext /\ UNCHANGED << vars, holderVars, terrainVars >>
     \/ subject = "terrain" /\ TerrainNext /\ UNCHANGED << vars, holderVars, reloadVars >>

StorageSpec ==
  /\ StorageInit /\ [][StorageNext]_storageVars
  /\ subject = "shaders" => ReloadFairness
  /\ subject = "terrain" => TerrainFairness
=============================================================================
