-------------------------- MODULE TextureStreaming --------------------------
(***************************************************************************)
(* Textures on their way from a file, a model or a pack to the images of   *)
(* the renderer (src/assets/texture_streamer.cxx,                          *)
(* src/assets/texture_pipeline.cxx): requests are made between frames,     *)
(* worker threads look the texture up in a cache on disk or decode and     *)
(* encode it, and the render thread uploads what is ready in the next      *)
(* frame, or all of it at once in flush().                                 *)
(*                                                                         *)
(* A texture's pixels are the version of the source they were decoded      *)
(* from.  Decoding, encoding and transcoding are one step of the worker.   *)
(***************************************************************************)
EXTENDS FrameImages

CONSTANTS
  Textures,     \* path and role, cache key, or entry of a pack
  TextureKind,  \* [Textures -> {"file", "memory", "cooked"}]
  MaxRequests,  \* bound of the model: requests that started a job
  MaxEdits,     \* bound of the model: changes of a source file
  MaxSessions   \* bound of the model: starts of the application

ASSUME TexturesAssumption ==
  /\ TextureKind \in [Textures -> {"file", "memory", "cooked"}]
  /\ MaxRequests \in Nat
  /\ MaxEdits \in Nat
  /\ MaxSessions \in Nat \ {0}

VARIABLES
  requestOf,  \* path_requests_: the index a texture was given, or NoIndex
  pending,    \* pending_: per index, the request whose result was not taken
  retiring,   \* retiring_staging_, per frame slot
  shown,      \* per index: what a texture's image holds, for the properties
  session,    \* the start of the application this is
  version,    \* the source's version on disk; 0: it cannot be read
  cache       \* the cache directory: per texture and identity, the pixels

textureVars == << requestOf, pending, retiring, shown, session, version, cache >>

NoIndex == -1
Unknown == -1   \* not in the cache, or not known yet
Failed == -2
Waiting == -3   \* an image that shows its fallback until the load is done

Stages == {"queued", "identified", "missed", "done"}

Versions == 0 .. MaxEdits + 1

Jobs == [texture: Textures, asked: Versions, stage: Stages,
         identity: Versions, pixels: Versions \cup {Unknown, Failed}]

TexturesTypeOK ==
  /\ requestOf \in [Textures -> Indexes \cup {NoIndex}]
  /\ DOMAIN pending \subseteq Indexes
  /\ \A i \in DOMAIN pending : pending[i] \in Jobs
  /\ retiring \in [Slots -> SUBSET Resources]
  /\ shown \in [Indexes -> Versions \cup {Unknown, Failed, Waiting}]
  /\ version \in [Textures -> Versions]
  /\ cache \in [Textures -> [Versions -> Versions \cup {Unknown}]]

TexturesInit ==
  /\ requestOf = [t \in Textures |-> NoIndex]
  /\ pending = << >>
  /\ retiring = [s \in Slots |-> {}]
  /\ shown = [i \in Indexes |-> Unknown]
  /\ session = 1
  /\ version \in [Textures -> {0, 1}]
  /\ \A t \in Textures : TextureKind[t] # "file" => version[t] = 1
  /\ cache = [t \in Textures |-> [v \in Versions |-> Unknown]]

----------------------------------------------------------------------------
(* The render thread asks. *)

\* A path or pack entry asked for before keeps its image; embedded bytes are
\* loaded anew every time.
IsKnown(t) == TextureKind[t] # "memory" /\ requestOf[t] # NoIndex

Requested == Cardinality({ i \in Indexes : store.slots[i].obj # NoObject }) - 1

QueuedJob(t) == [texture |-> t, asked |-> version[t], stage |-> "queued",
                 identity |-> 0, pixels |-> Unknown]

\* TextureStreamer::request(), request_from_memory() and request_cooked(): the
\* request gets a slot that shows the fallback, and a job on the pool.  (With
\* no free slot the caller is given the fallback itself, and nothing changes.)
RequestTexture(t) ==
  /\ phase = "between"
  /\ Requested < MaxRequests
  /\ ~IsKnown(t)
  /\ HasRoom(store, 1)
  /\ LET i == NewIndex(store) IN
     /\ requestOf' = [requestOf EXCEPT
                        ![t] = IF TextureKind[t] = "memory" THEN @ ELSE i]
     /\ pending' = [k \in DOMAIN pending \cup {i} |->
                      IF k = i THEN QueuedJob(t) ELSE pending[k]]
     /\ shown' = [shown EXCEPT ![i] = Waiting]
  /\ store' = CreatePendingImage(store, White)
  /\ UNCHANGED << sets, retiring, session, version, cache >>

----------------------------------------------------------------------------
(* A worker of the thread pool runs the job for index n. *)

JobAt(n, stage) == n \in DOMAIN pending /\ pending[n].stage = stage

SourceIsEdited(t) ==
  /\ TextureKind[t] = "file"
  /\ version[t] <= MaxEdits
  /\ version' = [version EXCEPT ![t] = @ + 1]
  /\ UNCHANGED << requestOf, pending, retiring, shown, session, cache >>

\* Mutant: the size and the write time are left out of the identity.
IdentityByPath(t) == 0

\* The part of the cache's file name that tells versions of a source apart: a
\* file's size and write time; what is in memory is named by its key.
Identity(t) == IF TextureKind[t] = "file" THEN version[t] ELSE 0

\* load_compressed_texture() up to the cache's path, or a pack's own loader.
JobIdentifies(n) ==
  /\ JobAt(n, "queued")
  /\ LET t == pending[n].texture IN
     pending' = [pending EXCEPT ![n] =
       IF version[t] = 0 \/ TextureKind[t] = "cooked"
       THEN [@ EXCEPT !.stage = "done",
                      !.pixels = IF version[t] = 0 THEN Failed ELSE version[t]]
       ELSE [@ EXCEPT !.stage = "identified", !.identity = Identity(t)]]
  /\ UNCHANGED << requestOf, retiring, shown, session, version, cache >>

\* try_load_cached(); a file that does not parse or is invalid is a miss.
JobLooksUp(n) ==
  /\ JobAt(n, "identified")
  /\ LET found == cache[pending[n].texture][pending[n].identity] IN
     \/ /\ found # Unknown
        /\ pending' = [pending EXCEPT ![n].stage = "done",
                                      ![n].pixels = found]
     \/ pending' = [pending EXCEPT ![n].stage = "missed"]
  /\ UNCHANGED << requestOf, retiring, shown, session, version, cache >>

\* DecodedImage::load_from_file() or load_from_memory(), encode_uastc(), the
\* transcoding and write_cache_atomic(), which may fail without the load
\* failing.  The file is read as it is now.
JobDecodes(n) ==
  /\ JobAt(n, "missed")
  /\ \E decodes, written \in BOOLEAN :
     LET job == pending[n] IN
     /\ pending' = [pending EXCEPT ![n].stage = "done", ![n].pixels =
                      IF decodes THEN version[job.texture] ELSE Failed]
     /\ cache' = IF decodes /\ written
                 THEN [cache EXCEPT ![job.texture][job.identity] =
                         version[job.texture]]
                 ELSE cache
  /\ UNCHANGED << requestOf, retiring, shown, session, version >>

WorkerStep ==
  \E n \in DOMAIN pending :
    JobIdentifies(n) \/ JobLooksUp(n) \/ JobDecodes(n)

----------------------------------------------------------------------------
(* The render thread takes what is ready. *)

Ready == { i \in DOMAIN pending : pending[i].stage = "done" }

\* One ready request in the storage: [store, staging] before and after.
\* A load that failed leaves the image on its fallback, and so does an upload
\* the device has no room for.
Upload(i, state) ==
  IF pending[i].pixels = Failed THEN state
  ELSE LET staged == CreateStaging(state.store) IN
       [store |-> UpgradePendingImage(staged, i),
        staging |-> state.staging \cup (staged.live \ state.store.live)]

\* In whichever order: each has an index of its own.
Uploaded(st) == FoldSet(Upload, [store |-> st, staging |-> {}], Ready)

ShownAfter ==
  [i \in Indexes |-> IF i \in Ready THEN pending[i].pixels ELSE shown[i]]

\* std::erase_if() keeps what is not ready.
PendingAfter == Restrict(pending, DOMAIN pending \ Ready)

\* Mutant: all staging buffers are freed, whichever slot they belong to.
StagingFreedByAny == UNION { retiring[s] : s \in Slots }

\* The slot's last use of these is over: its wait came before this frame.
StagingFreed == retiring[slot]

\* The storage after TextureStreamer::process_ready() in this frame.
ProcessReady(st) == Uploaded(DestroyObjects(st, StagingFreed))

\* ... and the streamer after it, having made these staging buffers.
ProcessedReady(staging) ==
  /\ retiring' = [retiring EXCEPT ![slot] = staging]
  /\ shown' = ShownAfter
  /\ pending' = PendingAfter
  /\ UNCHANGED << requestOf, session, version, cache >>

\* TextureStreamer::flush(): waits for every job, submits the copies on their
\* own, waits for them and frees the staging.
Flush ==
  /\ phase = "between"
  /\ pending # << >>
  /\ Ready = DOMAIN pending
  /\ LET result == Uploaded(store) IN
     store' = DestroyObjects(result.store, result.staging)
  /\ shown' = ShownAfter
  /\ pending' = << >>
  /\ UNCHANGED << sets, requestOf, retiring, session, version, cache >>

\* The application ends, or is killed with jobs under way, and is started
\* again: only the sources and the cache directory are as they were.
Restart ==
  /\ phase = "between"
  /\ inFlight = {}
  /\ session < MaxSessions
  /\ session' = session + 1
  /\ requestOf' = [t \in Textures |-> NoIndex]
  /\ pending' = << >>
  /\ retiring' = [s \in Slots |-> {}]
  /\ shown' = [i \in Indexes |-> Unknown]
  /\ store' = FreshStore
  /\ sets' = FreshSets
  /\ UNCHANGED << version, cache >>

----------------------------------------------------------------------------

\* Neither a cache filled by an earlier load nor a file that changes while it
\* is looked up and decoded brings back older pixels.
TexturesAreFresh ==
  \A i \in Ready :
    pending[i].pixels = Failed \/ pending[i].pixels >= pending[i].asked

\* None is forgotten on its fallback.
RequestsAreAnswered ==
  \A i \in Indexes : shown[i] = Waiting => i \in DOMAIN pending

(* Whoever asks for a file gets the file as it was then, or newer, through    *)
(* caches of earlier sessions and edits while it loads; and every request is  *)
(* waited for until its image was replaced or its load has failed.            *)
TexturesArrive == TexturesAreFresh /\ RequestsAreAnswered

=============================================================================
