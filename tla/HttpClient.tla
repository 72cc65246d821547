----------------------------- MODULE HttpClient -----------------------------
(***************************************************************************)
(* HttpClient of src/net/http_client.cxx: a queue of requests, the worker  *)
(* threads that take them under one mutex and condition variable, the      *)
(* futures their callers hold, shutdown, and the files get_file_async()    *)
(* writes through a temporary next to the destination.                     *)
(*                                                                         *)
(* The handler that talks to a server is a choice of what it may answer.   *)
(* A file is its inode: whoever opened it keeps writing it wherever it has *)
(* been renamed to.                                                        *)
(***************************************************************************)
EXTENDS Integers, FiniteSets, Sequences, Functions

CONSTANTS
  Workers,          \* HttpClientOptions::worker_count threads
  Requests,         \* calls of the *_async functions in a behaviour
  Files,            \* destinations of downloads; each has one right content
  ShareDestinations \* may two downloads of one destination be under way?

NoFile == "no file"
NoRequest == "no request"
Before == "before" \* the inode a destination had before

ASSUME ClientAssumption ==
  /\ IsFiniteSet(Workers) /\ Workers # {}
  /\ IsFiniteSet(Requests)
  /\ Requests \cap {NoFile, NoRequest, Before} = {}
  /\ ShareDestinations \in BOOLEAN

VARIABLES
  client,    \* "open", "stopping" once ~Impl() has begun, then "joined"
  queue,     \* Impl::queue
  announced, \* enqueue() calls between the push and notify_one()
  worker,    \* what each thread is doing, and on which request
  stopped,   \* threads whose jthread was asked to stop
  target,    \* where a request puts what it downloads, if anywhere
  result,    \* what each request's future holds
  userStop,  \* requests whose caller asked them to stop
  calledOff, \* those whose caller did so before a thread took them
  sent,      \* requests the handler was called for
  path,      \* the inode at each destination and at its ".part"
  content    \* what the inodes hold

clientVars == << client, queue, announced, worker, stopped, target, result, userStop,
           calledOff, sent, path, content >>
calls == << announced, userStop, calledOff >>
disk == << path, content >>

Inodes == Requests \cup {Before}
Contents == {"partial", "whole", "stale"}

\* "checking" the wait's predicate, "asleep" in it, or gone; then a task's
\* steps: "taken" off the queue, "looking" at the destination, "sending", or
\* "aborting" a send whose token had fired before it began, "received" a body
\* with the right hash, "opened" and "written" the .part.
Stages == {"taken", "looking", "sending", "aborting", "received", "opened", "written"}
Idle == [at |-> "checking", on |-> NoRequest, inode |-> NoFile]

ClientTypeOK ==
  /\ client \in {"open", "stopping", "joined"}
  /\ queue \in Seq(Requests)
  /\ announced \in 0 .. Cardinality(Requests)
  /\ worker \in [Workers -> [at: Stages \cup {"checking", "asleep", "exited"},
                             on: Requests \cup {NoRequest},
                             inode: Inodes \cup {NoFile}]]
  /\ stopped \in SUBSET Workers
  /\ target \in [Requests -> Files \cup {NoFile}]
  /\ result \in [Requests -> {"unsent", "pending", "success", "canceled", "error", "lost"}]
  /\ {userStop, calledOff, sent} \subseteq SUBSET Requests
  /\ path \in [{"at", "part"} -> [Files -> Inodes \cup {NoFile}]]
  /\ content \in [Inodes -> Contents]
  /\ \A w \in Workers : worker[w].on \notin Range(queue)

ClientInit ==
  /\ client = "open"
  /\ queue = << >>
  /\ announced = 0
  /\ worker = [w \in Workers |-> Idle]
  /\ stopped = {}
  /\ target = [r \in Requests |-> NoFile]
  /\ result = [r \in Requests |-> "unsent"]
  /\ userStop = {} /\ calledOff = {} /\ sent = {}
  /\ \E old \in [Files -> {NoFile, Before}] :
       path = [at |-> old, part |-> [f \in Files |-> NoFile]]
  /\ content = [i \in Inodes |-> "stale"]

----------------------------------------------------------------------------
\* The callers.

UnderWay(f) == \E r \in Requests : target[r] = f /\ result[r] = "pending"

\* enqueue(): the task is pushed under the lock, notify_one() comes after.
Enqueue(r, f) ==
  /\ client = "open"
  /\ result[r] = "unsent"
  /\ f # NoFile /\ ~ShareDestinations => ~UnderWay(f)
  /\ target' = [target EXCEPT ![r] = f]
  /\ result' = [result EXCEPT ![r] = "pending"]
  /\ queue' = Append(queue, r)
  /\ announced' = announced + 1
  /\ UNCHANGED << client, worker, stopped, userStop, calledOff, sent, disk >>

Woken(ws) == [w \in Workers |-> IF w \in ws /\ worker[w].at = "asleep"
                                THEN Idle ELSE worker[w]]

\* notify_one(): one of the threads that wait, if any does.
Notify ==
  /\ announced > 0
  /\ announced' = announced - 1
  /\ LET asleep == { w \in Workers : worker[w].at = "asleep" } IN
       IF asleep = {} THEN UNCHANGED worker
       ELSE \E w \in asleep : worker' = Woken({w})
  /\ UNCHANGED << client, queue, stopped, target, result, userStop, calledOff,
                  sent, disk >>

\* A caller asks for its request to stop, before or after it was made.
UserStops(r) ==
  /\ r \notin userStop
  /\ result[r] \in {"unsent", "pending"}
  /\ userStop' = userStop \cup {r}
  /\ calledOff' = IF result[r] = "unsent" \/ r \in Range(queue)
                  THEN calledOff \cup {r} ELSE calledOff
  /\ UNCHANGED << client, queue, announced, worker, stopped, target, result,
                  sent, disk >>

\* ~Impl(): shutdown.request_stop().  Nobody calls the client any more.
Shutdown ==
  /\ client = "open" /\ announced = 0
  /\ client' = "stopping"
  /\ UNCHANGED << queue, announced, worker, stopped, target, result, userStop,
                  calledOff, sent, disk >>

\* ~Impl(): a thread is asked to stop, which also wakes it in its wait.
StopWorker(w) ==
  /\ client = "stopping" /\ w \notin stopped
  /\ stopped' = stopped \cup {w}
  /\ worker' = Woken({w})
  /\ UNCHANGED << client, queue, target, result, calls, sent, disk >>

\* Mutant: the client goes while threads are still at work.
NobodyToWaitFor == stopped = Workers

\* workers.clear() joins every thread.
Joinable == \A w \in Workers : worker[w].at = "exited"

\* ~Impl(): the threads are joined, what is still queued is failed.
Join ==
  /\ client = "stopping"
  /\ Joinable
  /\ client' = "joined"
  /\ result' = [r \in Requests |-> IF r \in Range(queue) THEN "canceled" ELSE result[r]]
  /\ queue' = << >>
  /\ UNCHANGED << worker, stopped, target, calls, sent, disk >>

----------------------------------------------------------------------------
\* The threads.

IsAt(w, stage) == worker[w].at = stage
Goes(w, stage) == worker' = [worker EXCEPT ![w].at = stage]

\* Mutant: the front of the queue is not popped.
FrontKept == queue

\* Mutant: a thread takes the whole queue and runs its front.
QueueSwapped == << >>

\* queue.pop_front().
Popped == Tail(queue)

\* run_worker(): the wait's predicate holds, a stop or not.
Take(w) ==
  /\ IsAt(w, "checking")
  /\ queue # << >>
  /\ worker' = [worker EXCEPT ![w] = [Idle EXCEPT !.at = "taken", !.on = Head(queue)]]
  /\ queue' = Popped
  /\ UNCHANGED << client, stopped, target, result, calls, sent, disk >>

\* wait() returns false: stopped and nothing queued.
Exits(w) == w \in stopped

\* run_worker(): nothing to take.
Rest(w) ==
  /\ IsAt(w, "checking")
  /\ queue = << >>
  /\ Goes(w, IF Exits(w) THEN "exited" ELSE "asleep")
  /\ UNCHANGED << client, queue, stopped, target, result, calls, sent, disk >>

\* A condition variable may wake without a notification.
SpuriousWakeup(w) ==
  /\ IsAt(w, "asleep")
  /\ worker' = Woken({w})
  /\ UNCHANGED << client, queue, stopped, target, result, calls, sent, disk >>

\* The promise is set and the thread waits again.
Answer(w, answer) ==
  /\ result' = [result EXCEPT ![worker[w].on] = answer]
  /\ worker' = [worker EXCEPT ![w] = Idle]

\* Mutant: a task does not look at its caller's token first.
NotYetStopped(r) == TRUE

\* user_stop.stop_requested() has not happened when the task begins.
Wanted(r) == r \notin userStop

\* The token a task hands to the handler: the caller's stop or the client's.
Fired(r) == client = "stopping" \/ r \in userStop

\* Impl::send().
Send(w) ==
  /\ Goes(w, IF Fired(worker[w].on) THEN "aborting" ELSE "sending")
  /\ sent' = sent \cup {worker[w].on}

Destination(w) == target[worker[w].on]

Begin(w) ==
  /\ IsAt(w, "taken")
  /\ IF ~Wanted(worker[w].on) THEN Answer(w, "canceled") /\ UNCHANGED sent
     ELSE IF Destination(w) = NoFile THEN Send(w) /\ UNCHANGED result
     ELSE Goes(w, "looking") /\ UNCHANGED << result, sent >>
  /\ UNCHANGED << client, queue, stopped, target, calls, disk >>

ContentAt(f) == IF path.at[f] = NoFile THEN "nothing" ELSE content[path.at[f]]

\* get_file_async(): a destination with the right hash needs no request.
Look(w) ==
  /\ IsAt(w, "looking")
  /\ IF ContentAt(Destination(w)) = "whole" THEN Answer(w, "success") /\ UNCHANGED sent
     ELSE Send(w) /\ UNCHANGED result
  /\ UNCHANGED << client, queue, stopped, target, calls, disk >>

\* IHttpMessageHandler::send() fails: a timeout, a stop, a status that is not
\* 2xx, a body with the wrong hash.
SendFails(w) ==
  /\ worker[w].at \in {"sending", "aborting"}
  /\ \/ Answer(w, "error")
     \/ Fired(worker[w].on) /\ Answer(w, "canceled")
  /\ UNCHANGED << client, queue, stopped, target, calls, sent, disk >>

\* It succeeds, possibly although it was asked to stop meanwhile.
SendSucceeds(w) ==
  /\ IsAt(w, "sending")
  /\ IF Destination(w) = NoFile THEN Answer(w, "success")
     ELSE Goes(w, "received") /\ UNCHANGED result
  /\ UNCHANGED << client, queue, stopped, target, calls, sent, disk >>

\* Mutant: the file is written where it belongs, without a temporary.
DirectlyAt == "at"

\* temporary += ".part".
WrittenAt == "part"

\* The std::ofstream truncates the file that is there or creates one.
OpenPart(w) ==
  /\ IsAt(w, "received")
  /\ LET f == Destination(w)
         inode == IF path[WrittenAt][f] = NoFile THEN worker[w].on ELSE path[WrittenAt][f]
     IN /\ path' = [path EXCEPT ![WrittenAt][f] = inode]
        /\ content' = [content EXCEPT ![inode] = "partial"]
        /\ worker' = [worker EXCEPT ![w].at = "opened", ![w].inode = inode]
  /\ UNCHANGED << client, queue, stopped, target, result, calls, sent >>

\* All of the body is in the file that was opened.
Write(w) ==
  /\ IsAt(w, "opened")
  /\ content' = [content EXCEPT ![worker[w].inode] = "whole"]
  /\ Goes(w, "written")
  /\ UNCHANGED << client, queue, stopped, target, result, calls, sent, path >>

\* A directory, the write or the rename fails: whatever has the temporary's
\* name is removed.  Nothing was opened yet if it was the directory.
WriteFails(w) ==
  /\ worker[w].at \in {"received", "opened", "written"}
  /\ \/ IsAt(w, "received") /\ UNCHANGED path
     \/ path' = [path EXCEPT !.part[Destination(w)] = NoFile]
  /\ Answer(w, "error")
  /\ UNCHANGED << client, queue, stopped, target, calls, sent, content >>

\* std::filesystem::rename() over the destination.
RenamedOver(f) == [path EXCEPT !.at[f] = path.part[f], !.part[f] = NoFile]

Rename(w) ==
  /\ IsAt(w, "written")
  /\ path.part[Destination(w)] # NoFile
  /\ path' = RenamedOver(Destination(w))
  /\ Answer(w, "success")
  /\ UNCHANGED << client, queue, stopped, target, calls, sent, content >>

WorkerStep(w) ==
  \/ Take(w) \/ Rest(w) \/ Begin(w) \/ Look(w)
  \/ SendFails(w) \/ SendSucceeds(w)
  \/ OpenPart(w) \/ Write(w) \/ WriteFails(w) \/ Rename(w)

----------------------------------------------------------------------------

\* The process dies and starts again with another client; the disk stays.
Crash ==
  /\ \E r \in Requests : result[r] = "pending"
  /\ client' = "open"
  /\ queue' = << >>
  /\ announced' = 0
  /\ worker' = [w \in Workers |-> Idle]
  /\ stopped' = {}
  /\ result' = [r \in Requests |-> IF result[r] = "pending" THEN "lost" ELSE result[r]]
  /\ UNCHANGED << target, userStop, calledOff, sent, disk >>

ClientNext ==
  \/ \E r \in Requests, f \in Files \cup {NoFile} : Enqueue(r, f)
  \/ \E r \in Requests : UserStops(r)
  \/ Notify
  \/ Shutdown
  \/ Join
  \/ \E w \in Workers : StopWorker(w) \/ SpuriousWakeup(w) \/ WorkerStep(w)
  \/ Crash

\* Every wait in the handler is bounded by a timeout, and threads run.
ClientFairness ==
  /\ WF_clientVars(Notify) /\ WF_clientVars(Join)
  /\ \A w \in Workers : WF_clientVars(StopWorker(w)) /\ WF_clientVars(WorkerStep(w))

ClientSpec == ClientInit /\ [][ClientNext]_clientVars /\ ClientFairness

----------------------------------------------------------------------------

\* A request whose caller stopped it before a thread took it never reaches the
\* handler ("a cancelled request never reaches the handler",
\* test/http_client_test.cxx).
CalledOffAreNotSent == sent \cap calledOff = {}

(* Once the destructor is through, no thread uses the client or its handler   *)
(* and no caller waits for an answer; and what was called off is not sent.    *)
NothingOutlivesTheClient ==
  /\ ClientTypeOK
  /\ CalledOffAreNotSent
  /\ client = "joined" =>
       /\ \A w \in Workers : IsAt(w, "exited")
       /\ \A r \in Requests : result[r] # "pending"

\* A promise is set once: std::promise throws the second time, on a thread
\* that catches nothing.  No request is taken by two threads or answered both
\* by a thread and by the destructor.
PromisesSetOnce ==
  [][\A r \in Requests :
       result[r] \in {"success", "canceled", "error", "lost"} =>
         result'[r] = result[r]]_clientVars

FuturesBecomeReady ==
  \A r \in Requests : (result[r] = "pending") ~> (result[r] # "pending")

ShutdownEnds == (client = "stopping") ~> (client # "stopping")

(* A future becomes ready, once: no notification is lost, no request stays in *)
(* the queue, and destroying the client forgets nobody.  And ~Impl() ends:    *)
(* the client does not hang in its destructor.                                *)
NobodyWaitsForEver == PromisesSetOnce /\ FuturesBecomeReady /\ ShutdownEnds

(* "Writes next to `destination` and renames over it, so readers see the      *)
(* whole file or none of it", whatever fails and whenever the process dies.   *)
WholeFileOrNone == \A f \in Files : ContentAt(f) # "partial"

(* Downloads of different destinations, or of one at different times: readers *)
(* see whole files, and what was reported done is at its destination, with    *)
(* the hash that was asked for, from then on.                                 *)
DoneIsThere ==
  /\ WholeFileOrNone
  /\ \A r \in Requests :
       result[r] = "success" /\ target[r] # NoFile => ContentAt(target[r]) = "whole"

=============================================================================
