------------------------- MODULE ApplicationProofs --------------------------
(***************************************************************************)
(* What is proved of the application (MCApplication), for any machine:     *)
(*   - HttpClient: for any number of threads, requests and destinations,   *)
(*     the client can be destroyed at any time and leaves neither threads  *)
(*     nor waiting callers behind, a promise is set once, and readers of a *)
(*     destination see whole files, whenever a download fails or the       *)
(*     process dies;                                                       *)
(*   - Benchmark: for any scenarios, options and number of frames in       *)
(*     flight, every measurement is about the frame its row says it is.    *)
(***************************************************************************)
EXTENDS HttpClient, Benchmark, FiniteSetTheorems, TLAPS

(* What happens to the queue. *)

Distinct(q) == \A i, j \in DOMAIN q : q[i] = q[j] => i = j

LEMMA Appended ==
  ASSUME NEW S, NEW q \in Seq(S), NEW r \in S, Distinct(q), r \notin Range(q)
  PROVE  /\ Append(q, r) \in Seq(S)
         /\ Range(Append(q, r)) = Range(q) \cup {r}
         /\ Distinct(Append(q, r))
<1>1. /\ DOMAIN q = 1 .. Len(q) /\ DOMAIN Append(q, r) = 1 .. Len(q) + 1
      /\ Len(q) \in Nat
      /\ \A i \in 1 .. Len(q) : Append(q, r)[i] = q[i]
      /\ Append(q, r)[Len(q) + 1] = r
  OBVIOUS
<1>2. Range(Append(q, r)) = Range(q) \cup {r}
  <2>1. \A i \in 1 .. Len(q) + 1 : Append(q, r)[i] \in Range(q) \cup {r}
    BY <1>1 DEF Range
  <2>2. \A i \in 1 .. Len(q) : q[i] \in Range(Append(q, r))
    BY <1>1 DEF Range
  <2>3. r \in Range(Append(q, r))
    BY <1>1 DEF Range
  <2>. QED
    BY <1>1, <2>1, <2>2, <2>3 DEF Range
<1>3. \A i \in 1 .. Len(q) : q[i] # r
  BY <1>1 DEF Range
<1>. QED
  BY <1>1, <1>2, <1>3 DEF Distinct

LEMMA PoppedFront ==
  ASSUME NEW S, NEW q \in Seq(S), q # << >>, Distinct(q)
  PROVE  /\ Head(q) \in S /\ Tail(q) \in Seq(S)
         /\ Range(q) = Range(Tail(q)) \cup {Head(q)}
         /\ Head(q) \notin Range(Tail(q))
         /\ Distinct(Tail(q))
<1>1. /\ DOMAIN q = 1 .. Len(q) /\ Len(q) \in Nat /\ Len(q) >= 1
      /\ Head(q) = q[1] /\ Tail(q) \in Seq(S) /\ Head(q) \in S
      /\ DOMAIN Tail(q) = 1 .. Len(q) - 1
      /\ \A i \in 1 .. Len(q) - 1 : Tail(q)[i] = q[i + 1]
  OBVIOUS
<1>2. Head(q) \notin Range(Tail(q))
  <2>1. \A i \in 1 .. Len(q) - 1 : q[i + 1] # q[1]
    BY <1>1 DEF Distinct
  <2>. QED
    BY <1>1, <2>1 DEF Range
<1>3. Range(q) = Range(Tail(q)) \cup {Head(q)}
  <2>1. ASSUME NEW i \in 1 .. Len(q) PROVE q[i] \in Range(Tail(q)) \cup {Head(q)}
    <3>1. CASE i = 1
      BY <1>1, <3>1
    <3>2. CASE i # 1
      <4>1. i - 1 \in 1 .. Len(q) - 1 /\ (i - 1) + 1 = i
        BY <1>1, <3>2
      <4>2. Tail(q)[i - 1] = q[i]
        BY <1>1, <4>1
      <4>. QED
        BY <1>1, <4>1, <4>2 DEF Range
    <3>. QED
      BY <3>1, <3>2
  <2>2. \A i \in 1 .. Len(q) - 1 : Tail(q)[i] \in Range(q)
    BY <1>1 DEF Range
  <2>3. Head(q) \in Range(q)
    BY <1>1 DEF Range
  <2>. QED
    BY <1>1, <2>1, <2>2, <2>3 DEF Range
<1>4. Distinct(Tail(q))
  <2>1. ASSUME NEW i \in 1 .. Len(q) - 1, NEW j \in 1 .. Len(q) - 1, q[i + 1] = q[j + 1]
        PROVE  i = j
    <3>1. i + 1 \in 1 .. Len(q) /\ j + 1 \in 1 .. Len(q)
      BY <1>1
    <3>2. i + 1 = j + 1
      BY <1>1, <2>1, <3>1 DEF Distinct
    <3>. QED
      BY <3>2
  <2>. QED
    BY <1>1, <2>1 DEF Distinct
<1>. QED
  BY <1>1, <1>2, <1>3, <1>4

LEMMA EmptyQueue == Range(<< >>) = {} /\ Distinct(<< >>) /\ \A S : << >> \in Seq(S)
  BY DEF Range, Distinct

----------------------------------------------------------------------------
(* Where a request is. *)

Busy(w) == worker[w].at \in Stages

\* A request that waits for its answer is in the queue or some thread's, once.
RequestsAreSomewhere ==
  /\ Distinct(queue)
  /\ \A r \in Range(queue) : result[r] = "pending"
  /\ \A w \in Workers : IF Busy(w) THEN /\ worker[w].on \in Requests
                                        /\ result[worker[w].on] = "pending"
                                   ELSE worker[w].on = NoRequest
  /\ \A v, w \in Workers : Busy(v) /\ worker[v].on = worker[w].on => v = w
  /\ \A r \in Requests : result[r] = "pending" =>
       r \in Range(queue) \/ \E w \in Workers : Busy(w) /\ worker[w].on = r

\* A call that is off is not under way, and what is sent was taken before.
CallsAreOff ==
  /\ calledOff \subseteq userStop
  /\ \A r \in sent : result[r] # "unsent" /\ r \notin Range(queue)
  /\ \A w \in Workers : Busy(w) /\ worker[w].at # "taken" => worker[w].on \notin calledOff
  /\ CalledOffAreNotSent

\* What looks at a destination or writes there has one.
Downloads == {"looking", "received", "opened", "written"}
DownloadsHaveDestinations ==
  \A w \in Workers : worker[w].at \in Downloads => target[worker[w].on] # NoFile

Made == { r \in Requests : result[r] # "unsent" }
AnnouncedWereMade == announced <= Cardinality(Made)

\* The destructor is through when the threads are.
JoinedIsDone ==
  client = "joined" => queue = << >> /\ \A w \in Workers : IsAt(w, "exited")

ClientInv ==
  /\ ClientTypeOK
  /\ RequestsAreSomewhere
  /\ CallsAreOff
  /\ DownloadsHaveDestinations
  /\ AnnouncedWereMade
  /\ JoinedIsDone

LEMMA NamesDiffer ==
  /\ \A r \in Requests : r # NoFile /\ r # NoRequest /\ r # Before
  /\ NoFile # Before
  BY ClientAssumption DEF NoFile, NoRequest, Before

LEMMA MadeIsFinite ==
  ASSUME NEW made \in SUBSET Requests
  PROVE  IsFiniteSet(made) /\ Cardinality(made) \in Nat
                           /\ Cardinality(made) <= Cardinality(Requests)
  BY ClientAssumption, FS_Subset, FS_CardinalityType

LEMMA ClientInitInv == ClientInit => ClientInv
<1> SUFFICES ASSUME ClientInit PROVE ClientInv
  OBVIOUS
<1>1. Range(queue) = {} /\ Distinct(queue) /\ queue \in Seq(Requests)
  BY EmptyQueue DEF ClientInit
<1>2. 0 \in 0 .. Cardinality(Requests) /\ 0 <= Cardinality(Made)
  <2>1. Requests \in SUBSET Requests /\ Made \in SUBSET Requests
    BY DEF Made
  <2>. QED
    BY <2>1, MadeIsFinite
<1>3. worker \in [Workers -> [at: Stages \cup {"checking", "asleep", "exited"},
                              on: Requests \cup {NoRequest},
                              inode: Inodes \cup {NoFile}]]
  BY DEF ClientInit, Idle
<1>4. path \in [{"at", "part"} -> [Files -> Inodes \cup {NoFile}]]
  <2>1. PICK old \in [Files -> {NoFile, Before}] :
          path = [at |-> old, part |-> [f \in Files |-> NoFile]]
    BY DEF ClientInit
  <2>2. /\ old \in [Files -> Inodes \cup {NoFile}]
        /\ [f \in Files |-> NoFile] \in [Files -> Inodes \cup {NoFile}]
    BY DEF Inodes
  <2>. QED
    BY <2>1, <2>2
<1>5. ClientTypeOK
  BY <1>1, <1>2, <1>3, <1>4 DEF ClientInit, ClientTypeOK, Contents
<1>6. \A w \in Workers : ~Busy(w) /\ worker[w].on = NoRequest
  BY DEF ClientInit, Busy, Stages, Idle
<1>7. RequestsAreSomewhere
  BY <1>1, <1>6 DEF ClientInit, RequestsAreSomewhere
<1>. QED
  BY <1>2, <1>5, <1>6, <1>7
  DEF ClientInit, ClientInv, CallsAreOff, CalledOffAreNotSent, DownloadsHaveDestinations,
      Downloads, Busy, Stages, AnnouncedWereMade, JoinedIsDone

----------------------------------------------------------------------------
(* What a thread does to a request, for every step alike. *)

Threads == [Workers -> [at: Stages \cup {"checking", "asleep", "exited"},
                        on: Requests \cup {NoRequest},
                        inode: Inodes \cup {NoFile}]]
Paths == [{"at", "part"} -> [Files -> Inodes \cup {NoFile}]]
others == << client, queue, announced, stopped, target, userStop, calledOff >>

\* It goes on with its request, perhaps by sending it.
LEMMA GoesOn ==
  ASSUME ClientInv, NEW w \in Workers, Busy(w), UNCHANGED << others, result >>,
         worker' \in Threads, \A v \in Workers \ {w} : worker'[v] = worker[v],
         worker'[w].at \in Stages \ {"taken"}, worker'[w].on = worker[w].on,
         worker[w].on \notin calledOff, sent' \in {sent, sent \cup {worker[w].on}},
         worker'[w].at \in Downloads => target[worker[w].on] # NoFile,
         path' \in Paths, content' \in [Inodes -> Contents]
  PROVE  ClientInv'
<1>1. worker[w].on \in Requests /\ result[worker[w].on] = "pending" /\ worker[w].on \notin Range(queue)
  BY DEF ClientInv, RequestsAreSomewhere, ClientTypeOK
<1>2. \A v \in Workers : worker'[v].on = worker[v].on /\ (Busy(v)' <=> Busy(v))
  BY DEF Busy
<1>3. ClientTypeOK'
  BY <1>1, <1>2 DEF ClientInv, ClientTypeOK, others, Threads, Paths
<1>4. RequestsAreSomewhere'
  BY <1>2 DEF ClientInv, RequestsAreSomewhere, others
<1>5. CallsAreOff'
  <2>1. \A v \in Workers : Busy(v)' /\ worker'[v].at # "taken" => worker'[v].on \notin calledOff'
    BY <1>2 DEF ClientInv, CallsAreOff, others
  <2>. QED
    BY <1>1, <2>1 DEF ClientInv, CallsAreOff, CalledOffAreNotSent, others
<1>6. JoinedIsDone'
  BY DEF ClientInv, JoinedIsDone, IsAt, Busy, Stages, others
<1>7. DownloadsHaveDestinations'
  BY <1>2 DEF ClientInv, DownloadsHaveDestinations, others
<1>. QED
  BY <1>3, <1>4, <1>5, <1>6, <1>7 DEF ClientInv, AnnouncedWereMade, Made, others

\* It answers its request and waits for another.
LEMMA Answers ==
  ASSUME ClientInv, NEW w \in Workers, Busy(w), UNCHANGED << others, sent >>,
         NEW answer \in {"success", "canceled", "error"}, Answer(w, answer),
         path' \in Paths, content' \in [Inodes -> Contents]
  PROVE  ClientInv'
<1>1. worker[w].on \in Requests /\ result[worker[w].on] = "pending" /\ worker[w].on \notin Range(queue)
  BY DEF ClientInv, RequestsAreSomewhere, ClientTypeOK
<1>2. /\ Idle \in [at: Stages \cup {"checking", "asleep", "exited"},
                   on: Requests \cup {NoRequest}, inode: Inodes \cup {NoFile}]
      /\ Idle.at \notin Stages /\ Idle.on = NoRequest
  BY DEF Idle, Stages
<1>3. /\ worker' = [worker EXCEPT ![w] = Idle]
      /\ worker \in Threads /\ result \in [Requests -> {"unsent", "pending", "success", "canceled", "error", "lost"}]
      /\ result' = [result EXCEPT ![worker[w].on] = answer]
  BY DEF Answer, ClientInv, ClientTypeOK, Threads
<1>4. /\ worker' \in Threads /\ ~Busy(w)' /\ worker'[w].on = NoRequest
      /\ \A v \in Workers \ {w} : worker'[v] = worker[v] /\ (Busy(v)' <=> Busy(v))
  BY <1>2, <1>3 DEF Busy, Threads
<1>5. /\ result' \in [Requests -> {"unsent", "pending", "success", "canceled", "error", "lost"}]
      /\ result'[worker[w].on] = answer
      /\ \A r \in Requests : r # worker[w].on => result'[r] = result[r]
  BY <1>1, <1>3
<1>6. ClientTypeOK'
  <2>1. \A v \in Workers : worker'[v].on \notin Range(queue')
    BY <1>4, NamesDiffer DEF ClientInv, ClientTypeOK, others, Range
  <2>. QED
    BY <1>4, <1>5, <2>1 DEF ClientInv, ClientTypeOK, others, Threads, Paths
<1>7. RequestsAreSomewhere'
  <2>1. \A v \in Workers : Busy(v)' => v # w /\ worker'[v].on \in Requests /\ worker'[v].on # worker[w].on
    BY <1>4 DEF ClientInv, RequestsAreSomewhere
  <2>2. \A r \in Range(queue) : r \in Requests /\ r # worker[w].on
    BY <1>1 DEF ClientInv, ClientTypeOK, Range
  <2>3. \A v \in Workers : IF Busy(v)' THEN /\ worker'[v].on \in Requests
                                            /\ result'[worker'[v].on] = "pending"
                                       ELSE worker'[v].on = NoRequest
    BY <1>4, <1>5, <2>1 DEF ClientInv, RequestsAreSomewhere
  <2>4. \A u, v \in Workers : Busy(u)' /\ worker'[u].on = worker'[v].on => u = v
    BY <1>4, <2>1, <2>3, NamesDiffer DEF ClientInv, RequestsAreSomewhere
  <2>5. \A r \in Requests : result'[r] = "pending" =>
          r \in Range(queue) \/ \E v \in Workers : Busy(v)' /\ worker'[v].on = r
    BY <1>4, <1>5 DEF ClientInv, RequestsAreSomewhere
  <2>6. \A r \in Range(queue) : result'[r] = "pending"
    BY <1>5, <2>2 DEF ClientInv, RequestsAreSomewhere
  <2>7. queue' = queue /\ Distinct(queue)
    BY DEF ClientInv, RequestsAreSomewhere, others
  <2>. QED
    BY <2>3, <2>4, <2>5, <2>6, <2>7 DEF RequestsAreSomewhere
<1>8. CallsAreOff'
  <2>1. \A v \in Workers : Busy(v)' => worker'[v] = worker[v] /\ Busy(v)
    BY <1>4
  <2>2. \A r \in sent : result'[r] # "unsent"
    BY <1>1, <1>5 DEF ClientInv, CallsAreOff, ClientTypeOK
  <2>. QED
    BY <2>1, <2>2 DEF ClientInv, CallsAreOff, CalledOffAreNotSent, others
<1>9. Made' = Made
  BY <1>1, <1>5 DEF Made
<1>10. JoinedIsDone'
  BY DEF ClientInv, JoinedIsDone, IsAt, Busy, Stages, others
<1>11. DownloadsHaveDestinations'
  BY <1>2, <1>3, <1>4 DEF ClientInv, DownloadsHaveDestinations, Downloads, Stages, Threads, others
<1>. QED
  BY <1>6, <1>7, <1>8, <1>9, <1>10, <1>11 DEF ClientInv, AnnouncedWereMade, others

----------------------------------------------------------------------------
(* The threads' steps. *)

LEMMA TakeInv == ASSUME ClientInv, NEW w \in Workers, Take(w) PROVE ClientInv'
<1> DEFINE r == Head(queue)
<1>1. /\ r \in Requests /\ queue' \in Seq(Requests)
      /\ Range(queue) = Range(queue') \cup {r}
      /\ r \notin Range(queue') /\ Distinct(queue')
  BY PoppedFront DEF Take, Popped, ClientInv, ClientTypeOK, RequestsAreSomewhere
<1>2. /\ ~Busy(w) /\ worker \in Threads
      /\ worker' = [worker EXCEPT ![w] = [Idle EXCEPT !.at = "taken", !.on = r]]
  BY DEF Take, IsAt, Busy, Stages, ClientInv, ClientTypeOK, Threads
<1>3. [Idle EXCEPT !.at = "taken", !.on = r]
        \in [at: Stages \cup {"checking", "asleep", "exited"},
             on: Requests \cup {NoRequest}, inode: Inodes \cup {NoFile}]
  BY <1>1 DEF Idle, Stages
<1> HIDE DEF r
<1>4. /\ worker' \in Threads
      /\ worker'[w].at = "taken" /\ worker'[w].on = r
      /\ \A v \in Workers \ {w} : worker'[v] = worker[v]
  BY <1>2, <1>3 DEF Threads, Idle
<1>5. Busy(w)' /\ \A v \in Workers \ {w} : Busy(v)' <=> Busy(v)
  BY <1>4 DEF Busy, Stages
<1>6. r \in Range(queue) /\ result[r] = "pending"
  BY <1>1 DEF ClientInv, RequestsAreSomewhere
<1>7. \A v \in Workers : worker[v].on # r
  BY <1>6 DEF ClientInv, ClientTypeOK
<1>8. ClientTypeOK'
  <2>1. \A v \in Workers : worker'[v].on \notin Range(queue')
    BY <1>1, <1>4 DEF ClientInv, ClientTypeOK
  <2>. QED
    BY <1>1, <1>4, <2>1 DEF Take, ClientInv, ClientTypeOK, Threads, Paths, calls, disk
<1>9. RequestsAreSomewhere'
  <2>1. result' = result
    BY DEF Take
  <2>2. \A x \in Range(queue') : result[x] = "pending"
    BY <1>1 DEF ClientInv, RequestsAreSomewhere
  <2>3. \A v \in Workers : IF Busy(v)' THEN /\ worker'[v].on \in Requests
                                            /\ result[worker'[v].on] = "pending"
                                       ELSE worker'[v].on = NoRequest
    BY <1>1, <1>4, <1>5, <1>6 DEF ClientInv, RequestsAreSomewhere
  <2>4. \A u, v \in Workers : Busy(u)' /\ worker'[u].on = worker'[v].on => u = v
    BY <1>4, <1>5, <1>7 DEF ClientInv, RequestsAreSomewhere
  <2>5. \A x \in Requests : result[x] = "pending" =>
          x \in Range(queue') \/ \E v \in Workers : Busy(v)' /\ worker'[v].on = x
    <3>1. ASSUME NEW x \in Requests, result[x] = "pending", x \notin Range(queue), NEW v \in Workers,
                 Busy(v) /\ worker[v].on = x
          PROVE  Busy(v)' /\ worker'[v].on = x
      BY <1>2, <1>4, <1>5, <3>1
    <3>. QED
      BY <1>1, <1>4, <1>5, <3>1 DEF ClientInv, RequestsAreSomewhere
  <2>. QED
    BY <1>1, <2>1, <2>2, <2>3, <2>4, <2>5 DEF RequestsAreSomewhere
<1>10. CallsAreOff'
  <2>1. \A v \in Workers : Busy(v)' /\ worker'[v].at # "taken" => worker'[v].on \notin calledOff
    BY <1>4, <1>5 DEF ClientInv, CallsAreOff
  <2>. QED
    BY <1>1, <2>1 DEF Take, calls, ClientInv, CallsAreOff, CalledOffAreNotSent
<1>11. client # "joined"
  BY DEF ClientInv, JoinedIsDone, Take
<1>12. DownloadsHaveDestinations'
  BY <1>4 DEF Take, ClientInv, DownloadsHaveDestinations, Downloads
<1>. QED
  BY <1>8, <1>9, <1>10, <1>11, <1>12
  DEF Take, calls, ClientInv, AnnouncedWereMade, Made, JoinedIsDone

\* A thread without a request falls asleep, wakes up or leaves.
LEMMA Rests ==
  ASSUME ClientInv, UNCHANGED << queue, target, result, userStop, calledOff, sent, path, content >>,
         worker' \in Threads, client' \in {"open", "stopping"}, client # "joined",
         stopped' \in SUBSET Workers, announced' \in Nat, announced' <= announced,
         \A v \in Workers : worker'[v] # worker[v] =>
           ~Busy(v) /\ worker'[v].at \notin Stages /\ worker'[v].on = NoRequest
  PROVE  ClientInv'
<1>1. \A v \in Workers : (Busy(v)' <=> Busy(v)) /\ worker'[v].on = worker[v].on
  BY DEF Busy, ClientInv, RequestsAreSomewhere
<1>2. \A v \in Workers : Busy(v)' => worker'[v] = worker[v]
  BY DEF Busy
<1>3. Cardinality(Requests) \in Nat /\ announced' \in 0 .. Cardinality(Requests)
  <2>1. Cardinality(Requests) \in Nat
    BY ClientAssumption, FS_CardinalityType
  <2>. QED
    BY <2>1 DEF ClientInv, ClientTypeOK
<1>4. ClientTypeOK'
  BY <1>1, <1>3 DEF ClientInv, ClientTypeOK, Threads
<1>5. RequestsAreSomewhere'
  BY <1>1 DEF ClientInv, RequestsAreSomewhere
<1>6. CallsAreOff'
  BY <1>1, <1>2 DEF ClientInv, CallsAreOff, CalledOffAreNotSent
<1>7. Made' = Made /\ Cardinality(Made) \in Nat
  BY MadeIsFinite DEF Made
<1>8. AnnouncedWereMade'
  BY <1>3, <1>7 DEF ClientInv, ClientTypeOK, AnnouncedWereMade
<1>9. DownloadsHaveDestinations'
  BY <1>2 DEF ClientInv, DownloadsHaveDestinations, Downloads, Busy, Stages
<1>. QED
  BY <1>4, <1>5, <1>6, <1>8, <1>9 DEF ClientInv, JoinedIsDone

LEMMA WokenRests ==
  ASSUME ClientInv, NEW ws, worker' = Woken(ws)
  PROVE  /\ worker' \in Threads
         /\ \A v \in Workers : worker'[v] # worker[v] =>
              ~Busy(v) /\ worker'[v].at \notin Stages /\ worker'[v].on = NoRequest
  BY DEF Woken, Idle, Busy, Stages, Threads, ClientInv, ClientTypeOK

LEMMA RestInv == ASSUME ClientInv, NEW w \in Workers, Rest(w) PROVE ClientInv'
<1>1. ~Busy(w) /\ worker[w].on = NoRequest
  BY DEF Rest, IsAt, Busy, Stages, ClientInv, RequestsAreSomewhere
<1>2. /\ worker' \in Threads
      /\ \A v \in Workers : worker'[v] # worker[v] =>
           ~Busy(v) /\ worker'[v].at \notin Stages /\ worker'[v].on = NoRequest
  BY <1>1 DEF Rest, Goes, Stages, Threads, ClientInv, ClientTypeOK
<1>3. client # "joined"
  BY DEF Rest, IsAt, ClientInv, JoinedIsDone
<1>4. announced \in Nat /\ client \in {"open", "stopping"} /\ stopped \in SUBSET Workers
  BY <1>3 DEF ClientInv, ClientTypeOK
<1>. QED
  BY <1>2, <1>3, <1>4, Rests DEF Rest, calls, disk

\* What a thread has, and the client's types, for the steps below.
LEMMA ThreadTypes ==
  ASSUME ClientInv, NEW w \in Workers, Busy(w)
  PROVE  /\ worker \in Threads /\ path \in Paths /\ content \in [Inodes -> Contents]
         /\ worker[w].on \in Requests /\ target[worker[w].on] \in Files \cup {NoFile}
  BY DEF ClientInv, ClientTypeOK, RequestsAreSomewhere, Threads, Paths

LEMMA SendInv ==
  ASSUME ClientInv, NEW w \in Workers, Busy(w), worker[w].on \notin calledOff,
         Send(w), UNCHANGED << others, result, disk >>
  PROVE  ClientInv'
<1>1. worker \in Threads
  BY ThreadTypes
<1>2. /\ worker' \in Threads /\ \A v \in Workers \ {w} : worker'[v] = worker[v]
      /\ worker'[w].at \in Stages \ ({"taken"} \cup Downloads)
      /\ worker'[w].on = worker[w].on
  BY <1>1 DEF Send, Goes, Stages, Downloads, Threads
<1>. QED
  BY <1>2, GoesOn, ThreadTypes DEF Send, disk

LEMMA BeginInv == ASSUME ClientInv, NEW w \in Workers, Begin(w) PROVE ClientInv'
<1>1. Busy(w) /\ UNCHANGED << others, disk >>
  BY DEF Begin, IsAt, Busy, Stages, others, calls
<1>2. path' \in Paths /\ content' \in [Inodes -> Contents] /\ worker \in Threads
  BY <1>1, ThreadTypes DEF disk
<1>3. CASE Answer(w, "canceled") /\ UNCHANGED sent
  BY <1>1, <1>2, <1>3, Answers
<1>4. CASE Wanted(worker[w].on) /\ Send(w) /\ UNCHANGED result
  BY <1>1, <1>4, SendInv DEF Wanted, ClientInv, CallsAreOff
<1>5. CASE /\ Wanted(worker[w].on) /\ Goes(w, "looking")
           /\ Destination(w) # NoFile /\ UNCHANGED << result, sent >>
  <2>1. /\ worker' \in Threads /\ \A v \in Workers \ {w} : worker'[v] = worker[v]
        /\ worker'[w].at \in Stages \ {"taken"} /\ worker'[w].on = worker[w].on
    BY <1>2, <1>5 DEF Goes, Stages, Threads
  <2>2. worker[w].on \notin calledOff
    BY <1>5 DEF Wanted, ClientInv, CallsAreOff
  <2>. QED
    BY <1>1, <1>2, <1>5, <2>1, <2>2, GoesOn DEF Destination
<1>. QED
  BY <1>3, <1>4, <1>5 DEF Begin

\* A thread past its first look was not called off.
LEMMA NotCalledOff ==
  ASSUME ClientInv, NEW w \in Workers, worker[w].at \in Stages \ {"taken"}
  PROVE  Busy(w) /\ worker[w].on \notin calledOff
  BY DEF ClientInv, CallsAreOff, Busy

LEMMA LookInv == ASSUME ClientInv, NEW w \in Workers, Look(w) PROVE ClientInv'
<1>1. Busy(w) /\ worker[w].on \notin calledOff /\ UNCHANGED << others, disk >>
  BY NotCalledOff DEF Look, IsAt, Stages, others, calls
<1>2. path' \in Paths /\ content' \in [Inodes -> Contents]
  BY <1>1, ThreadTypes DEF disk
<1>3. CASE Answer(w, "success") /\ UNCHANGED sent
  BY <1>1, <1>2, <1>3, Answers
<1>4. CASE Send(w) /\ UNCHANGED result
  BY <1>1, <1>4, SendInv
<1>. QED
  BY <1>3, <1>4 DEF Look

LEMMA SendFailsInv == ASSUME ClientInv, NEW w \in Workers, SendFails(w) PROVE ClientInv'
<1>1. Busy(w) /\ UNCHANGED << others, sent, disk >>
  BY NotCalledOff DEF SendFails, Stages, others, calls
<1>2. path' \in Paths /\ content' \in [Inodes -> Contents]
  BY <1>1, ThreadTypes DEF disk
<1>3. Answer(w, "error") \/ Answer(w, "canceled")
  BY DEF SendFails
<1>. QED
  BY <1>1, <1>2, <1>3, Answers

LEMMA SendSucceedsInv ==
  ASSUME ClientInv, NEW w \in Workers, SendSucceeds(w) PROVE ClientInv'
<1>1. Busy(w) /\ worker[w].on \notin calledOff /\ UNCHANGED << others, sent, disk >>
  BY NotCalledOff DEF SendSucceeds, IsAt, Stages, others, calls
<1>2. path' \in Paths /\ content' \in [Inodes -> Contents] /\ worker \in Threads
  BY <1>1, ThreadTypes DEF disk
<1>3. CASE Answer(w, "success")
  BY <1>1, <1>2, <1>3, Answers
<1>4. CASE Goes(w, "received") /\ Destination(w) # NoFile /\ UNCHANGED result
  <2>1. /\ worker' \in Threads /\ \A v \in Workers \ {w} : worker'[v] = worker[v]
        /\ worker'[w].at \in Stages \ {"taken"} /\ worker'[w].on = worker[w].on
    BY <1>2, <1>4 DEF Goes, Stages, Threads
  <2>. QED
    BY <1>1, <1>2, <1>4, <2>1, GoesOn DEF Destination
<1>. QED
  BY <1>3, <1>4 DEF SendSucceeds

LEMMA WriteInv == ASSUME ClientInv, NEW w \in Workers, Write(w) PROVE ClientInv'
<1>1. /\ Busy(w) /\ worker[w].on \notin calledOff
      /\ UNCHANGED << others, result, sent, path >>
  BY NotCalledOff DEF Write, IsAt, Stages, others, calls
<1>2. path \in Paths /\ content \in [Inodes -> Contents] /\ worker \in Threads
  BY <1>1, ThreadTypes
<1>3. content' \in [Inodes -> Contents]
  BY <1>2 DEF Write, Contents
<1>4. /\ worker' \in Threads /\ \A v \in Workers \ {w} : worker'[v] = worker[v]
      /\ worker'[w].at \in Stages \ {"taken"} /\ worker'[w].on = worker[w].on
  BY <1>2 DEF Write, Goes, Stages, Threads
<1>5. target[worker[w].on] # NoFile
  BY DEF Write, IsAt, ClientInv, DownloadsHaveDestinations, Downloads
<1>. QED
  BY <1>1, <1>2, <1>3, <1>4, <1>5, GoesOn

LEMMA WriteFailsInv == ASSUME ClientInv, NEW w \in Workers, WriteFails(w) PROVE ClientInv'
<1>1. Busy(w) /\ UNCHANGED << others, sent, content >>
  BY NotCalledOff DEF WriteFails, Stages, others, calls
<1>2. path \in Paths /\ content \in [Inodes -> Contents]
  BY <1>1, ThreadTypes
<1>3. path' \in Paths
  BY <1>2 DEF WriteFails, Paths
<1>. QED
  BY <1>1, <1>2, <1>3, Answers DEF WriteFails

LEMMA OpenPartInv == ASSUME ClientInv, NEW w \in Workers, OpenPart(w) PROVE ClientInv'
<1> DEFINE f == Destination(w)
           inode == IF path.part[f] = NoFile THEN worker[w].on ELSE path.part[f]
<1>1. /\ Busy(w) /\ worker[w].on \notin calledOff
      /\ UNCHANGED << others, result, sent >>
  BY NotCalledOff DEF OpenPart, IsAt, Stages, others, calls
<1>2. /\ path \in Paths /\ content \in [Inodes -> Contents] /\ worker \in Threads
      /\ worker[w].on \in Requests
  BY <1>1, ThreadTypes
<1>3. f \in Files /\ target[worker[w].on] # NoFile
  BY <1>1, ThreadTypes
  DEF OpenPart, IsAt, ClientInv, DownloadsHaveDestinations, Downloads, Destination
<1>4. /\ path' = [path EXCEPT !.part[f] = inode]
      /\ content' = [content EXCEPT ![inode] = "partial"]
      /\ worker' = [worker EXCEPT ![w].at = "opened", ![w].inode = inode]
  BY DEF OpenPart, WrittenAt
<1>5. inode \in Inodes
  BY <1>2, <1>3 DEF Paths, Inodes
<1> HIDE DEF f, inode
<1>6. path' \in Paths /\ content' \in [Inodes -> Contents]
  BY <1>2, <1>4, <1>5 DEF Paths, Contents
<1>7. /\ worker' \in Threads /\ \A v \in Workers \ {w} : worker'[v] = worker[v]
      /\ worker'[w].at \in Stages \ {"taken"} /\ worker'[w].on = worker[w].on
  BY <1>2, <1>4, <1>5 DEF Stages, Threads
<1>. QED
  BY <1>1, <1>3, <1>6, <1>7, GoesOn

LEMMA RenameInv == ASSUME ClientInv, NEW w \in Workers, Rename(w) PROVE ClientInv'
<1>1. Busy(w) /\ UNCHANGED << others, sent, content >>
  BY NotCalledOff DEF Rename, IsAt, Stages, others, calls
<1>2. path \in Paths /\ content \in [Inodes -> Contents]
  BY <1>1, ThreadTypes
<1>3. Destination(w) \in Files
  BY <1>1, ThreadTypes
  DEF Rename, IsAt, ClientInv, DownloadsHaveDestinations, Downloads, Destination
<1>4. path' \in Paths
  BY <1>2, <1>3 DEF Rename, RenamedOver, Paths
<1>. QED
  BY <1>1, <1>2, <1>4, Answers DEF Rename

LEMMA WorkerStepInv == ASSUME ClientInv, NEW w \in Workers, WorkerStep(w) PROVE ClientInv'
  BY TakeInv, RestInv, BeginInv, LookInv, SendFailsInv, SendSucceedsInv, OpenPartInv,
     WriteInv, WriteFailsInv, RenameInv DEF WorkerStep

----------------------------------------------------------------------------
(* The callers, the destructor and the end of the process. *)

LEMMA EnqueueInv ==
  ASSUME ClientInv, NEW r \in Requests, NEW f \in Files \cup {NoFile}, Enqueue(r, f)
  PROVE  ClientInv'
<1>1. /\ result[r] = "unsent" /\ client = "open"
      /\ result' = [result EXCEPT ![r] = "pending"] /\ target' = [target EXCEPT ![r] = f]
      /\ queue' = Append(queue, r) /\ announced' = announced + 1
      /\ UNCHANGED << client, worker, stopped, userStop, calledOff, sent, path, content >>
  BY DEF Enqueue, disk
<1>2. r \notin Range(queue) /\ r \notin sent /\ \A w \in Workers : worker[w].on # r
  BY <1>1, NamesDiffer DEF ClientInv, RequestsAreSomewhere, CallsAreOff
<1>3. /\ queue' \in Seq(Requests) /\ Distinct(queue')
      /\ Range(queue') = Range(queue) \cup {r}
  BY <1>1, <1>2, Appended DEF ClientInv, ClientTypeOK, RequestsAreSomewhere
<1>4. /\ result' \in [Requests -> {"unsent", "pending", "success", "canceled", "error", "lost"}]
      /\ target' \in [Requests -> Files \cup {NoFile}]
      /\ result'[r] = "pending"
      /\ \A s \in Requests : s # r => result'[s] = result[s] /\ target'[s] = target[s]
  BY <1>1 DEF ClientInv, ClientTypeOK
<1>5. Made' = Made \cup {r} /\ r \notin Made
  BY <1>1, <1>4 DEF Made
<1>6. announced' <= Cardinality(Made') /\ announced' \in 0 .. Cardinality(Requests)
  <2>1. IsFiniteSet(Made) /\ Cardinality(Made) \in Nat
    BY MadeIsFinite DEF Made
  <2>2. Cardinality(Made') = Cardinality(Made) + 1
    BY <1>5, <2>1, FS_AddElement
  <2>3. Made' \in SUBSET Requests
    BY DEF Made
  <2>4. Cardinality(Made') <= Cardinality(Requests) /\ Cardinality(Requests) \in Nat
    BY <2>3, MadeIsFinite, ClientAssumption, FS_CardinalityType
  <2>5. announced \in 0 .. Cardinality(Requests) /\ announced <= Cardinality(Made)
    BY DEF ClientInv, ClientTypeOK, AnnouncedWereMade
  <2>. QED
    BY <1>1, <2>1, <2>2, <2>4, <2>5
<1>7. \A v \in Workers : (Busy(v)' <=> Busy(v)) /\ worker'[v] = worker[v]
  BY <1>1 DEF Busy
<1>8. ClientTypeOK'
  <2>1. \A w \in Workers : worker'[w].on \notin Range(queue')
    BY <1>1, <1>2, <1>3 DEF ClientInv, ClientTypeOK
  <2>. QED
    BY <1>1, <1>3, <1>4, <1>6, <2>1 DEF ClientInv, ClientTypeOK
<1>9. RequestsAreSomewhere'
  <2>1. \A s \in Range(queue) : s \in Requests
    BY DEF ClientInv, ClientTypeOK, Range
  <2>2. \A s \in Range(queue') : result'[s] = "pending"
    BY <1>2, <1>3, <1>4, <2>1 DEF ClientInv, RequestsAreSomewhere
  <2>3. \A v \in Workers : IF Busy(v)' THEN /\ worker'[v].on \in Requests
                                            /\ result'[worker'[v].on] = "pending"
                                       ELSE worker'[v].on = NoRequest
    BY <1>2, <1>4, <1>7 DEF ClientInv, RequestsAreSomewhere
  <2>. QED
    BY <1>3, <1>4, <1>7, <2>2, <2>3 DEF ClientInv, RequestsAreSomewhere
<1>10. CallsAreOff'
  <2>1. \A s \in sent : s \in Requests /\ result'[s] # "unsent" /\ s \notin Range(queue')
    BY <1>2, <1>3, <1>4 DEF ClientInv, CallsAreOff, ClientTypeOK
  <2>. QED
    BY <1>1, <2>1 DEF ClientInv, CallsAreOff, CalledOffAreNotSent, Busy
<1>11. DownloadsHaveDestinations'
  <2>1. \A w \in Workers : worker[w].at \in Downloads => worker[w].on \in Requests /\ worker[w].on # r
    BY <1>2 DEF ClientInv, RequestsAreSomewhere, Downloads, Busy, Stages
  <2>. QED
    BY <1>1, <1>4, <2>1 DEF ClientInv, DownloadsHaveDestinations
<1>. QED
  BY <1>1, <1>6, <1>8, <1>9, <1>10, <1>11 DEF ClientInv, AnnouncedWereMade, JoinedIsDone

LEMMA UserStopsInv == ASSUME ClientInv, NEW r \in Requests, UserStops(r) PROVE ClientInv'
<1>1. /\ UNCHANGED << client, queue, announced, worker, stopped, target, result, sent, path, content >>
      /\ userStop' = userStop \cup {r}
      /\ calledOff' = IF result[r] = "unsent" \/ r \in Range(queue)
                      THEN calledOff \cup {r} ELSE calledOff
  BY DEF UserStops, disk
<1>2. ClientTypeOK'
  BY <1>1 DEF ClientInv, ClientTypeOK
<1>3. RequestsAreSomewhere'
  BY <1>1 DEF ClientInv, RequestsAreSomewhere, Busy
<1>4. CallsAreOff'
  <2>1. calledOff' \subseteq userStop'
    BY <1>1 DEF ClientInv, CallsAreOff
  <2>2. \A w \in Workers : Busy(w) /\ worker[w].at # "taken" => worker[w].on \notin calledOff'
    BY <1>1 DEF ClientInv, CallsAreOff, RequestsAreSomewhere, ClientTypeOK
  <2>3. sent \cap calledOff' = {}
    BY <1>1 DEF ClientInv, CallsAreOff, CalledOffAreNotSent
  <2>. QED
    BY <1>1, <2>1, <2>2, <2>3 DEF ClientInv, CallsAreOff, CalledOffAreNotSent, Busy
<1>. QED
  BY <1>1, <1>2, <1>3, <1>4
  DEF ClientInv, DownloadsHaveDestinations, AnnouncedWereMade, Made, JoinedIsDone, IsAt

LEMMA WakingInv ==
  ASSUME ClientInv,
         \/ Notify \/ Shutdown
         \/ \E w \in Workers : StopWorker(w) \/ SpuriousWakeup(w)
  PROVE  ClientInv'
<1>1. announced \in Nat /\ stopped \in SUBSET Workers /\ worker \in Threads
  BY DEF ClientInv, ClientTypeOK, Threads
<1>2. CASE Notify /\ client # "joined"
  <2>1. worker' = worker \/ \E w \in Workers : worker' = Woken({w})
    BY <1>2 DEF Notify
  <2>2. /\ worker' \in Threads
        /\ \A v \in Workers : worker'[v] # worker[v] =>
             ~Busy(v) /\ worker'[v].at \notin Stages /\ worker'[v].on = NoRequest
    BY <1>1, <2>1, WokenRests
  <2>3. announced' \in Nat /\ announced' <= announced
    BY <1>1, <1>2 DEF Notify
  <2>4. client' \in {"open", "stopping"}
    BY <1>2 DEF Notify, ClientInv, ClientTypeOK
  <2>. QED
    BY <1>1, <1>2, <2>2, <2>3, <2>4, Rests DEF Notify, disk
<1>3. CASE Notify /\ client = "joined"
  <2>1. worker' = worker
    <3>1. \A w \in Workers : worker[w].at # "asleep"
      BY <1>3 DEF ClientInv, JoinedIsDone, IsAt
    <3>. QED
      BY <1>3, <3>1 DEF Notify
  <2>2. announced' \in Nat /\ announced' <= announced
    BY <1>1, <1>3 DEF Notify
  <2>3. Cardinality(Made) \in Nat /\ Cardinality(Requests) \in Nat
    BY MadeIsFinite, ClientAssumption, FS_CardinalityType DEF Made
  <2>4. announced' \in 0 .. Cardinality(Requests) /\ announced' <= Cardinality(Made)
    BY <1>1, <2>2, <2>3 DEF ClientInv, ClientTypeOK, AnnouncedWereMade
  <2>. QED
    BY <1>3, <2>1, <2>4
    DEF Notify, disk, ClientInv, ClientTypeOK, RequestsAreSomewhere, CallsAreOff,
        CalledOffAreNotSent, DownloadsHaveDestinations, AnnouncedWereMade, Made,
        JoinedIsDone, IsAt, Busy
<1>4. CASE Shutdown
  BY <1>1, <1>4, Rests DEF Shutdown, disk
<1>5. ASSUME NEW w \in Workers, StopWorker(w) PROVE ClientInv'
  <2>1. /\ worker' \in Threads
        /\ \A v \in Workers : worker'[v] # worker[v] =>
             ~Busy(v) /\ worker'[v].at \notin Stages /\ worker'[v].on = NoRequest
    BY <1>5, WokenRests DEF StopWorker
  <2>2. UNCHANGED << queue, target, result, userStop, calledOff, sent, path, content >>
    BY <1>5 DEF StopWorker, calls, disk
  <2>3. /\ client' \in {"open", "stopping"} /\ client # "joined"
        /\ stopped' \in SUBSET Workers
    BY <1>1, <1>5 DEF StopWorker
  <2>4. announced' \in Nat /\ announced' <= announced
    BY <1>1, <1>5 DEF StopWorker, calls
  <2>. QED
    BY <2>1, <2>2, <2>3, <2>4, Rests
<1>6. ASSUME NEW w \in Workers, SpuriousWakeup(w) PROVE ClientInv'
  <2>1. /\ worker' \in Threads
        /\ \A v \in Workers : worker'[v] # worker[v] =>
             ~Busy(v) /\ worker'[v].at \notin Stages /\ worker'[v].on = NoRequest
    BY <1>6, WokenRests DEF SpuriousWakeup
  <2>2. client # "joined" /\ client \in {"open", "stopping"}
    BY <1>6 DEF SpuriousWakeup, IsAt, ClientInv, JoinedIsDone, ClientTypeOK
  <2>3. /\ UNCHANGED << queue, target, result, userStop, calledOff, sent, path, content >>
        /\ client' = client /\ stopped' = stopped
    BY <1>6 DEF SpuriousWakeup, calls, disk
  <2>4. announced' \in Nat /\ announced' <= announced
    BY <1>1, <1>6 DEF SpuriousWakeup, calls
  <2>. QED
    BY <1>1, <2>1, <2>2, <2>3, <2>4, Rests
<1>. QED
  BY <1>2, <1>3, <1>4, <1>5, <1>6

LEMMA JoinInv == ASSUME ClientInv, Join PROVE ClientInv'
<1>1. \A w \in Workers : IsAt(w, "exited") /\ ~Busy(w)
  BY DEF Join, Joinable, IsAt, Busy, Stages
<1>2. /\ queue' = << >> /\ client' = "joined"
      /\ UNCHANGED << worker, stopped, target, announced, userStop, calledOff, sent, path, content >>
      /\ Range(queue') = {} /\ Distinct(queue') /\ queue' \in Seq(Requests)
  BY EmptyQueue DEF Join, calls, disk
<1>3. \A r \in Requests : result'[r] = IF r \in Range(queue) THEN "canceled" ELSE result[r]
  BY DEF Join
<1>4. result' \in [Requests -> {"unsent", "pending", "success", "canceled", "error", "lost"}]
  BY DEF Join, ClientInv, ClientTypeOK
<1>5. \A r \in Requests : result'[r] # "pending"
  BY <1>1, <1>3 DEF ClientInv, RequestsAreSomewhere
<1>6. Made' = Made /\ \A r \in sent : r \in Requests /\ result'[r] # "unsent"
  BY <1>3 DEF Made, ClientInv, RequestsAreSomewhere, CallsAreOff, ClientTypeOK
<1>7. ClientTypeOK'
  BY <1>2, <1>4 DEF ClientInv, ClientTypeOK
<1>8. RequestsAreSomewhere'
  BY <1>1, <1>2, <1>5 DEF ClientInv, RequestsAreSomewhere, Busy
<1>9. CallsAreOff'
  BY <1>2, <1>6 DEF ClientInv, CallsAreOff, CalledOffAreNotSent, Busy
<1>. QED
  BY <1>1, <1>2, <1>6, <1>7, <1>8, <1>9
  DEF ClientInv, DownloadsHaveDestinations, AnnouncedWereMade, JoinedIsDone, IsAt

LEMMA CrashInv == ASSUME ClientInv, Crash PROVE ClientInv'
<1>1. /\ queue' = << >> /\ client' = "open" /\ announced' = 0 /\ stopped' = {}
      /\ UNCHANGED << target, userStop, calledOff, sent, path, content >>
      /\ Range(queue') = {} /\ Distinct(queue') /\ queue' \in Seq(Requests)
  BY EmptyQueue DEF Crash, disk
<1>2. /\ worker' \in Threads
      /\ \A w \in Workers : worker'[w] = Idle /\ ~Busy(w)' /\ worker'[w].on = NoRequest
  BY DEF Crash, Idle, Busy, Stages, Threads
<1>3. \A r \in Requests : result'[r] = IF result[r] = "pending" THEN "lost" ELSE result[r]
  BY DEF Crash
<1>4. result' \in [Requests -> {"unsent", "pending", "success", "canceled", "error", "lost"}]
  BY DEF Crash, ClientInv, ClientTypeOK
<1>5. Made' = Made /\ \A r \in sent : r \in Requests /\ result'[r] # "unsent"
  BY <1>3 DEF Made, ClientInv, CallsAreOff, ClientTypeOK
<1>6. 0 \in 0 .. Cardinality(Requests) /\ 0 <= Cardinality(Made)
  BY MadeIsFinite, ClientAssumption, FS_CardinalityType DEF Made
<1>7. ClientTypeOK'
  BY <1>1, <1>2, <1>4, <1>6 DEF ClientInv, ClientTypeOK, Threads
<1>8. RequestsAreSomewhere'
  BY <1>1, <1>2, <1>3, <1>4 DEF RequestsAreSomewhere
<1>9. CallsAreOff'
  BY <1>1, <1>2, <1>5 DEF ClientInv, CallsAreOff, CalledOffAreNotSent
<1>10. DownloadsHaveDestinations'
  BY <1>2 DEF DownloadsHaveDestinations, Downloads, Idle
<1>. QED
  BY <1>1, <1>5, <1>6, <1>7, <1>8, <1>9, <1>10 DEF ClientInv, AnnouncedWereMade, JoinedIsDone

LEMMA ClientStepInv == ClientInv /\ [ClientNext]_clientVars => ClientInv'
<1> SUFFICES ASSUME ClientInv, [ClientNext]_clientVars PROVE ClientInv'
  OBVIOUS
<1>1. CASE UNCHANGED clientVars
  BY <1>1 DEF clientVars, ClientInv, ClientTypeOK, RequestsAreSomewhere, CallsAreOff,
     CalledOffAreNotSent, DownloadsHaveDestinations, AnnouncedWereMade, Made,
     JoinedIsDone, IsAt, Busy
<1>2. ASSUME NEW r \in Requests, NEW f \in Files \cup {NoFile}, Enqueue(r, f) PROVE ClientInv'
  BY <1>2, EnqueueInv
<1>3. ASSUME NEW r \in Requests, UserStops(r) PROVE ClientInv'
  BY <1>3, UserStopsInv
<1>4. CASE Notify \/ Shutdown \/ \E w \in Workers : StopWorker(w) \/ SpuriousWakeup(w)
  BY <1>4, WakingInv
<1>5. CASE Join
  BY <1>5, JoinInv
<1>6. ASSUME NEW w \in Workers, WorkerStep(w) PROVE ClientInv'
  BY <1>6, WorkerStepInv
<1>7. CASE Crash
  BY <1>7, CrashInv
<1>. QED
  BY <1>1, <1>2, <1>3, <1>4, <1>5, <1>6, <1>7 DEF ClientNext

LEMMA ClientInvariant == ClientSpec => []ClientInv
<1>. QED
  BY ClientInitInv, ClientStepInv, PTL DEF ClientSpec

----------------------------------------------------------------------------
(* What follows. *)

(* A destroyed client leaves nobody behind: ~Impl() joins its threads before  *)
(* it fails what is queued, so no thread is at a request then and no caller   *)
(* waits, and what was called off in time was never sent.                     *)
THEOREM NothingOutlives == ClientSpec => []NothingOutlivesTheClient
<1>1. ClientInv => NothingOutlivesTheClient
  <2> SUFFICES ASSUME ClientInv PROVE NothingOutlivesTheClient
    OBVIOUS
  <2>1. ASSUME client = "joined", NEW r \in Requests PROVE result[r] # "pending"
    <3>1. Range(queue) = {} /\ \A w \in Workers : ~Busy(w)
      BY <2>1, EmptyQueue DEF ClientInv, JoinedIsDone, IsAt, Busy, Stages
    <3>. QED
      BY <3>1 DEF ClientInv, RequestsAreSomewhere
  <2>. QED
    BY <2>1 DEF NothingOutlivesTheClient, ClientInv, CallsAreOff, JoinedIsDone
<1>. QED
  BY <1>1, ClientInvariant, PTL

Settled == {"success", "canceled", "error", "lost"}
Kept == \A r \in Requests : result[r] \in Settled => result'[r] = result[r]

LEMMA AnswersKeep ==
  ASSUME ClientInv, NEW w \in Workers, Busy(w), NEW answer, Answer(w, answer)
  PROVE  Kept
<1>1. worker[w].on \in Requests /\ result[worker[w].on] = "pending"
  BY DEF ClientInv, RequestsAreSomewhere
<1>. QED
  BY <1>1 DEF Answer, Kept, Settled, ClientInv, ClientTypeOK

LEMMA WorkerKeeps == ASSUME ClientInv, NEW w \in Workers, WorkerStep(w) PROVE Kept
<1>1. CASE result' = result
  BY <1>1 DEF Kept
<1>2. CASE Begin(w) /\ Answer(w, "canceled")
  BY <1>2, AnswersKeep DEF Begin, IsAt, Busy, Stages
<1>3. CASE Look(w) /\ Answer(w, "success")
  BY <1>3, AnswersKeep DEF Look, IsAt, Busy, Stages
<1>4. CASE SendFails(w)
  BY <1>4, AnswersKeep DEF SendFails, Busy, Stages
<1>5. CASE SendSucceeds(w) /\ Answer(w, "success")
  BY <1>5, AnswersKeep DEF SendSucceeds, IsAt, Busy, Stages
<1>6. CASE WriteFails(w)
  BY <1>6, AnswersKeep DEF WriteFails, Busy, Stages
<1>7. CASE Rename(w)
  BY <1>7, AnswersKeep DEF Rename, IsAt, Busy, Stages
<1>. QED
  BY <1>1, <1>2, <1>3, <1>4, <1>5, <1>6, <1>7
  DEF WorkerStep, Take, Rest, Begin, Look, SendSucceeds, OpenPart, Write

\* A promise is set once: by the thread that took its request, or by the
\* destructor for a request no thread took; std::promise would throw otherwise.
THEOREM AnsweredOnce == ClientSpec => PromisesSetOnce
<1>1. ClientInv /\ [ClientNext]_clientVars => Kept
  <2> SUFFICES ASSUME ClientInv, [ClientNext]_clientVars PROVE Kept
    OBVIOUS
  <2>1. CASE result' = result
    BY <2>1 DEF Kept
  <2>2. ASSUME NEW r \in Requests, NEW f \in Files \cup {NoFile}, Enqueue(r, f) PROVE Kept
    BY <2>2 DEF Enqueue, Kept, Settled, ClientInv, ClientTypeOK
  <2>3. CASE Join
    BY <2>3 DEF Join, Kept, Settled, ClientInv, RequestsAreSomewhere
  <2>4. CASE Crash
    BY <2>4 DEF Crash, Kept, Settled
  <2>5. ASSUME NEW w \in Workers, WorkerStep(w) PROVE Kept
    BY <2>5, WorkerKeeps
  <2>. QED
    BY <2>1, <2>2, <2>3, <2>4, <2>5
    DEF ClientNext, UserStops, Notify, Shutdown, StopWorker, SpuriousWakeup, clientVars
<1>. QED
  BY <1>1, ClientInvariant, PTL DEF PromisesSetOnce, ClientSpec, Kept, Settled

----------------------------------------------------------------------------
(* The files, when no two downloads of one destination are under way. *)

Opened == {"opened", "written"}

\* Nothing of this request is on the disk yet.
Fresh(r) ==
  \/ result[r] = "unsent"
  \/ r \in Range(queue)
  \/ \E w \in Workers : worker[w].at \in Stages \ Opened /\ worker[w].on = r

OneDownload ==
  \A r, s \in Requests :
    result[r] = "pending" /\ result[s] = "pending" /\ target[r] = target[s]
      /\ target[r] # NoFile => r = s

\* An inode is where its request wanted it and nowhere else.
InodesInPlace ==
  /\ content[Before] = "stale"
  /\ \A f \in Files :
       /\ path.part[f] # Before
       /\ \A i \in Requests : path.part[f] = i => target[i] = f /\ ~Fresh(i)
       /\ \A i \in Requests : path.at[f] = i =>
            target[i] = f /\ ~Fresh(i) /\ content[i] = "whole" /\ path.part[f] # i

\* A thread writes the file that has its temporary's name.
WritersOwnTheirs ==
  \A w \in Workers : worker[w].at \in Opened =>
    /\ worker[w].inode \in Requests
    /\ worker[w].inode = path.part[target[worker[w].on]]
    /\ worker[w].at = "written" => content[worker[w].inode] = "whole"

DoneIsRenamed ==
  \A r \in Requests :
    result[r] = "success" /\ target[r] # NoFile => path.at[target[r]] \in Requests

FileInv == OneDownload /\ InodesInPlace /\ WritersOwnTheirs /\ DoneIsRenamed

LEMMA FileInitInv == ClientInit => FileInv
<1> SUFFICES ASSUME ClientInit PROVE FileInv
  OBVIOUS
<1>1. PICK old \in [Files -> {NoFile, Before}] :
        path = [at |-> old, part |-> [f \in Files |-> NoFile]]
  BY DEF ClientInit
<1>2. \A f \in Files : path.part[f] = NoFile /\ path.at[f] \in {NoFile, Before}
  BY <1>1
<1>3. \A f \in Files : path.part[f] # Before /\ path.part[f] \notin Requests /\ path.at[f] \notin Requests
  BY <1>2, NamesDiffer
<1>4. content[Before] = "stale"
  BY DEF ClientInit, Inodes
<1>5. \A r \in Requests : result[r] = "unsent"
  BY DEF ClientInit
<1>6. \A w \in Workers : worker[w].at \notin Opened
  BY DEF ClientInit, Idle, Opened
<1>. QED
  BY <1>3, <1>4, <1>5, <1>6
  DEF FileInv, OneDownload, InodesInPlace, WritersOwnTheirs, DoneIsRenamed

\* Requests that end do not get in each other's way.
LEMMA FewerDownloads ==
  ASSUME FileInv, target' = target,
         \A r \in Requests : result'[r] = "pending" => result[r] = "pending"
  PROVE  OneDownload'
  BY DEF FileInv, OneDownload

\* A step that leaves the disk alone.
LEMMA DiskKept ==
  ASSUME ClientInv, FileInv, UNCHANGED << path, content >>, OneDownload',
         \A r \in Requests : result[r] # "unsent" => target'[r] = target[r],
         \A r \in Requests : Fresh(r)' => Fresh(r),
         \A v \in Workers : worker'[v].at \in Opened => worker'[v] = worker[v],
         \A r \in Requests : result'[r] = "success" /\ result[r] # "success" =>
           target'[r] = NoFile \/ path.at[target'[r]] \in Requests
  PROVE  FileInv'
<1>1. \A r \in Requests : ~Fresh(r) => target'[r] = target[r] /\ ~Fresh(r)'
  BY DEF Fresh
<1>2. InodesInPlace'
  BY <1>1 DEF FileInv, InodesInPlace
<1>3. \A v \in Workers : worker[v].at \in Opened =>
        worker[v].on \in Requests /\ result[worker[v].on] = "pending"
  BY DEF ClientInv, RequestsAreSomewhere, Busy, Opened, Stages
<1>4. WritersOwnTheirs'
  BY <1>3 DEF FileInv, WritersOwnTheirs
<1>5. DoneIsRenamed'
  BY DEF FileInv, DoneIsRenamed
<1>. QED
  BY <1>2, <1>4, <1>5 DEF FileInv

\* A thread that opens no file stays on the request it has, if it has one.
LEMMA ThreadKeepsDisk ==
  ASSUME ClientInv, FileInv, NEW w \in Workers,
         Rest(w) \/ Begin(w) \/ Look(w) \/ SendFails(w) \/ SendSucceeds(w)
  PROVE  FileInv'
<1>1. /\ UNCHANGED << path, content, target, queue >>
      /\ worker \in Threads
      /\ result \in [Requests -> {"unsent", "pending", "success", "canceled", "error", "lost"}]
  BY DEF Rest, Begin, Look, SendFails, SendSucceeds, calls, disk, ClientInv, ClientTypeOK, Threads
<1>2. worker[w].at \notin Opened
  BY DEF Rest, Begin, Look, SendFails, SendSucceeds, IsAt, Opened
<1>3. /\ \A v \in Workers \ {w} : worker'[v] = worker[v]
      /\ worker'[w].at \notin Opened
      /\ worker'[w].on = worker[w].on \/ worker'[w].on = NoRequest
  BY <1>1 DEF Rest, Begin, Look, SendFails, SendSucceeds, Goes, Send, Answer, Idle, Opened, Threads
<1>4. /\ \A r \in Requests : r # worker[w].on => result'[r] = result[r]
      /\ result' = result \/ (Busy(w) /\ result'[worker[w].on] \in {"success", "canceled", "error"})
  <2>1. CASE result' = result
    BY <2>1
  <2>2. CASE Busy(w) /\ \E a \in {"success", "canceled", "error"} : Answer(w, a)
    <3>1. worker[w].on \in Requests
      BY <2>2 DEF ClientInv, RequestsAreSomewhere
    <3>. QED
      BY <1>1, <2>2, <3>1 DEF Answer
  <2>. QED
    BY <2>1, <2>2
    DEF Rest, Begin, Look, SendFails, SendSucceeds, IsAt, Busy, Stages
<1>5. \A r \in Requests : result'[r] \in {"pending", "unsent"} => result[r] = result'[r]
  BY <1>4
<1>6. OneDownload'
  BY <1>1, <1>5, FewerDownloads
<1>7. ASSUME NEW r \in Requests, Fresh(r)' PROVE Fresh(r)
  <2>1. ASSUME NEW v \in Workers, worker'[v].at \in Stages \ Opened, worker'[v].on = r
        PROVE  worker[v].on = r /\ worker[v].at \in Stages \ Opened
    <3>1. worker[v].on = r
      BY <1>3, <2>1, NamesDiffer
    <3>2. Busy(v)
      BY <3>1, NamesDiffer DEF ClientInv, RequestsAreSomewhere
    <3>. QED
      BY <1>2, <1>3, <2>1, <3>1, <3>2 DEF Busy
  <2>. QED
    BY <1>1, <1>5, <1>7, <2>1 DEF Fresh
<1>8. ASSUME NEW r \in Requests, result'[r] = "success", result[r] # "success"
      PROVE  target'[r] = NoFile \/ path.at[target'[r]] \in Requests
  <2>1. r = worker[w].on /\ target'[r] = Destination(w)
    BY <1>1, <1>4, <1>8 DEF Destination
  <2>2. Destination(w) \in Files \cup {NoFile} /\ worker[w].on \in Requests
    BY <2>1 DEF ClientInv, ClientTypeOK, Destination
  <2>3. CASE Destination(w) = NoFile
    BY <2>1, <2>3
  <2>4. CASE Look(w) /\ ContentAt(Destination(w)) = "whole" /\ Destination(w) # NoFile
    <3>1. /\ path.at[Destination(w)] # NoFile
          /\ content[path.at[Destination(w)]] = "whole"
      BY <2>4 DEF ContentAt
    <3>2. path.at[Destination(w)] \in Requests
      BY <2>2, <2>4, <3>1
      DEF FileInv, InodesInPlace, ClientInv, ClientTypeOK, Inodes
    <3>. QED
      BY <2>1, <3>2
  <2>5. Look(w) \/ SendSucceeds(w)
    BY <1>1, <1>8, <2>1 DEF Rest, Begin, SendFails, Answer
  <2>6. CASE Look(w) /\ ContentAt(Destination(w)) # "whole"
    BY <1>8, <2>6 DEF Look
  <2>7. CASE SendSucceeds(w) /\ Destination(w) # NoFile
    BY <1>8, <2>7 DEF SendSucceeds
  <2>. QED
    BY <2>3, <2>4, <2>5, <2>6, <2>7
<1>. QED
  BY <1>1, <1>3, <1>6, <1>7, <1>8, DiskKept

LEMMA TakeKeepsDisk ==
  ASSUME ClientInv, FileInv, NEW w \in Workers, Take(w) PROVE FileInv'
<1> DEFINE r == Head(queue)
<1>1. /\ UNCHANGED << path, content, target, result >>
      /\ worker' = [worker EXCEPT ![w] = [Idle EXCEPT !.at = "taken", !.on = r]]
  BY DEF Take, calls, disk
<1>2. r \in Requests /\ Range(queue) = Range(queue') \cup {r}
  BY PoppedFront DEF Take, Popped, ClientInv, ClientTypeOK, RequestsAreSomewhere
<1> HIDE DEF r
<1>3. /\ worker'[w].at = "taken" /\ worker'[w].on = r
      /\ \A v \in Workers \ {w} : worker'[v] = worker[v]
  BY <1>1 DEF Idle, ClientInv, ClientTypeOK
<1>4. \A x \in Requests : Fresh(x)' => Fresh(x)
  BY <1>1, <1>2, <1>3 DEF Fresh
<1>5. OneDownload'
  BY <1>1, FewerDownloads
<1>6. \A v \in Workers : worker'[v].at \in Opened => worker'[v] = worker[v]
  BY <1>3 DEF Opened
<1>. QED
  BY <1>1, <1>4, <1>5, <1>6, DiskKept

LEMMA EnqueueKeepsDisk ==
  ASSUME ClientInv, FileInv, ~ShareDestinations,
         NEW r \in Requests, NEW f \in Files \cup {NoFile}, Enqueue(r, f)
  PROVE  FileInv'
<1>1. /\ UNCHANGED << path, content, worker >>
      /\ result[r] = "unsent" /\ result'[r] = "pending" /\ target'[r] = f
      /\ \A s \in Requests : s # r => result'[s] = result[s] /\ target'[s] = target[s]
      /\ f # NoFile => \A s \in Requests : target[s] = f => result[s] # "pending"
  BY DEF Enqueue, UnderWay, disk, ClientInv, ClientTypeOK
<1>2. Range(queue') = Range(queue) \cup {r}
  <2>1. r \notin Range(queue)
    BY <1>1 DEF ClientInv, RequestsAreSomewhere
  <2>. QED
    BY <2>1, Appended DEF Enqueue, ClientInv, ClientTypeOK, RequestsAreSomewhere
<1>3. OneDownload'
  BY <1>1 DEF FileInv, OneDownload
<1>4. \A s \in Requests : Fresh(s)' => Fresh(s)
  BY <1>1, <1>2 DEF Fresh
<1>. QED
  BY <1>1, <1>3, <1>4, DiskKept

LEMMA EndsKeepDisk ==
  ASSUME ClientInv, FileInv,
         \/ Notify \/ Shutdown \/ Join \/ Crash
         \/ \E w \in Workers : StopWorker(w) \/ SpuriousWakeup(w)
         \/ \E r \in Requests : UserStops(r)
  PROVE  FileInv'
<1>1. UNCHANGED << path, content, target >> /\ worker \in Threads
  BY DEF Notify, Shutdown, Join, Crash, StopWorker, SpuriousWakeup, UserStops, calls, disk,
     ClientInv, ClientTypeOK, Threads
<1>2. queue' = queue \/ Range(queue') = {}
  BY EmptyQueue DEF Notify, Shutdown, Join, Crash, StopWorker, SpuriousWakeup, UserStops
<1>3. \A v \in Workers : worker'[v] = worker[v] \/ worker'[v] = Idle
  BY <1>1 DEF Notify, Shutdown, Join, Crash, StopWorker, SpuriousWakeup, UserStops,
     calls, Woken, Threads
<1>4. \A r \in Requests : result'[r] # result[r] =>
        result[r] = "pending" /\ result'[r] \in {"canceled", "lost"}
  BY DEF Notify, Shutdown, Join, Crash, StopWorker, SpuriousWakeup, UserStops,
     ClientInv, RequestsAreSomewhere
<1>5. OneDownload'
  BY <1>1, <1>4, FewerDownloads
<1>6. \A r \in Requests : Fresh(r)' => Fresh(r)
  BY <1>2, <1>3, <1>4, NamesDiffer DEF Fresh, Idle, Stages
<1>7. \A v \in Workers : worker'[v].at \in Opened => worker'[v] = worker[v]
  BY <1>3 DEF Opened, Idle
<1>. QED
  BY <1>1, <1>4, <1>5, <1>6, <1>7, DiskKept

\* What is known of a thread that is about to open, write or rename its file.
LEMMA Writers ==
  ASSUME ClientInv, FileInv, NEW w \in Workers,
         worker[w].at \in {"received", "opened", "written"}
  PROVE  /\ worker[w].on \in Requests /\ result[worker[w].on] = "pending"
         /\ worker[w].on \notin Range(queue) /\ target[worker[w].on] \in Files
         /\ worker \in Threads /\ path \in Paths /\ content \in [Inodes -> Contents]
         /\ \A v \in Workers \ {w} : worker[v].on # worker[w].on
         /\ \A v \in Workers \ {w} : worker[v].at \in Opened =>
              /\ target[worker[v].on] \in Files
              /\ target[worker[v].on] # target[worker[w].on]
<1>1. /\ worker[w].on \in Requests /\ result[worker[w].on] = "pending" /\ Busy(w)
      /\ target[worker[w].on] # NoFile /\ worker[w].on \notin Range(queue)
  BY DEF ClientInv, RequestsAreSomewhere, DownloadsHaveDestinations, Downloads,
     ClientTypeOK, Busy, Stages
<1>2. /\ worker \in Threads /\ path \in Paths /\ content \in [Inodes -> Contents]
      /\ target \in [Requests -> Files \cup {NoFile}]
  BY DEF ClientInv, ClientTypeOK, Threads, Paths
<1>3. \A v \in Workers \ {w} : worker[v].on # worker[w].on
  BY <1>1 DEF ClientInv, RequestsAreSomewhere
<1>4. ASSUME NEW v \in Workers \ {w}, worker[v].at \in Opened
      PROVE  target[worker[v].on] \in Files /\ target[worker[v].on] # target[worker[w].on]
  <2>1. /\ worker[v].on \in Requests /\ result[worker[v].on] = "pending"
        /\ target[worker[v].on] # NoFile
    BY <1>4 DEF ClientInv, RequestsAreSomewhere, DownloadsHaveDestinations, Downloads,
       Busy, Stages, Opened
  <2>. QED
    BY <1>1, <1>2, <1>3, <2>1 DEF FileInv, OneDownload
<1>. QED
  BY <1>1, <1>2, <1>3, <1>4

LEMMA OpenPartKeepsFiles ==
  ASSUME ClientInv, FileInv, NEW w \in Workers, OpenPart(w) PROVE FileInv'
<1>0. PICK r, f, inode :
        /\ r = worker[w].on /\ f = target[r]
        /\ inode = IF path.part[f] = NoFile THEN r ELSE path.part[f]
  OBVIOUS
<1>1. /\ path' = [path EXCEPT !.part[f] = inode]
      /\ content' = [content EXCEPT ![inode] = "partial"]
      /\ worker' = [worker EXCEPT ![w].at = "opened", ![w].inode = inode]
      /\ UNCHANGED << queue, target, result >> /\ worker[w].at = "received"
  BY <1>0 DEF OpenPart, WrittenAt, Destination, IsAt
<1>2. /\ r \in Requests /\ result[r] = "pending" /\ r \notin Range(queue) /\ f \in Files
      /\ worker \in Threads /\ path \in Paths /\ content \in [Inodes -> Contents]
      /\ \A v \in Workers \ {w} : worker[v].on # r
      /\ \A v \in Workers \ {w} : worker[v].at \in Opened =>
           target[worker[v].on] \in Files /\ target[worker[v].on] # f
  BY <1>0, <1>1, Writers
<1>3. Fresh(r)
  BY <1>0, <1>1 DEF Fresh, Stages, Opened
<1>4. /\ inode \in Requests /\ target[inode] = f
      /\ inode # r => ~Fresh(inode) /\ inode = path.part[f]
      /\ \A g \in Files : path.at[g] # inode
      /\ \A g \in Files \ {f} : path.part[g] # inode
  BY <1>0, <1>2, <1>3 DEF FileInv, InodesInPlace, Paths, Inodes
<1>5. /\ path'.at = path.at /\ path'.part[f] = inode
      /\ \A g \in Files \ {f} : path'.part[g] = path.part[g]
  BY <1>1, <1>2 DEF Paths
<1>6. \A i \in Inodes : i # inode => content'[i] = content[i]
  BY <1>1, <1>2
<1>7. /\ worker'[w].at = "opened" /\ worker'[w].inode = inode /\ worker'[w].on = r
      /\ \A v \in Workers \ {w} : worker'[v] = worker[v]
  BY <1>0, <1>1, <1>2 DEF Threads
<1>8. \A x \in Requests : Fresh(x)' => Fresh(x) /\ x # r
  BY <1>1, <1>2, <1>7 DEF Fresh, Opened
<1>9. inode \in Requests /\ ~Fresh(inode)'
  BY <1>4, <1>8
<1>10. InodesInPlace'
  <2>1. content'[Before] = "stale"
    BY <1>4, <1>6, NamesDiffer DEF Inodes, FileInv, InodesInPlace
  <2>2. ASSUME NEW g \in Files
        PROVE  /\ path'.part[g] # Before
               /\ \A i \in Requests : path'.part[g] = i => target'[i] = g /\ ~Fresh(i)'
    <3>1. CASE g = f
      BY <1>1, <1>4, <1>5, <1>9, <3>1, NamesDiffer
    <3>2. CASE g # f
      BY <1>1, <1>5, <1>8, <3>2 DEF FileInv, InodesInPlace
    <3>. QED
      BY <3>1, <3>2
  <2>3. ASSUME NEW g \in Files, NEW i \in Requests, path'.at[g] = i
        PROVE  target'[i] = g /\ ~Fresh(i)' /\ content'[i] = "whole" /\ path'.part[g] # i
    <3>1. path.at[g] = i /\ i # inode
      BY <1>4, <1>5, <2>3
    <3>2. content'[i] = content[i]
      BY <1>6, <3>1 DEF Inodes
    <3>. QED
      BY <1>1, <1>4, <1>5, <1>8, <3>1, <3>2 DEF FileInv, InodesInPlace
  <2>. QED
    BY <2>1, <2>2, <2>3 DEF InodesInPlace
<1>11. WritersOwnTheirs'
  <2>1. ASSUME NEW v \in Workers \ {w}, worker[v].at \in Opened
        PROVE  /\ worker[v].inode \in Requests
               /\ worker[v].inode = path'.part[target[worker[v].on]]
               /\ worker[v].at = "written" => content'[worker[v].inode] = "whole"
    <3>1. /\ worker[v].inode = path.part[target[worker[v].on]]
          /\ target[worker[v].on] \in Files \ {f}
          /\ worker[v].inode \in Requests
      BY <1>2, <2>1 DEF FileInv, WritersOwnTheirs
    <3>2. worker[v].inode # inode
      BY <1>4, <3>1
    <3>. QED
      BY <1>5, <1>6, <2>1, <3>1, <3>2 DEF FileInv, WritersOwnTheirs, Inodes
  <2>2. /\ worker'[w].inode \in Requests
        /\ worker'[w].inode = path'.part[target'[worker'[w].on]]
        /\ worker'[w].at # "written"
    BY <1>0, <1>1, <1>4, <1>5, <1>7
  <2>3. ASSUME NEW v \in Workers, worker'[v].at \in Opened
        PROVE  /\ worker'[v].inode \in Requests
               /\ worker'[v].inode = path'.part[target'[worker'[v].on]]
               /\ worker'[v].at = "written" => content'[worker'[v].inode] = "whole"
    <3>1. CASE v = w
      BY <2>2, <3>1
    <3>2. CASE v # w
      <4>1. worker'[v] = worker[v] /\ target' = target
        BY <1>1, <1>7, <3>2
      <4>2. v \in Workers \ {w} /\ worker[v].at \in Opened
        BY <2>3, <3>2, <4>1
      <4>. QED
        BY <2>1, <4>1, <4>2
    <3>. QED
      BY <3>1, <3>2
  <2>. QED
    BY <2>3 DEF WritersOwnTheirs
<1>12. OneDownload'
  BY <1>1, FewerDownloads
<1>13. DoneIsRenamed'
  BY <1>1, <1>5 DEF FileInv, DoneIsRenamed
<1>. QED
  BY <1>10, <1>11, <1>12, <1>13 DEF FileInv

LEMMA WriteKeepsFiles ==
  ASSUME ClientInv, FileInv, NEW w \in Workers, Write(w) PROVE FileInv'
<1> DEFINE inode == worker[w].inode
<1>1. /\ UNCHANGED << path, queue, target, result >> /\ worker[w].at = "opened"
      /\ content' = [content EXCEPT ![inode] = "whole"]
      /\ worker' = [worker EXCEPT ![w].at = "written"]
  BY DEF Write, Goes, IsAt
<1>2. worker \in Threads /\ content \in [Inodes -> Contents]
  BY <1>1, Writers
<1>3. inode \in Requests /\ inode = path.part[target[worker[w].on]]
  BY <1>1 DEF FileInv, WritersOwnTheirs, Opened
<1> HIDE DEF inode
<1>4. /\ content'[Before] = content[Before]
      /\ \A i \in Requests : content'[i] = content[i] \/ content'[i] = "whole"
      /\ content'[inode] = "whole"
  BY <1>1, <1>2, <1>3, NamesDiffer DEF Inodes
<1>5. /\ worker'[w].at = "written" /\ worker'[w].on = worker[w].on
      /\ worker'[w].inode = inode
      /\ \A v \in Workers \ {w} : worker'[v] = worker[v]
  BY <1>1, <1>2 DEF Threads, inode
<1>6. \A x \in Requests : Fresh(x)' => Fresh(x)
  BY <1>1, <1>5 DEF Fresh, Opened
<1>7. InodesInPlace'
  BY <1>1, <1>4, <1>6 DEF FileInv, InodesInPlace
<1>8. WritersOwnTheirs'
  BY <1>1, <1>3, <1>4, <1>5 DEF FileInv, WritersOwnTheirs
<1>9. OneDownload'
  BY <1>1, FewerDownloads
<1>10. DoneIsRenamed'
  BY <1>1 DEF FileInv, DoneIsRenamed
<1>. QED
  BY <1>7, <1>8, <1>9, <1>10 DEF FileInv

\* A thread is through with its temporary: it is renamed or removed.
LEMMA PartGoes ==
  ASSUME ClientInv, FileInv, NEW w \in Workers,
         worker[w].at \in {"received", "opened", "written"},
         UNCHANGED << content, queue, target >>, path' \in Paths,
         NEW answer \in {"success", "error"}, Answer(w, answer),
         \A g \in Files : g # target[worker[w].on] =>
           path'.part[g] = path.part[g] /\ path'.at[g] = path.at[g],
         path'.part[target[worker[w].on]] \in {path.part[target[worker[w].on]], NoFile},
         \/ path'.at[target[worker[w].on]] = path.at[target[worker[w].on]] /\ answer = "error"
         \/ /\ worker[w].at = "written"
            /\ path'.part[target[worker[w].on]] = NoFile
            /\ path'.at[target[worker[w].on]] = path.part[target[worker[w].on]]
  PROVE  FileInv'
<1> DEFINE r == worker[w].on
           f == target[r]
<1>1. /\ r \in Requests /\ result[r] = "pending" /\ r \notin Range(queue) /\ f \in Files
      /\ worker \in Threads
      /\ \A v \in Workers \ {w} : worker[v].on # r
      /\ \A v \in Workers \ {w} : worker[v].at \in Opened =>
           target[worker[v].on] \in Files /\ target[worker[v].on] # f
  BY Writers
<1>2. /\ worker'[w] = Idle /\ \A v \in Workers \ {w} : worker'[v] = worker[v]
      /\ result'[r] = answer /\ \A x \in Requests \ {r} : result'[x] = result[x]
  BY <1>1 DEF Answer, Threads, ClientInv, ClientTypeOK
<1>3. /\ \A g \in Files \ {f} : path'.part[g] = path.part[g] /\ path'.at[g] = path.at[g]
      /\ path'.part[f] \in {path.part[f], NoFile}
      /\ \/ path'.at[f] = path.at[f] /\ answer = "error"
         \/ /\ worker[w].at = "written"
            /\ path'.part[f] = NoFile /\ path'.at[f] = path.part[f]
  OBVIOUS
<1>4. worker[w].at = "written" =>
        path.part[f] \in Requests /\ content[path.part[f]] = "whole"
  BY DEF FileInv, WritersOwnTheirs, Opened
<1>5. NoFile \notin Requests /\ NoFile # Before
  BY NamesDiffer
<1> HIDE DEF r, f
<1>6. \A x \in Requests : Fresh(x)' => Fresh(x)
  BY <1>1, <1>2 DEF Fresh, Idle, Stages
<1>7. InodesInPlace'
  <2>1. ASSUME NEW g \in Files
        PROVE  /\ path'.part[g] # Before
               /\ \A i \in Requests : path'.part[g] = i => target[i] = g /\ ~Fresh(i)'
    BY <1>3, <1>5, <1>6 DEF FileInv, InodesInPlace
  <2>2. ASSUME NEW g \in Files, NEW i \in Requests, path'.at[g] = i
        PROVE  target[i] = g /\ ~Fresh(i)' /\ content[i] = "whole" /\ path'.part[g] # i
    <3>1. CASE path'.at[g] = path.at[g]
      BY <1>3, <1>5, <1>6, <2>2, <3>1 DEF FileInv, InodesInPlace
    <3>2. CASE path'.at[g] # path.at[g]
      BY <1>3, <1>4, <1>5, <1>6, <2>2, <3>2 DEF FileInv, InodesInPlace
    <3>. QED
      BY <3>1, <3>2
  <2>3. content' = content /\ target' = target
    OBVIOUS
  <2>. QED
    BY <2>1, <2>2, <2>3 DEF FileInv, InodesInPlace
<1>8. WritersOwnTheirs'
  <2>1. worker'[w].at \notin Opened
    BY <1>2 DEF Idle, Opened
  <2>. QED
    BY <1>1, <1>2, <1>3, <2>1 DEF FileInv, WritersOwnTheirs
<1>9. OneDownload'
  BY <1>2, FewerDownloads
<1>10. DoneIsRenamed'
  <2>1. ASSUME NEW x \in Requests, result'[x] = "success", target[x] # NoFile
        PROVE  path'.at[target[x]] \in Requests
    <3>1. CASE x = r
      BY <1>2, <1>3, <1>4, <2>1, <3>1 DEF f
    <3>2. CASE x # r
      <4>1. path.at[target[x]] \in Requests /\ target[x] \in Files
        BY <1>2, <2>1, <3>2 DEF FileInv, DoneIsRenamed, ClientInv, ClientTypeOK
      <4>. QED
        BY <1>3, <1>4, <4>1
    <3>. QED
      BY <3>1, <3>2
  <2>. QED
    BY <2>1 DEF DoneIsRenamed
<1>. QED
  BY <1>7, <1>8, <1>9, <1>10 DEF FileInv

LEMMA WriteFailsKeepsFiles ==
  ASSUME ClientInv, FileInv, NEW w \in Workers, WriteFails(w) PROVE FileInv'
<1>1. /\ worker[w].at \in {"received", "opened", "written"} /\ Answer(w, "error")
      /\ UNCHANGED << content, queue, target >>
  BY DEF WriteFails
<1>2. path \in Paths /\ target[worker[w].on] \in Files
  BY <1>1, Writers
<1>3. /\ path' \in Paths
      /\ path'.at = path.at
      /\ \A g \in Files : g # target[worker[w].on] => path'.part[g] = path.part[g]
      /\ path'.part[target[worker[w].on]] \in {path.part[target[worker[w].on]], NoFile}
  BY <1>2 DEF WriteFails, Destination, Paths
<1>. QED
  BY <1>1, <1>3, PartGoes

LEMMA RenameKeepsFiles ==
  ASSUME ClientInv, FileInv, NEW w \in Workers, Rename(w) PROVE FileInv'
<1>1. /\ worker[w].at = "written" /\ Answer(w, "success")
      /\ UNCHANGED << content, queue, target >>
  BY DEF Rename, IsAt
<1>2. path \in Paths /\ target[worker[w].on] \in Files
  BY <1>1, Writers
<1>3. /\ path' \in Paths
      /\ \A g \in Files : g # target[worker[w].on] =>
           path'.part[g] = path.part[g] /\ path'.at[g] = path.at[g]
      /\ path'.part[target[worker[w].on]] = NoFile
      /\ path'.at[target[worker[w].on]] = path.part[target[worker[w].on]]
  BY <1>2 DEF Rename, RenamedOver, Destination, Paths
<1>. QED
  BY <1>1, <1>3, PartGoes

LEMMA FileStepInv ==
  ~ShareDestinations /\ ClientInv /\ FileInv /\ [ClientNext]_clientVars => FileInv'
<1> SUFFICES ASSUME ~ShareDestinations, ClientInv, FileInv, [ClientNext]_clientVars
             PROVE  FileInv'
  OBVIOUS
<1>1. CASE UNCHANGED clientVars
  BY <1>1 DEF clientVars, FileInv, OneDownload, InodesInPlace, WritersOwnTheirs,
     DoneIsRenamed, Fresh
<1>2. ASSUME NEW r \in Requests, NEW f \in Files \cup {NoFile}, Enqueue(r, f) PROVE FileInv'
  BY <1>2, EnqueueKeepsDisk
<1>3. CASE \/ Notify \/ Shutdown \/ Join \/ Crash
           \/ \E w \in Workers : StopWorker(w) \/ SpuriousWakeup(w)
           \/ \E r \in Requests : UserStops(r)
  BY <1>3, EndsKeepDisk
<1>4. ASSUME NEW w \in Workers, WorkerStep(w) PROVE FileInv'
  BY <1>4, TakeKeepsDisk, ThreadKeepsDisk, OpenPartKeepsFiles, WriteKeepsFiles,
     WriteFailsKeepsFiles, RenameKeepsFiles DEF WorkerStep
<1>. QED
  BY <1>1, <1>2, <1>3, <1>4 DEF ClientNext

(* Readers of a destination see the whole file or none of it, and what was    *)
(* reported done stays there: get_file_async() writes next to its destination *)
(* and renames.  It takes downloads of one destination that do not overlap.   *)
THEOREM DoneStaysThere ==
  ASSUME ~ShareDestinations
  PROVE  ClientSpec => []DoneIsThere
<1>1. ClientInv /\ FileInv => DoneIsThere
  <2> SUFFICES ASSUME ClientInv, FileInv PROVE DoneIsThere
    OBVIOUS
  <2>1. ASSUME NEW f \in Files, path.at[f] # NoFile
        PROVE  path.at[f] = Before \/ path.at[f] \in Requests
    BY <2>1 DEF ClientInv, ClientTypeOK, Inodes
  <2>2. WholeFileOrNone
    BY <2>1 DEF WholeFileOrNone, ContentAt, FileInv, InodesInPlace
  <2>3. ASSUME NEW r \in Requests, result[r] = "success", target[r] # NoFile
        PROVE  ContentAt(target[r]) = "whole"
    <3>1. target[r] \in Files /\ path.at[target[r]] \in Requests
      BY <2>3 DEF FileInv, DoneIsRenamed, ClientInv, ClientTypeOK
    <3>. QED
      BY <3>1, NamesDiffer DEF ContentAt, FileInv, InodesInPlace
  <2>. QED
    BY <2>2, <2>3 DEF DoneIsThere
<1>2. ClientInv /\ FileInv /\ [ClientNext]_clientVars => FileInv'
  BY FileStepInv
<1>3. ClientSpec => []FileInv
  BY <1>2, ClientInvariant, FileInitInv, PTL DEF ClientSpec
<1>. QED
  BY <1>1, <1>3, ClientInvariant, PTL

-----------------------------------------------------------------------------
(* The benchmark.                                                           *)

(* A run is under way: its case has been started and has not ended.          *)
Running == stage \in {"draw", "end"} \/ run # None

(* The plan is that of options which create() accepts.                      *)
PlanKept ==
  /\ options \in OptionSets /\ options.frames > 0 /\ options.repeats > 0
  /\ plan = IF options.mode = "single" THEN << [scenario |-> 1, load |-> 0, repeat |-> 1] >>
            ELSE PlanOf(options)
  /\ Suite => Levels(options) # << >>

(* There is a case to run until the benchmark is over.                      *)
CaseKept ==
  /\ caseIndex \in 1 .. Len(plan) + 1
  /\ stage \in {"begin", "draw", "end", "finished", "failed"}
  /\ stage = "begin" \/ Running => caseIndex <= Len(plan)
  /\ {recorded, lastSerial, scale} \subseteq Nat /\ lastSerial <= recorded
  /\ stage \in {"begin", "draw"} => lastSerial = recorded

(* The scene is the case's, and its materials are owned while they draw.    *)
WorldKept ==
  /\ world = [of |-> world.of, game |-> world.game, extra |-> world.extra, draws |-> world.draws]
  /\ world.of \in Nat /\ world.extra \in BOOLEAN
  /\ Running => world.of = caseIndex
  /\ ~Suite => world.of = 1
  /\ world.draws \subseteq owned \cap DOMAIN plan
  /\ inFlight \subseteq [serial : 1 .. recorded, draws : SUBSET (owned \cap DOMAIN plan)]
  /\ download \in {"running", "arrived", "kept", "failed", "lost"}

(* What the slots hold is of the last frames they had.                       *)
QueryKept(s) ==
  IF queries[s] = None THEN profiled[s] = None
  ELSE /\ queries[s] = [serial |-> queries[s].serial, shows |-> profiled[s], passes |-> None]
       /\ queries[s].serial \in 1 .. recorded /\ (queries[s].serial - 1) % FramesInFlight = s

(* What was read back is of a frame that was recorded.                      *)
GpuKept ==
  /\ DOMAIN queries = Slots /\ DOMAIN profiled = Slots
  /\ \A s \in Slots : QueryKept(s)
  /\ timings # None =>
       /\ timings = [serial |-> timings.serial, shows |-> timings.shows, passes |-> timings.passes]
       /\ timings.serial \in 1 .. recorded /\ timings.passes \in {None, timings.shows}

(* The frame that was just drawn is in its slot, and no timings are of it.   *)
FrameKept ==
  stage = "end" /\ recorded # lastSerial =>
    /\ \E e : queries[(recorded - 1) % FramesInFlight] =
               [serial |-> recorded, passes |-> None,
                shows |-> [of |-> caseIndex, place |-> PlaceOf(run), scale |-> scale, extra |-> e]]
    /\ timings # None => timings.serial < recorded

(* Frames with the number of a row show what the row shows.                  *)
RowsKnown(rows, last) ==
  /\ rows \in Seq(Range(rows))
  /\ \A i \in DOMAIN rows :
       /\ rows[i] = [serial |-> rows[i].serial, gpu |-> rows[i].gpu, passes |-> rows[i].passes,
                     shows |-> rows[i].shows]
       /\ rows[i].serial \in 0 .. last
       /\ \A x \in {timings} \cup Range(queries) :
            x # None /\ x.serial = rows[i].serial => x.shows = rows[i].shows

(* The lap is not over while it measures, and is over when it drains.       *)
Lapping(phase, rows) ==
  \/ phase = "warmup" /\ rows = << >>
  \/ phase = "measuring" /\ Len(rows) < options.frames
  \/ phase = "draining" /\ Len(rows) = options.frames

(* The run under way is the case's, which has set the renderer's extent.    *)
RunKept ==
  Running =>
    /\ run = [phase |-> run.phase, least |-> run.least, most |-> run.most, warmed |-> run.warmed,
              settled |-> run.settled, drained |-> run.drained, lastGpu |-> run.lastGpu,
              rows |-> run.rows]
    /\ Lapping(run.phase, run.rows)
    /\ run.phase # "warmup" => scale = ScaleOf(caseIndex)
    /\ RowsAreTheirFrames(caseIndex, run.rows) /\ RowsKnown(run.rows, lastSerial)

(* Cases that ended have their results, and files are of such cases.        *)
ResultsKept ==
  /\ results \in Seq(Range(results)) /\ Len(results) = caseIndex - 1
  /\ \A c \in DOMAIN results :
       /\ results[c].case = c /\ Len(results[c].rows) = options.frames
       /\ RowsAreTheirFrames(c, results[c].rows)
  /\ \A file \in DOMAIN frames : \E c \in DOMAIN results : file = StemOf(c) /\ frames[file] = c

(* The reports, once written, are on all cases.                             *)
ReportsKept ==
  reports # None =>
    /\ Suite /\ DOMAIN reports.json.cases = DOMAIN plan
    /\ reports = [json |-> SuiteJson(reports.json.cases), report |-> SuiteReport(reports.json.cases)]

BenchmarkInv ==
  /\ PlanKept /\ CaseKept /\ WorldKept /\ GpuKept /\ FrameKept /\ RunKept
  /\ ResultsKept /\ ReportsKept

-----------------------------------------------------------------------------
(* The plan.                                                                *)

LevelsStep(asked, levels, i) == levels \o LevelsOf(asked, i)
Planning == INSTANCE FoldFacts WITH Step <- LevelsStep

(* A level of the plan is a scenario at a load.                             *)
LoadLevels == [scenario : DOMAIN Scenarios, load : Nat]

(* The loads of a scenario are a list of counts.                            *)
LEMMA LoadsFacts ==
  ASSUME NEW asked \in OptionSets, NEW i \in DOMAIN Scenarios
  PROVE  LoadsOf(Scenarios[i], asked) \in Seq(Nat)
<1> DEFINE s == Scenarios[i]
<1>1. /\ s.defaultLoads \in Seq(Nat)
      /\ \A name \in DOMAIN asked.sweeps : asked.sweeps[name] \in Seq(Nat)
  BY BenchmarkAssumption
<1>2. << 0 >> \in Seq(Nat)
  OBVIOUS
<1>3. PICK loads : loads = IF s.name \in DOMAIN asked.sweeps THEN asked.sweeps[s.name]
                           ELSE s.defaultLoads
  OBVIOUS
<1>4. loads \in Seq(Nat)
  BY <1>1, <1>3, Zenon
<1>5. LoadsOf(s, asked) = IF s.axis = None \/ loads = << >> THEN << 0 >> ELSE loads
  BY <1>3 DEF LoadsOf
<1> QED
  BY <1>2, <1>4, <1>5, Zenon

(* The levels are a list, which the loop over the scenarios extends.        *)
LEMMA LevelsFacts ==
  ASSUME NEW asked \in OptionSets
  PROVE  Levels(asked) \in Seq(LoadLevels)
<1> DEFINE T == LoadLevels
           n == Len(Scenarios)
           s == [ i \in DOMAIN Scenarios |-> i ]
           I == { x \in (0 .. n) \X Seq(T) : TRUE }
<1>1. n \in Nat /\ DOMAIN s = 1 .. n /\ \A i \in 1 .. n : s[i] = i /\ i \in DOMAIN Scenarios
  BY BenchmarkAssumption
<1>2. << 0, << >> >> \in I
  <2> HIDE DEF T, n
  <2>1. << >> \in Seq(T) /\ 0 \in 0 .. n
    BY <1>1
  <2> QED
    BY <2>1
<1>3. ASSUME NEW i \in DOMAIN Scenarios
      PROVE  LevelsOf(asked, i) \in Seq(T)
  <2>1. PICK loads : loads = LoadsOf(Scenarios[i], asked)
    OBVIOUS
  <2>2. loads \in Seq(Nat)
    BY <2>1, LoadsFacts
  <2>3. PICK q : q = LevelsOf(asked, i)
    OBVIOUS
  <2>4. q = << >> \/ q = [k \in DOMAIN loads |-> [scenario |-> i, load |-> loads[k]]]
    BY <2>1, <2>3 DEF LevelsOf
  <2>6. q \in Seq(T)
    <3>1. CASE q = << >>
      BY <3>1
    <3>2. CASE q = [k \in DOMAIN loads |-> [scenario |-> i, load |-> loads[k]]]
      <4>1. DOMAIN q = 1 .. Len(loads) /\ Len(loads) \in Nat
        BY <2>2, <3>2
      <4>2. q = [k \in 1 .. Len(loads) |-> q[k]]
        BY <3>2, <4>1
      <4>3. ASSUME NEW k \in 1 .. Len(loads) PROVE q[k] \in T
        <5>1. PICK l \in Nat : l = loads[k]
          BY <2>2
        <5>2. q[k] = [scenario |-> i, load |-> l]
          BY <3>2, <4>1, <5>1
        <5> QED
          BY <5>1, <5>2 DEF LoadLevels
      <4> HIDE DEF T
      <4>4. q \in [1 .. Len(loads) -> T]
        BY <2>2, <4>1, <4>2, <4>3
      <4> QED
        BY <4>1, <4>4
    <3> QED
      BY <2>4, <3>1, <3>2
  <2> QED
    BY <2>3, <2>6
<1>4. ASSUME NEW i \in 1 .. n, NEW x, << i - 1, x >> \in I
      PROVE  << i, LevelsStep(asked, x, s[i]) >> \in I
  <2>1. s[i] = i /\ i \in DOMAIN Scenarios /\ i \in 0 .. n
    BY <1>1
  <2>2. x \in Seq(T)
    BY <1>4
  <2>3. LevelsOf(asked, i) \in Seq(T)
    BY <1>3, <2>1
  <2> HIDE DEF T, s, n
  <2>4. x \o LevelsOf(asked, i) \in Seq(T)
    BY <2>2, <2>3
  <2> QED
    BY <2>1, <2>4 DEF LevelsStep
<1> HIDE DEF I, s, n, T
<1>5. << n, Planning!Run(asked, << >>, s) >> \in I
  BY <1>1, <1>2, <1>4, Planning!RunKeeps
<1>6. Planning!Run(asked, << >>, s) = Levels(asked)
  BY Zenon DEF s, Planning!Run, Levels, LevelsStep, FoldLeft, Planning!FoldLeft, MapThenFoldSet,
               Planning!MapThenFoldSet, Max, Planning!Max
<1> QED
  BY <1>5, <1>6 DEF I, T

(* Case c is the k-th of its round r.                                       *)
LEMMA RoundsAndPlaces ==
  ASSUME NEW n \in Nat \ {0}, NEW R \in Nat, NEW c \in 1 .. R * n
  PROVE  \E r \in 1 .. R, k \in 1 .. n :
           /\ c = (r - 1) * n + k
           /\ (c - 1) \div n + 1 = r /\ ((c - 1) % n) + 1 = k
<1> DEFINE q == (c - 1) \div n
           m == (c - 1) % n
<1>0. R * n \in Nat /\ c \in Nat /\ c >= 1 /\ c <= R * n
  OBVIOUS
<1>1. q \in Int /\ m \in 0 .. n - 1 /\ c - 1 = q * n + m
  BY <1>0
<1>2. q >= 0
  <2>1. SUFFICES ASSUME q <= -1 PROVE FALSE
    BY <1>1
  <2>2. q * n <= (-1) * n
    BY <1>1, <2>1
  <2> QED
    BY <1>0, <1>1, <2>2
<1>3. q <= R - 1
  <2>1. SUFFICES ASSUME q >= R PROVE FALSE
    BY <1>1
  <2>2. q * n >= R * n
    BY <1>1, <2>1
  <2> QED
    BY <1>0, <1>1, <2>2
<1> HIDE DEF q, m
<1>4. q + 1 \in 1 .. R /\ m + 1 \in 1 .. n /\ (q + 1) - 1 = q
  BY <1>1, <1>2, <1>3
<1>5. c = q * n + (m + 1)
  BY <1>0, <1>1
<1> QED
  BY <1>4, <1>5 DEF q, m

LEMMA PlaceInRound ==
  ASSUME NEW n \in Nat \ {0}, NEW R \in Nat, NEW r \in 1 .. R, NEW k \in 1 .. n
  PROVE  /\ (r - 1) * n + k \in 1 .. R * n
         /\ ((r - 1) * n + k - 1) \div n = r - 1
         /\ ((r - 1) * n + k - 1) % n = k - 1
<1> DEFINE p == (r - 1) * n
<1>1. p \in Nat /\ R * n \in Nat
  OBVIOUS
<1>2. p + n <= R * n
  <2>1. r * n <= R * n
    OBVIOUS
  <2>2. p + n = r * n
    OBVIOUS
  <2> QED
    BY <2>1, <2>2
<1>3. p + k \in 1 .. R * n
  BY <1>1, <1>2
<1>4. (p + k - 1) \div n = r - 1 /\ (p + k - 1) % n = k - 1
  <2> DEFINE x == p + k - 1
             q == x \div n
             m == x % n
  <2>1. x \in Nat
    BY <1>1
  <2>2. q \in Int /\ m \in 0 .. n - 1 /\ x = q * n + m
    BY <2>1
  <2>3. x = (r - 1) * n + (k - 1)
    BY <1>1
  <2> HIDE DEF x, q, m
  <2>4. q = r - 1
    <3>1. CASE q >= r
      <4>1. q * n >= r * n
        BY <2>2, <3>1
      <4>2. r * n = (r - 1) * n + n
        OBVIOUS
      <4>3. (r - 1) * n \in Int /\ q * n \in Int /\ r * n \in Int
        BY <2>2
      <4> QED
        BY <2>2, <2>3, <4>1, <4>2, <4>3
    <3>2. CASE q <= r - 2
      <4>1. (q + 1) * n <= (r - 1) * n
        BY <2>2, <3>2
      <4>2. (q + 1) * n = q * n + n
        BY <2>2
      <4>3. (r - 1) * n \in Int /\ q * n \in Int
        BY <2>2
      <4> QED
        BY <2>2, <2>3, <4>1, <4>2, <4>3
    <3> QED
      BY <2>2, <3>1, <3>2
  <2>5. m = k - 1
    <3>1. (r - 1) * n \in Int
      OBVIOUS
    <3> QED
      BY <2>2, <2>3, <2>4, <3>1
  <2> QED
    BY <2>4, <2>5 DEF x, q, m
<1> QED
  BY <1>3, <1>4

(* A plan has a case for each of its repeats times levels.                  *)
PlanIs(p, levels, R, n) ==
  /\ n = Len(levels) /\ DOMAIN levels = 1 .. n /\ \A k \in 1 .. n : levels[k].load \in Nat
  /\ R * n \in Nat \ {0} /\ DOMAIN p = 1 .. R * n /\ Len(p) = R * n
  /\ \A c \in 1 .. R * n :
       p[c] = [ scenario |-> levels[((c - 1) % n) + 1].scenario,
                load |-> levels[((c - 1) % n) + 1].load,
                repeat |-> ((c - 1) \div n) + 1 ]

LEMMA PlanOfIs ==
  ASSUME NEW asked \in OptionSets, Levels(asked) # << >>, asked.repeats > 0
  PROVE  \E n \in Nat \ {0} : PlanIs(PlanOf(asked), Levels(asked), asked.repeats, n)
<1>1. PICK levels : levels = Levels(asked)
  OBVIOUS
<1>2. levels \in Seq(LoadLevels)
  BY <1>1, LevelsFacts
<1>3. PICK n : n = Len(levels)
  OBVIOUS
<1>4. n \in Nat \ {0} /\ DOMAIN levels = 1 .. n /\ \A k \in 1 .. n : levels[k].load \in Nat
  <2>1. \A k \in 1 .. n : levels[k] \in LoadLevels
    BY <1>2, <1>3
  <2>2. \A x \in LoadLevels : x.load \in Nat
    BY DEF LoadLevels
  <2>3. n \in Nat \ {0} /\ DOMAIN levels = 1 .. n
    BY <1>1, <1>2, <1>3
  <2> QED
    BY <2>1, <2>2, <2>3
<1>5. asked.repeats \in Nat
  BY BenchmarkAssumption
<1>6. PICK m : m = asked.repeats * n
  OBVIOUS
<1>7. m \in Nat \ {0}
  BY <1>4, <1>5, <1>6
<1>8. PlanOf(asked) =
        [ c \in 1 .. m |-> [ scenario |-> levels[((c - 1) % n) + 1].scenario,
                             load |-> levels[((c - 1) % n) + 1].load,
                             repeat |-> ((c - 1) \div n) + 1 ] ]
  BY <1>1, <1>3, <1>6 DEF PlanOf
<1>9. Len(PlanOf(asked)) = m
  BY <1>7, <1>8
<1>10. PlanIs(PlanOf(asked), levels, asked.repeats, n)
  BY <1>3, <1>4, <1>6, <1>7, <1>8, <1>9 DEF PlanIs
<1> QED
  BY <1>1, <1>4, <1>10

(* The plan has a case, and a single run's has no other.                    *)
LEMMA PlanFacts ==
  ASSUME PlanKept
  PROVE  /\ Len(plan) \in Nat \ {0} /\ DOMAIN plan = 1 .. Len(plan)
         /\ ~Suite => Len(plan) = 1
         /\ \A c \in DOMAIN plan :
              /\ plan[c] = [ scenario |-> plan[c].scenario, load |-> plan[c].load,
                             repeat |-> plan[c].repeat ]
              /\ plan[c].load \in Nat
<1>1. CASE options.mode = "single"
  <2>1. PICK r : r = [scenario |-> 1, load |-> 0, repeat |-> 1]
    OBVIOUS
  <2>2. r = [scenario |-> r.scenario, load |-> r.load, repeat |-> r.repeat] /\ r.load \in Nat
    BY <2>1
  <2>3. plan = << r >>
    BY <1>1, <2>1 DEF PlanKept
  <2>4. Len(plan) = 1 /\ DOMAIN plan = 1 .. 1 /\ plan[1] = r
    BY <2>3
  <2> QED
    BY <2>2, <2>4
<1>2. CASE options.mode # "single"
  <2>1. options.mode = "suite"
    BY <1>2, BenchmarkAssumption DEF PlanKept
  <2>2. plan = PlanOf(options) /\ options.repeats > 0 /\ Levels(options) # << >>
    BY <1>2, <2>1 DEF PlanKept, Suite
  <2>3. PICK p : p = PlanOf(options)
    OBVIOUS
  <2>4. PICK m \in Nat \ {0} :
          /\ DOMAIN p = 1 .. m /\ Len(p) = m
          /\ \A c \in 1 .. m : /\ p[c] = [ scenario |-> p[c].scenario, load |-> p[c].load,
                                           repeat |-> p[c].repeat ]
                                /\ p[c].load \in Nat
    <3>1. options \in OptionSets
      BY DEF PlanKept
    <3>2. PICK n \in Nat \ {0} : PlanIs(p, Levels(options), options.repeats, n)
      BY <2>2, <2>3, <3>1, PlanOfIs
    <3>4. PICK m : m = options.repeats * n
      OBVIOUS
    <3>5. m \in Nat \ {0} /\ DOMAIN p = 1 .. m /\ Len(p) = m
      BY <3>2, <3>4 DEF PlanIs
    <3>6. ASSUME NEW c \in 1 .. m
          PROVE  /\ p[c] = [scenario |-> p[c].scenario, load |-> p[c].load, repeat |-> p[c].repeat]
                 /\ p[c].load \in Nat
      <4>1. PICK x : x = Levels(options)[((c - 1) % n) + 1]
        OBVIOUS
      <4>2. PICK r : r = ((c - 1) \div n) + 1
        OBVIOUS
      <4>3. p[c] = [scenario |-> x.scenario, load |-> x.load, repeat |-> r]
        BY <3>2, <3>4, <4>1, <4>2, Zenon DEF PlanIs
      <4>4. ((c - 1) % n) + 1 \in 1 .. n
        OBVIOUS
      <4>5. x.load \in Nat
        BY <3>2, <4>1, <4>4 DEF PlanIs
      <4> QED
        BY <4>3, <4>5
    <3> QED
      BY <3>5, <3>6
  <2> QED
    BY <2>1, <2>2, <2>3, <2>4 DEF Suite
<1> QED
  BY <1>1, <1>2

(* Unless a level was asked for twice, each of them has a case per repeat.  *)
LEMMA RunsOfAKey ==
  ASSUME PlanKept, Suite, CasesDiffer, NEW c \in DOMAIN plan
  PROVE  Cardinality({ d \in DOMAIN plan : KeyOf(d) = KeyOf(c) }) = options.repeats
<1>1. plan = PlanOf(options) /\ options \in OptionSets /\ options.repeats > 0
      /\ Levels(options) # << >>
  BY DEF PlanKept, Suite
<1>2. PICK R : R = options.repeats
  OBVIOUS
<1>3. R \in Nat \ {0}
  BY <1>1, <1>2, BenchmarkAssumption
<1>4. PICK levels : levels = Levels(options)
  OBVIOUS
<1>17. PICK n \in Nat \ {0} : PlanIs(plan, levels, R, n)
  BY <1>1, <1>2, <1>4, PlanOfIs
<1>5. /\ DOMAIN plan = 1 .. R * n
      /\ \A d \in 1 .. R * n :
           plan[d] = [ scenario |-> levels[((d - 1) % n) + 1].scenario,
                       load |-> levels[((d - 1) % n) + 1].load,
                       repeat |-> ((d - 1) \div n) + 1 ]
  BY <1>17 DEF PlanIs
<1> DEFINE at(r, k) == (r - 1) * n + k
           key(k) == [ scenario |-> levels[k].scenario, load |-> levels[k].load ]
           same == { d \in DOMAIN plan : KeyOf(d) = KeyOf(c) }
<1>6. ASSUME NEW r \in 1 .. R, NEW k \in 1 .. n
      PROVE  /\ at(r, k) \in DOMAIN plan /\ KeyOf(at(r, k)) = key(k)
             /\ plan[at(r, k)] = [ scenario |-> key(k).scenario, load |-> key(k).load, repeat |-> r ]
  <2>1. PICK d : d = at(r, k)
    OBVIOUS
  <2>2. d \in 1 .. R * n /\ (d - 1) \div n = r - 1 /\ (d - 1) % n = k - 1
    BY <1>3, <2>1, PlaceInRound
  <2>3. ((d - 1) \div n) + 1 = r /\ ((d - 1) % n) + 1 = k
    BY <2>2
  <2>4. plan[d] = [ scenario |-> levels[k].scenario, load |-> levels[k].load, repeat |-> r ]
    BY <1>5, <2>2, <2>3
  <2> QED
    BY <1>5, <2>1, <2>2, <2>4 DEF KeyOf
<1>7. ASSUME NEW d \in DOMAIN plan
      PROVE  \E r \in 1 .. R, k \in 1 .. n : d = at(r, k)
  <2>1. R \in Nat /\ d \in 1 .. R * n
    BY <1>3, <1>5
  <2>2. PICK r \in 1 .. R, k \in 1 .. n :
          /\ d = (r - 1) * n + k
          /\ (d - 1) \div n + 1 = r /\ ((d - 1) % n) + 1 = k
    BY <2>1, RoundsAndPlaces, Zenon
  <2> QED
    BY <2>2
<1>8. ASSUME NEW r \in 1 .. R, NEW s \in 1 .. R, NEW k \in 1 .. n, NEW m \in 1 .. n, at(r, k) = at(s, m)
      PROVE  r = s /\ k = m
  BY <1>3, <1>8, PlaceInRound
<1> HIDE DEF at, key
<1>9. ASSUME NEW k \in 1 .. n, NEW m \in 1 .. n, key(k) = key(m)
      PROVE  k = m
  <2>1. 1 \in 1 .. R
    BY <1>3
  <2>2. plan[at(1, k)] = plan[at(1, m)]
    <3>1. PICK x : x = key(k)
      OBVIOUS
    <3>2. plan[at(1, k)] = [ scenario |-> x.scenario, load |-> x.load, repeat |-> 1 ]
      BY <1>6, <2>1, <3>1, Zenon
    <3>3. plan[at(1, m)] = [ scenario |-> x.scenario, load |-> x.load, repeat |-> 1 ]
      BY <1>6, <1>9, <2>1, <3>1, Zenon
    <3> QED
      BY <3>2, <3>3, Zenon
  <2>3. at(1, k) = at(1, m)
    BY <1>6, <2>1, <2>2 DEF CasesDiffer
  <2> QED
    BY <1>8, <2>1, <2>3
<1>10. PICK r0 \in 1 .. R, k0 \in 1 .. n : c = at(r0, k0)
  BY <1>7
<1>11. KeyOf(c) = key(k0)
  BY <1>6, <1>10
<1>12. \A r \in 1 .. R : at(r, k0) \in same
  BY <1>6, <1>11
<1>13. ASSUME NEW d \in same
       PROVE  \E r \in 1 .. R : d = at(r, k0)
  <2>1. PICK r \in 1 .. R, k \in 1 .. n : d = at(r, k)
    BY <1>7
  <2>2. KeyOf(d) = key(k)
    BY <1>6, <2>1
  <2>3. KeyOf(d) = KeyOf(c)
    OBVIOUS
  <2>4. k = k0
    BY <1>9, <1>11, <2>2, <2>3
  <2> QED
    BY <2>1, <2>4
<1>14. \A r, s \in 1 .. R : at(r, k0) = at(s, k0) => r = s
  BY <1>8
<1> HIDE DEF same
<1> DEFINE f == [ r \in 1 .. R |-> at(r, k0) ]
<1>15. f \in Bijection(1 .. R, same)
  <2>1. f \in [1 .. R -> same]
    BY <1>12
  <2>2. \A r, s \in 1 .. R : f[r] = f[s] => r = s
    BY <1>14
  <2>3. \A d \in same : \E r \in 1 .. R : f[r] = d
    BY <1>13
  <2> HIDE DEF f
  <2> QED
    BY <2>1, <2>2, <2>3, Zenon DEF Bijection, Injection, Surjection, IsInjective
<1>16. Cardinality(same) = R
  <2>1. ExistsBijection(1 .. R, same)
    BY <1>15 DEF ExistsBijection
  <2> QED
    BY <1>3, <2>1, FS_CountingElements
<1> QED
  BY <1>2, <1>16 DEF same

-----------------------------------------------------------------------------
(* What is kept implies what is claimed.                                    *)

(* Distinct cases have distinct names.                                      *)
LEMMA NamesTellCases ==
  ASSUME PlanKept, CasesDiffer, NEW c \in DOMAIN plan, NEW d \in DOMAIN plan, StemOf(c) = StemOf(d)
  PROVE  c = d
<1>1. KeyOf(c) = KeyOf(d) /\ plan[c].repeat = plan[d].repeat
  BY DEF StemOf
<1>2. plan[c].scenario = plan[d].scenario /\ plan[c].load = plan[d].load
  BY <1>1 DEF KeyOf
<1>3. plan[c] = plan[d]
  BY <1>1, <1>2, PlanFacts
<1> QED
  BY <1>3 DEF CasesDiffer

(* Reports on all cases are whole.                                          *)
LEMMA ReportsFollow ==
  ASSUME PlanKept, ReportsKept, CasesDiffer, reports # None
  PROVE  ReportsAreWhole
<1> DEFINE D == DOMAIN plan
           runs(c) == { d \in D : KeyOf(d) = KeyOf(c) }
           asked(s) == { plan[c].load : c \in { d \in D : plan[d].scenario = s } }
<1>1. PICK rs : rs = reports.json.cases
  OBVIOUS
<1>2. Suite /\ DOMAIN rs = D /\ reports = [json |-> SuiteJson(rs), report |-> SuiteReport(rs)]
  BY <1>1 DEF ReportsKept
<1>3. PICK aggregates : aggregates = AggregatesOf(rs)
  OBVIOUS
<1>4. aggregates = { [ key |-> KeyOf(c), runs |-> runs(c) ] : c \in D }
  BY <1>2, <1>3 DEF AggregatesOf
<1>5. /\ reports.json.aggregates = aggregates /\ reports.report.table = aggregates
      /\ reports.report.scaling = ScalingOf(aggregates)
  <2>1. PICK json, report : json = SuiteJson(rs) /\ report = SuiteReport(rs)
    OBVIOUS
  <2>2. json.aggregates = aggregates
    BY <2>1, <1>3 DEF SuiteJson
  <2>3. report.table = aggregates /\ report.scaling = ScalingOf(aggregates)
    BY <2>1, <1>3 DEF SuiteReport
  <2> QED
    BY <1>2, <2>1, <2>2, <2>3
<1>10. \A a \in aggregates : \E c \in D : a.key = KeyOf(c)
  BY <1>4
<1>11. ASSUME NEW c \in D PROVE \E a \in aggregates : a.key = KeyOf(c)
  <2>1. PICK a : a = [ key |-> KeyOf(c), runs |-> runs(c) ]
    OBVIOUS
  <2>2. a \in aggregates
    BY <1>4, <2>1, Zenon
  <2>3. a.key = KeyOf(c)
    BY <2>1
  <2> QED
    BY <2>2, <2>3
<1>6. { a.key : a \in aggregates } = { KeyOf(c) : c \in D }
  BY <1>10, <1>11, Zenon
<1>7. \A a \in aggregates : Cardinality(a.runs) = options.repeats
  <2>1. \A c \in D : Cardinality(runs(c)) = options.repeats
    BY <1>2, RunsOfAKey
  <2> HIDE DEF runs
  <2> QED
    BY <1>4, <2>1
<1>8. ASSUME NEW fit \in ScalingOf(aggregates)
      PROVE  fit.loads = asked(fit.scenario)
  <2> DEFINE loads(s) == { a.key.load : a \in { b \in aggregates : b.key.scenario = s } }
  <2>1. PICK s : fit = [ scenario |-> s, loads |-> loads(s) ]
    BY Zenon DEF ScalingOf
  <2>2. loads(s) = asked(s)
    <3>1. \A c \in D : KeyOf(c).scenario = plan[c].scenario /\ KeyOf(c).load = plan[c].load
      BY DEF KeyOf
    <3>4. ASSUME NEW x \in loads(s) PROVE x \in asked(s)
      <4>1. PICK a \in aggregates : a.key.scenario = s /\ x = a.key.load
        OBVIOUS
      <4>2. PICK c \in D : a.key = KeyOf(c)
        BY <1>10
      <4> QED
        BY <3>1, <4>1, <4>2
    <3>5. ASSUME NEW x \in asked(s) PROVE x \in loads(s)
      <4>1. PICK c \in D : plan[c].scenario = s /\ x = plan[c].load
        OBVIOUS
      <4>2. PICK a \in aggregates : a.key = KeyOf(c)
        BY <1>11
      <4> QED
        BY <3>1, <4>1, <4>2
    <3> QED
      BY <3>4, <3>5
  <2> HIDE DEF loads, asked
  <2>3. fit.scenario = s /\ fit.loads = loads(s)
    BY <2>1
  <2> QED
    BY <2>2, <2>3
<1> QED
  BY <1>5, <1>6, <1>7, <1>8 DEF ReportsAreWhole

(* The whole of it.                                                         *)
LEMMA ClaimsFollow == BenchmarkInv => MeasurementsAreTheirOwn
<1> SUFFICES ASSUME BenchmarkInv PROVE MeasurementsAreTheirOwn
  OBVIOUS
<1> USE DEF BenchmarkInv
<1>1. /\ Len(plan) \in Nat \ {0} /\ DOMAIN plan = 1 .. Len(plan)
  BY PlanFacts
<1>2. BenchmarkTypeOK
  <2>1. inFlight \subseteq [ serial : 1 .. recorded, draws : SUBSET (1 .. Len(plan)) ]
    BY <1>1 DEF WorldKept
  <2> QED
    BY <2>1 DEF CaseKept, WorldKept, BenchmarkTypeOK
<1>3. run # None => RowsAreTheirFrames(caseIndex, run.rows)
  BY DEF RunKept, Running
<1>4. DOMAIN results = 1 .. caseIndex - 1 /\ DOMAIN results \subseteq DOMAIN plan
  <2>1. \A q : q \in Seq(Range(q)) => DOMAIN q = 1 .. Len(q)
    OBVIOUS
  <2> QED
    BY <1>1, <2>1 DEF ResultsKept, CaseKept
<1>5. ASSUME NEW c \in DOMAIN results, CasesDiffer, StemOf(c) \in DOMAIN frames
      PROVE  frames[StemOf(c)] = c
  <2>1. PICK d \in DOMAIN results : StemOf(c) = StemOf(d) /\ frames[StemOf(c)] = d
    BY <1>5 DEF ResultsKept
  <2>2. c = d
    BY <1>4, <1>5, <2>1, NamesTellCases
  <2> QED
    BY <2>1, <2>2
<1>6. CasesDiffer /\ reports # None => ReportsAreWhole
  BY ReportsFollow
<1>7. world.draws \subseteq owned /\ \A f \in inFlight : f.draws \subseteq owned
  BY DEF WorldKept
<1>8. \A c \in DOMAIN results :
       /\ results[c].case = c
       /\ Len(results[c].rows) = options.frames
       /\ RowsAreTheirFrames(c, results[c].rows)
  BY DEF ResultsKept
<1> HIDE DEF BenchmarkInv
<1> QED
  BY <1>2, <1>3, <1>5, <1>6, <1>7, <1>8 DEF MeasurementsAreTheirOwn

-----------------------------------------------------------------------------
(* It is kept.                                                              *)

LEMMA BenchmarkInitInv == BenchmarkInit => BenchmarkInv
<1> SUFFICES ASSUME BenchmarkInit PROVE BenchmarkInv
  OBVIOUS
<1>1. PlanKept
  BY DEF BenchmarkInit, PlanKept, Accepted, Suite
<1>2. Len(plan) \in Nat \ {0} /\ DOMAIN plan = 1 .. Len(plan)
  BY <1>1, PlanFacts
<1>3. ~Running /\ stage = "begin" /\ caseIndex = 1 /\ reports = None
  BY DEF BenchmarkInit, Running
<1>4. CaseKept
  BY <1>2, <1>3 DEF BenchmarkInit, CaseKept
<1>5. WorldKept
  <2>1. PICK w : w = [ of |-> 1, game |-> TRUE, extra |-> FALSE, draws |-> {} ]
    OBVIOUS
  <2>2. w = [of |-> w.of, game |-> w.game, extra |-> w.extra, draws |-> w.draws]
        /\ w.of = 1 /\ w.draws = {} /\ w.extra \in BOOLEAN
    BY <2>1
  <2>3. world = w /\ inFlight = {} /\ download = "running"
    BY <2>1 DEF BenchmarkInit
  <2> QED
    BY <1>3, <2>2, <2>3 DEF WorldKept
<1>6. GpuKept
  BY DEF BenchmarkInit, GpuKept, QueryKept
<1>7. ResultsKept
  <2>1. results = << >> /\ frames = << >>
    BY DEF BenchmarkInit
  <2>2. << >> \in Seq(Range(<< >>)) /\ Len(<< >>) = 0 /\ DOMAIN << >> = {}
    OBVIOUS
  <2> QED
    BY <1>3, <2>1, <2>2 DEF ResultsKept
<1> QED
  BY <1>1, <1>3, <1>4, <1>5, <1>6, <1>7 DEF BenchmarkInv, FrameKept, RunKept, ReportsKept

(* The plan does not change, and so neither does what is said of its cases.  *)
LEMMA PlanStays ==
  ASSUME PlanKept, UNCHANGED << options, plan >>
  PROVE  PlanKept' /\ (Suite' <=> Suite) /\ \A c : ScaleOf(c)' = ScaleOf(c)
BY DEF PlanKept, Suite, ScaleOf

(* Nor does what a report on the same results says.                         *)
LEMMA ReportsStay ==
  ASSUME UNCHANGED plan
  PROVE  \A rs : SuiteJson(rs)' = SuiteJson(rs) /\ SuiteReport(rs)' = SuiteReport(rs)
<1> DEFINE key(p, c) == [scenario |-> p[c].scenario, load |-> p[c].load]
           of(p, rs) == { [key |-> key(p, c), runs |-> {d \in DOMAIN rs : key(p, d) = key(p, c)}] :
                            c \in DOMAIN rs }
<1>1. \A rs : AggregatesOf(rs) = of(plan, rs) /\ AggregatesOf(rs)' = of(plan', rs)
  BY DEF AggregatesOf, KeyOf
<1> HIDE DEF of
<1>2. \A rs : AggregatesOf(rs)' = AggregatesOf(rs)
  BY <1>1
<1> QED
  BY <1>2 DEF SuiteJson, SuiteReport

(* Results, and the reports on them, stay until a case is finished.         *)
LEMMA ResultsStay ==
  ASSUME ResultsKept, ReportsKept,
         UNCHANGED << options, plan, caseIndex, results, frames, reports >>
  PROVE  ResultsKept' /\ ReportsKept'
<1>1. ResultsKept'
  BY DEF ResultsKept, RowsAreTheirFrames, ScaleOf, StemOf, KeyOf
<1>2. ReportsKept'
  BY ReportsStay DEF ReportsKept, Suite
<1> QED
  BY <1>1, <1>2

(* The run under way is still about the frames it was.                      *)
LEMMA RunStays ==
  ASSUME RunKept, Running \/ ~Running', GpuKept,
         UNCHANGED << options, plan, caseIndex, run, lastSerial, scale, queries, timings >>
  PROVE  RunKept'
BY DEF RunKept, RowsAreTheirFrames, RowsKnown, Lapping, ScaleOf

LEMMA GpuStays ==
  ASSUME GpuKept, UNCHANGED << recorded, queries, profiled, timings >>
  PROVE  GpuKept'
BY DEF GpuKept, QueryKept, Slots

LEMMA InterruptInv == ASSUME BenchmarkInv, Interrupt PROVE BenchmarkInv'
<1> USE DEF BenchmarkInv
<1>1. /\ stage = "draw" /\ stage' = "failed"
      /\ UNCHANGED << driverVars, world, rendererVars, download, faults >>
  BY DEF Interrupt
<1> USE <1>1 DEF driverVars, rendererVars
<1>2. PlanKept'
  BY PlanStays
<1>3. Running /\ (Running' => Running)
  BY DEF Running
<1>4. CaseKept'
  BY <1>3 DEF CaseKept
<1>5. WorldKept'
  BY <1>3 DEF WorldKept, Suite
<1>6. GpuKept'
  BY GpuStays
<1>7. FrameKept'
  BY DEF FrameKept
<1>8. RunKept'
  BY <1>3, RunStays
<1>9. ResultsKept' /\ ReportsKept'
  BY ResultsStay
<1> QED
  BY <1>2, <1>4, <1>5, <1>6, <1>7, <1>8, <1>9

LEMMA RecreateInv == ASSUME BenchmarkInv, Recreate PROVE BenchmarkInv'
<1> USE DEF BenchmarkInv
<1>1. /\ stage = "draw" /\ stage' = "end"
      /\ UNCHANGED << driverVars, world, rendererVars, download >>
  BY DEF Recreate
<1> USE <1>1 DEF driverVars, rendererVars
<1>2. PlanKept'
  BY PlanStays
<1>3. Running /\ Running'
  BY DEF Running
<1>4. CaseKept'
  BY <1>3 DEF CaseKept
<1>5. WorldKept'
  BY <1>3 DEF WorldKept, Suite
<1>6. GpuKept'
  BY GpuStays
<1>7. FrameKept'
  BY DEF FrameKept, CaseKept
<1>8. RunKept'
  BY <1>3, RunStays
<1>9. ResultsKept' /\ ReportsKept'
  BY ResultsStay
<1> QED
  BY <1>2, <1>4, <1>5, <1>6, <1>7, <1>8, <1>9

LEMMA GpuFinishesInv == ASSUME BenchmarkInv, GpuFinishes PROVE BenchmarkInv'
<1> USE DEF BenchmarkInv
<1>1. /\ inFlight' \subseteq inFlight
      /\ UNCHANGED << driverVars, world, scale, recorded, queries, profiled, timings, download,
                      faults, stage >>
  BY DEF GpuFinishes
<1> USE <1>1 DEF driverVars, rendererVars
<1>2. PlanKept'
  BY PlanStays
<1>3. Running' <=> Running
  BY DEF Running
<1>4. CaseKept'
  BY <1>3 DEF CaseKept
<1>5. WorldKept'
  BY <1>3 DEF WorldKept, Suite
<1>6. GpuKept'
  BY GpuStays
<1>7. FrameKept'
  BY DEF FrameKept, PlaceOf
<1>8. RunKept'
  BY <1>3, RunStays
<1>9. ResultsKept' /\ ReportsKept'
  BY ResultsStay
<1> QED
  BY <1>2, <1>4, <1>5, <1>6, <1>7, <1>8, <1>9

LEMMA DownloadEndsInv == ASSUME BenchmarkInv, DownloadEnds PROVE BenchmarkInv'
<1> USE DEF BenchmarkInv
<1>1. /\ download' \in {"arrived", "failed"}
      /\ UNCHANGED << driverVars, world, rendererVars, faults, stage >>
  BY DEF DownloadEnds
<1> USE <1>1 DEF driverVars, rendererVars
<1>2. PlanKept'
  BY PlanStays
<1>3. Running' <=> Running
  BY DEF Running
<1>4. CaseKept'
  BY <1>3 DEF CaseKept
<1>5. WorldKept'
  BY <1>3 DEF WorldKept, Suite
<1>6. GpuKept'
  BY GpuStays
<1>7. FrameKept'
  BY DEF FrameKept, PlaceOf
<1>8. RunKept'
  BY <1>3, RunStays
<1>9. ResultsKept' /\ ReportsKept'
  BY ResultsStay
<1> QED
  BY <1>2, <1>4, <1>5, <1>6, <1>7, <1>8, <1>9

(* A case starts with the scene that is its own, and its run warms up.      *)
LEMMA StartCaseKeeps ==
  ASSUME PlanKept, WorldKept, caseIndex \in DOMAIN plan, StartCase, run = None, stage = "begin",
         UNCHANGED << options, plan, caseIndex, recorded >>
  PROVE  /\ WorldKept' /\ world'.of = caseIndex
         /\ run' = [phase |-> run'.phase, least |-> run'.least, most |-> run'.most,
                    warmed |-> run'.warmed, settled |-> run'.settled, drained |-> run'.drained,
                    lastGpu |-> run'.lastGpu, rows |-> run'.rows]
         /\ run'.phase = "warmup" /\ run'.rows = << >>
<1>1. Suite' <=> Suite
  BY DEF Suite
<1>2. (~Suite => caseIndex = 1) /\ caseIndex \in Nat
  <2>1. /\ Len(plan) \in Nat \ {0} /\ DOMAIN plan = 1 .. Len(plan)
        /\ ~Suite => Len(plan) = 1
    BY PlanFacts
  <2> QED
    BY <2>1
<1>3. IF Scenario.source = "game" THEN PopulateGame ELSE PopulateScenario
  BY DEF StartCase
<1>4. run' = NewRun
  BY DEF StartCase
<1>5. /\ run' = [phase |-> run'.phase, least |-> run'.least, most |-> run'.most,
                 warmed |-> run'.warmed, settled |-> run'.settled, drained |-> run'.drained,
                 lastGpu |-> run'.lastGpu, rows |-> run'.rows]
      /\ run'.phase = "warmup" /\ run'.rows = << >>
  <2>1. PICK least : least = IF Suite /\ options.warmup < CaseWarmup THEN CaseWarmup
                             ELSE options.warmup
    OBVIOUS
  <2>2. PICK most : most = IF options.maxWarmup < least THEN least ELSE options.maxWarmup
    OBVIOUS
  <2>3. PICK settled, rows : settled = TRUE /\ rows = << >>
    OBVIOUS
  <2>4. PICK r : r = [phase |-> "warmup", least |-> least, most |-> most, warmed |-> 0,
                      settled |-> settled, drained |-> 0, lastGpu |-> 0, rows |-> rows]
    OBVIOUS
  <2>5. r = NewRun
    BY <2>1, <2>2, <2>3, <2>4, Zenon DEF NewRun
  <2>6. /\ r = [phase |-> r.phase, least |-> r.least, most |-> r.most, warmed |-> r.warmed,
                settled |-> r.settled, drained |-> r.drained, lastGpu |-> r.lastGpu,
                rows |-> r.rows]
        /\ r.phase = "warmup" /\ r.rows = rows
    BY <2>4
  <2> QED
    BY <1>4, <2>3, <2>5, <2>6
<1>6. ASSUME NEW g, NEW e \in BOOLEAN, NEW d \in SUBSET {caseIndex},
             world' = [of |-> caseIndex, game |-> g, extra |-> e, draws |-> d],
             d \subseteq owned', inFlight' = {}, download' \in {"running", "arrived", "kept", "failed", "lost"}
      PROVE  WorldKept' /\ world'.of = caseIndex
  <2>1. PICK w : w = world'
    OBVIOUS
  <2>2. w = [of |-> w.of, game |-> w.game, extra |-> w.extra, draws |-> w.draws]
        /\ w.of = caseIndex /\ w.draws = d /\ w.extra \in BOOLEAN
    BY <1>6, <2>1
  <2> QED
    BY <1>1, <1>2, <1>6, <2>1, <2>2 DEF WorldKept
<1>7. CASE Scenario.source = "game" /\ Suite
  <2>1. /\ inFlight' = {}
        /\ world' = [ of |-> caseIndex, game |-> TRUE, extra |-> download = "kept", draws |-> {} ]
        /\ download' = IF download = "lost" THEN "running" ELSE download
    BY <1>3, <1>7 DEF PopulateGame
  <2>2. download' \in {"running", "arrived", "kept", "failed", "lost"}
    BY <2>1 DEF WorldKept
  <2>3. PICK g, e : g = TRUE /\ e = (download = "kept") /\ e \in BOOLEAN
    OBVIOUS
  <2>4. world' = [ of |-> caseIndex, game |-> g, extra |-> e, draws |-> {} ]
    BY <2>1, <2>3, Zenon
  <2>5. e \in BOOLEAN /\ inFlight' = {} /\ {} \in SUBSET {caseIndex} /\ {} \subseteq owned'
    BY <2>1, <2>3
  <2>6. WorldKept' /\ world'.of = caseIndex
    BY <1>6, <2>2, <2>4, <2>5, Zenon
  <2> QED
    BY <1>5, <2>6
<1>8. CASE Scenario.source = "game" /\ ~Suite
  <2>1. world' = [ world EXCEPT !.game = TRUE ] /\ UNCHANGED << inFlight, owned, download >>
    BY <1>3, <1>8 DEF PopulateGame
  <2>2. PICK g : g = TRUE
    OBVIOUS
  <2>3. PICK w : w = world
    OBVIOUS
  <2>4. w = [of |-> w.of, game |-> w.game, extra |-> w.extra, draws |-> w.draws]
        /\ w.of \in Nat /\ w.extra \in BOOLEAN
    BY <2>3 DEF WorldKept
  <2>5. PICK v : v = [w EXCEPT !.game = g]
    OBVIOUS
  <2>6. v = [of |-> v.of, game |-> v.game, extra |-> v.extra, draws |-> v.draws]
        /\ v.of = w.of /\ v.draws = w.draws /\ v.extra \in BOOLEAN
    BY <2>4, <2>5
  <2>7. world' = v
    BY <2>1, <2>2, <2>3, <2>5, Zenon
  <2>8. w.of = 1 /\ caseIndex = 1
    BY <1>2, <1>8, <2>3 DEF WorldKept
  <2>9. /\ w.draws \subseteq owned \cap DOMAIN plan
        /\ inFlight \subseteq [serial : 1 .. recorded, draws : SUBSET (owned \cap DOMAIN plan)]
        /\ download \in {"running", "arrived", "kept", "failed", "lost"}
    BY <2>3 DEF WorldKept
  <2>10. WorldKept' /\ world'.of = caseIndex
    BY <2>1, <2>6, <2>7, <2>8, <2>9 DEF WorldKept
  <2> QED
    BY <1>5, <2>10
<1>9. CASE Scenario.source # "game"
  <2>1. PICK d : d = IF Scenario.keeps THEN {caseIndex} ELSE {}
    OBVIOUS
  <2>2. /\ inFlight' = {} /\ owned' = d /\ download' = download
        /\ world' = [ of |-> caseIndex, game |-> FALSE, extra |-> FALSE, draws |-> d ]
    BY <1>3, <1>9, <2>1, Zenon DEF PopulateScenario
  <2>3. PICK g : g = FALSE /\ g \in BOOLEAN
    OBVIOUS
  <2>4. world' = [ of |-> caseIndex, game |-> g, extra |-> g, draws |-> d ]
    BY <2>2, <2>3, Zenon
  <2>5. d \in SUBSET {caseIndex}
    BY <2>1, Zenon
  <2>6. download' \in {"running", "arrived", "kept", "failed", "lost"}
    BY <2>2 DEF WorldKept
  <2> QED
    BY <1>5, <1>6, <2>2, <2>4, <2>5, <2>6
<1> QED
  BY <1>7, <1>8, <1>9

LEMMA BeginFrameInv == ASSUME BenchmarkInv, BeginFrame PROVE BenchmarkInv'
<1> USE DEF BenchmarkInv
<1>1. /\ stage = "begin" /\ stage' = "draw"
      /\ UNCHANGED << options, plan, caseIndex, results, frames, reports,
                      lastSerial, scale, recorded, queries, profiled, timings, faults >>
      /\ IF run = None /\ ~AllDone THEN StartCase
         ELSE UNCHANGED << run, world, inFlight, owned, download >>
  BY DEF BeginFrame
<1>2. Len(plan) \in Nat \ {0} /\ DOMAIN plan = 1 .. Len(plan)
  BY PlanFacts
<1>3. caseIndex \in DOMAIN plan /\ ~AllDone /\ lastSerial = recorded
  BY <1>1, <1>2 DEF CaseKept, AllDone
<1>4. PlanKept'
  BY <1>1, PlanStays
<1>5. CaseKept'
  BY <1>1 DEF CaseKept
<1>6. GpuKept'
  BY <1>1, GpuStays
<1>7. FrameKept'
  BY <1>1 DEF FrameKept
<1>8. ResultsKept' /\ ReportsKept'
  BY <1>1, ResultsStay
<1>9. WorldKept' /\ RunKept'
  <2>1. CASE run = None
    <3>1. /\ WorldKept'
          /\ run' = [phase |-> run'.phase, least |-> run'.least, most |-> run'.most,
                     warmed |-> run'.warmed, settled |-> run'.settled, drained |-> run'.drained,
                     lastGpu |-> run'.lastGpu, rows |-> run'.rows]
          /\ run'.phase = "warmup" /\ run'.rows = << >>
      BY <1>1, <1>3, <2>1, StartCaseKeeps
    <3>2. PICK rows : rows = << >>
      OBVIOUS
    <3>3. rows \in Seq(Range(rows)) /\ DOMAIN rows = {}
      BY <3>2
    <3>4. RowsAreTheirFrames(caseIndex, rows)' /\ RowsKnown(rows, lastSerial)'
      BY <3>3 DEF RowsAreTheirFrames, RowsKnown
    <3>5. run'.rows = rows
      BY <3>1, <3>2
    <3>6. RowsAreTheirFrames(caseIndex, run.rows)' /\ RowsKnown(run.rows, lastSerial)'
      BY <3>4, <3>5
    <3>7. Lapping(run.phase, run.rows)'
      BY <3>1 DEF Lapping
    <3> QED
      BY <3>1, <3>6, <3>7 DEF RunKept
  <2>2. CASE run # None
    <3>1. Running /\ UNCHANGED << run, world, inFlight, owned, download >>
      BY <1>1, <2>2 DEF Running
    <3>2. RunKept'
      BY <1>1, <3>1, RunStays
    <3>3. WorldKept'
      BY <1>1, <3>1 DEF WorldKept, Suite
    <3> QED
      BY <3>2, <3>3
  <2> QED
    BY <2>1, <2>2
<1> QED
  BY <1>4, <1>5, <1>6, <1>7, <1>8, <1>9

(* What was read back is of the frame that had the slot before, or was known. *)
LEMMA TimingsRead ==
  ASSUME GpuKept, NEW s \in Slots, NEW t \in ReadBack(s), NEW u, u \in PassesRead(t, s)
  PROVE  u # None =>
           /\ u = [serial |-> u.serial, shows |-> u.shows, passes |-> u.passes]
           /\ u.serial \in 1 .. recorded /\ u.passes \in {None, u.shows}
           /\ \E x \in {timings} \cup Range(queries) :
                x # None /\ x.serial = u.serial /\ x.shows = u.shows
<1> SUFFICES ASSUME u # None
             PROVE /\ u = [serial |-> u.serial, shows |-> u.shows, passes |-> u.passes]
                   /\ u.serial \in 1 .. recorded /\ u.passes \in {None, u.shows}
                   /\ \E x \in {timings} \cup Range(queries) :
                        x # None /\ x.serial = u.serial /\ x.shows = u.shows
  OBVIOUS
<1>1. t # None
  BY DEF PassesRead
<1>2. PICK p : p \in {profiled[s], None} /\ u = [t EXCEPT !.passes = p]
  BY <1>1, Zenon DEF PassesRead
<1>3. queries[s] \in Range(queries) /\ QueryKept(s)
  BY DEF GpuKept, Range
<1>4. CASE queries[s] = None
  <2>1. t = timings /\ profiled[s] = None
    BY <1>1, <1>3, <1>4 DEF ReadBack, QueryKept
  <2>2. t = [serial |-> t.serial, shows |-> t.shows, passes |-> t.passes]
        /\ t.serial \in 1 .. recorded
    BY <1>1, <2>1 DEF GpuKept
  <2>3. u = [serial |-> t.serial, shows |-> t.shows, passes |-> p]
    BY <1>2, <2>2
  <2> QED
    BY <1>1, <1>2, <2>1, <2>2, <2>3
<1>5. CASE queries[s] # None
  <2>1. t = queries[s]
    BY <1>1, <1>5, Zenon DEF ReadBack
  <2>2. t = [serial |-> t.serial, shows |-> profiled[s], passes |-> None]
        /\ t.serial \in 1 .. recorded
    BY <1>3, <1>5, <2>1 DEF QueryKept
  <2>3. u = [serial |-> t.serial, shows |-> profiled[s], passes |-> p] /\ t.shows = profiled[s]
    BY <1>2, <2>2
  <2> QED
    BY <1>1, <1>2, <1>3, <2>1, <2>2, <2>3
<1> QED
  BY <1>4, <1>5

LEMMA DrawInv == ASSUME BenchmarkInv, Draw PROVE BenchmarkInv'
<1> USE DEF BenchmarkInv
<1> DEFINE slot == recorded % FramesInFlight
           shows == [ of |-> world.of, place |-> PlaceOf(run), scale |-> scale,
                      extra |-> world.extra ]
           frame == [ serial |-> recorded + 1, shows |-> shows, passes |-> None ]
<1>1. /\ stage = "draw" /\ stage' = "end" /\ UNCHANGED << driverVars, scale >>
      /\ \E t \in ReadBack(slot) : timings' \in PassesRead(t, slot)
      /\ recorded' = recorded + 1
      /\ queries' = [ queries EXCEPT ![slot] = frame ]
      /\ profiled' = [ profiled EXCEPT ![slot] = shows ]
      /\ inFlight' = { f \in inFlight : f.serial > recorded + 1 - FramesInFlight }
                       \cup { [ serial |-> recorded + 1, draws |-> world.draws ] }
      /\ Poll
  BY Zenon DEF Draw
<1>2. /\ options' = options /\ plan' = plan /\ caseIndex' = caseIndex /\ run' = run
      /\ results' = results /\ frames' = frames /\ reports' = reports
      /\ lastSerial' = lastSerial /\ owned' = owned /\ scale' = scale
  BY <1>1 DEF driverVars
<1>3. recorded \in Nat /\ lastSerial = recorded /\ slot \in Slots
      /\ ((recorded + 1) - 1) % FramesInFlight = slot
  BY <1>1, EngineAssumption DEF CaseKept, Slots
<1>4. Running /\ Running'
  BY <1>1 DEF Running
<1>5. PlanKept' /\ (Suite' <=> Suite)
  BY <1>2, PlanStays
<1>6. CaseKept'
  BY <1>1, <1>2, <1>3, <1>4 DEF CaseKept
<1>7. ResultsKept' /\ ReportsKept'
  BY <1>2, ResultsStay
<1>8. WorldKept'
  <2>1. /\ world' = [of |-> world'.of, game |-> world'.game, extra |-> world'.extra,
                     draws |-> world'.draws]
        /\ world'.of = world.of /\ world'.draws = world.draws /\ world'.extra \in BOOLEAN
        /\ download' \in {"running", "arrived", "kept", "failed", "lost"}
    <3>1. CASE UNCHANGED world
      BY <1>1, <3>1 DEF Poll, WorldKept
    <3>2. ASSUME NEW loads \in BOOLEAN, world' = [world EXCEPT !.extra = loads],
                 download' = IF loads THEN "kept" ELSE "lost"
          PROVE  <2>1
      <4>1. PICK w : w = world
        OBVIOUS
      <4>2. w = [of |-> w.of, game |-> w.game, extra |-> w.extra, draws |-> w.draws]
        BY <4>1 DEF WorldKept
      <4>3. PICK v : v = [w EXCEPT !.extra = loads]
        OBVIOUS
      <4>4. v = [of |-> v.of, game |-> v.game, extra |-> v.extra, draws |-> v.draws]
            /\ v.of = w.of /\ v.draws = w.draws /\ v.extra = loads
        BY <4>2, <4>3
      <4>5. world' = v
        BY <3>2, <4>1, <4>3, Zenon
      <4>6. download' \in {"kept", "lost"}
        BY <3>2, Zenon
      <4> QED
        BY <4>1, <4>4, <4>5, <4>6
    <3> QED
      BY <1>1, <3>1, <3>2, Zenon DEF Poll
  <2>2. inFlight' \subseteq [serial : 1 .. recorded', draws : SUBSET (owned' \cap DOMAIN plan')]
    BY <1>1, <1>2, <1>3 DEF WorldKept
  <2>3. /\ world.of = caseIndex
        /\ world.draws \subseteq owned \cap DOMAIN plan
        /\ ~Suite => world.of = 1
        /\ world.of \in Nat
    BY <1>4 DEF WorldKept
  <2> QED
    BY <1>2, <1>5, <2>1, <2>2, <2>3 DEF WorldKept
<1>9. PICK S, F : S = shows /\ F = [ serial |-> recorded + 1, shows |-> S, passes |-> None ]
  OBVIOUS
<1>10. /\ DOMAIN queries = Slots /\ DOMAIN profiled = Slots
       /\ queries' = [ queries EXCEPT ![slot] = F ] /\ profiled' = [ profiled EXCEPT ![slot] = S ]
  BY <1>1, <1>9, Zenon DEF GpuKept
<1>11. F = [ serial |-> F.serial, shows |-> S, passes |-> None ] /\ F.serial = recorded + 1
       /\ F.shows = S
  BY <1>9
<1>12. timings' # None =>
         /\ timings' = [serial |-> timings'.serial, shows |-> timings'.shows,
                        passes |-> timings'.passes]
         /\ timings'.serial \in 1 .. recorded /\ timings'.passes \in {None, timings'.shows}
         /\ \E x \in {timings} \cup Range(queries) :
              x # None /\ x.serial = timings'.serial /\ x.shows = timings'.shows
  BY <1>1, <1>3, TimingsRead
<1>16. F # None
  <2>1. scale \in Nat /\ world.of \in Nat /\ world.extra \in BOOLEAN
    BY DEF CaseKept, WorldKept
  <2>2. PlaceOf(run) \in Nat
    BY <1>4 DEF PlaceOf, RunKept, RowsKnown
  <2>3. PICK e : e = world.extra
    OBVIOUS
  <2>4. S = [ of |-> world.of, place |-> PlaceOf(run), scale |-> scale, extra |-> e ]
    BY <1>9, <2>3, Zenon
  <2>5. S \in [ of : Nat, place : Nat, scale : Nat, extra : BOOLEAN ]
    BY <2>1, <2>2, <2>3, <2>4
  <2> QED
    BY <1>3, <1>9, <2>5, BenchmarkAssumption
<1> HIDE DEF slot, shows, frame
<1>13. GpuKept'
  <2>1. ASSUME NEW s \in Slots PROVE QueryKept(s)'
    <3>1. CASE s = slot
      <4>1. queries'[s] = F /\ profiled'[s] = S
        BY <1>3, <1>10, <3>1
      <4>2. queries'[s].serial \in 1 .. recorded' /\ (queries'[s].serial - 1) % FramesInFlight = s
        BY <1>1, <1>3, <1>11, <3>1, <4>1
      <4> QED
        BY <1>11, <1>16, <4>1, <4>2 DEF QueryKept
    <3>2. CASE s # slot
      <4>1. queries'[s] = queries[s] /\ profiled'[s] = profiled[s] /\ QueryKept(s)
        BY <1>10, <3>2 DEF GpuKept
      <4>2. 1 .. recorded \subseteq 1 .. recorded'
        BY <1>1, <1>3
      <4> QED
        BY <4>1, <4>2 DEF QueryKept
    <3> QED
      BY <3>1, <3>2
  <2>2. DOMAIN queries' = Slots /\ DOMAIN profiled' = Slots
    BY <1>10
  <2>3. 1 .. recorded \subseteq 1 .. recorded'
    BY <1>1, <1>3
  <2> QED
    BY <1>12, <2>1, <2>2, <2>3 DEF GpuKept, Slots
<1>14. FrameKept'
  <2>1. queries'[(recorded' - 1) % FramesInFlight] = F
    <3>1. (recorded' - 1) % FramesInFlight = slot
      BY <1>1, <1>3
    <3> QED
      BY <1>3, <1>10, <3>1
  <2>2. S = [of |-> caseIndex', place |-> PlaceOf(run)', scale |-> scale', extra |-> world.extra]
    BY <1>2, <1>4, <1>9 DEF shows, WorldKept, PlaceOf
  <2>3. F = [ serial |-> recorded', passes |-> None, shows |-> S ]
    BY <1>1, <1>9
  <2>4. timings' # None => timings'.serial < recorded'
    BY <1>1, <1>3, <1>12
  <2> QED
    BY <2>1, <2>2, <2>3, <2>4 DEF FrameKept
<1>15. RunKept'
  <2>1. RowsKnown(run.rows, lastSerial)
    BY <1>4 DEF RunKept
  <2>2. ASSUME NEW x \in {timings'} \cup Range(queries'), x # None,
               NEW i \in DOMAIN run.rows, x.serial = run.rows[i].serial
        PROVE  x.shows = run.rows[i].shows
    <3>1. run.rows[i].serial \in 0 .. recorded
      BY <1>3, <2>1 DEF RowsKnown
    <3>2. \A y \in {timings} \cup Range(queries) :
            y # None /\ y.serial = run.rows[i].serial => y.shows = run.rows[i].shows
      BY <2>1 DEF RowsKnown
    <3>3. x # F
      BY <1>3, <1>11, <2>2, <3>1
    <3>4. x = timings' \/ x \in Range(queries)
      BY <1>10, <2>2, <3>3 DEF Range
    <3> QED
      BY <1>12, <2>2, <3>2, <3>4
  <2>3. RowsKnown(run.rows, lastSerial)'
    BY <1>2, <2>1, <2>2 DEF RowsKnown
  <2> QED
    BY <1>2, <1>4, <2>3 DEF RunKept, RowsAreTheirFrames, Lapping, ScaleOf
<1> QED
  BY <1>5, <1>6, <1>7, <1>8, <1>13, <1>14, <1>15

(* What a row is given is what its frame is known to show.                  *)
LEMMA AttachKeeps ==
  ASSUME GpuKept, NEW rows, NEW last, NEW lastGpu, NEW c, RowsKnown(rows, last), RowsAreTheirFrames(c, rows)
  PROVE  /\ RowsKnown(Attach(rows, timings, lastGpu), last)
         /\ RowsAreTheirFrames(c, Attach(rows, timings, lastGpu))
         /\ Len(Attach(rows, timings, lastGpu)) = Len(rows) /\ Len(rows) \in Nat
<1>1. PICK t : t = timings
  OBVIOUS
<1>2. PICK got : got = RowFor(rows, t, lastGpu)
  OBVIOUS
<1>3. ASSUME NEW i \in got
      PROVE  /\ i \in DOMAIN rows /\ t.shows = rows[i].shows
             /\ t.passes \in {None, rows[i].shows}
  <2>1. t # None /\ i \in DOMAIN rows /\ rows[i].serial = t.serial
    BY <1>2 DEF RowFor
  <2> QED
    BY <1>1, <2>1 DEF RowsKnown, GpuKept
<1>4. PICK new : new = Attach(rows, timings, lastGpu)
  OBVIOUS
<1>5. new = [ i \in DOMAIN rows |-> IF i \in got THEN [ rows[i] EXCEPT !.gpu = t.shows, !.passes = t.passes ]
                                    ELSE rows[i] ]
  BY <1>1, <1>2, <1>4 DEF Attach
<1>6. Len(rows) \in Nat /\ DOMAIN rows = 1 .. Len(rows)
  BY DEF RowsKnown
<1>7. DOMAIN new = 1 .. Len(rows) /\ Len(new) = Len(rows) /\ new \in Seq(Range(new))
  <2>1. DOMAIN new = 1 .. Len(rows) /\ new = [i \in 1 .. Len(rows) |-> new[i]]
    BY <1>5, <1>6
  <2>2. new \in [1 .. Len(rows) -> Range(new)]
    BY <2>1 DEF Range
  <2> QED
    BY <1>6, <2>1, <2>2
<1>8. ASSUME NEW i \in DOMAIN rows
      PROVE  /\ new[i] = [serial |-> new[i].serial, gpu |-> new[i].gpu, passes |-> new[i].passes,
                          shows |-> new[i].shows]
             /\ new[i].serial = rows[i].serial /\ new[i].shows = rows[i].shows
             /\ {new[i].gpu, new[i].passes} \subseteq {None, rows[i].shows}
  <2>1. PICK r : r = rows[i]
    OBVIOUS
  <2>2. /\ r = [serial |-> r.serial, gpu |-> r.gpu, passes |-> r.passes, shows |-> r.shows]
        /\ {r.gpu, r.passes} \subseteq {None, r.shows}
    BY <2>1 DEF RowsKnown, RowsAreTheirFrames
  <2>3. CASE i \in got
    <3>1. new[i] = [ r EXCEPT !.gpu = t.shows, !.passes = t.passes ]
      BY <1>5, <2>1, <2>3
    <3>2. new[i] = [serial |-> r.serial, gpu |-> t.shows, passes |-> t.passes, shows |-> r.shows]
      BY <2>2, <3>1
    <3> QED
      BY <1>3, <2>1, <2>3, <3>2
  <2>4. CASE i \notin got
    <3>1. new[i] = r
      BY <1>5, <2>1, <2>4
    <3> QED
      BY <2>1, <2>2, <3>1
  <2> QED
    BY <2>3, <2>4
<1>9. RowsKnown(new, last)
  BY <1>6, <1>7, <1>8 DEF RowsKnown
<1>10. RowsAreTheirFrames(c, new)
  BY <1>6, <1>7, <1>8 DEF RowsAreTheirFrames
<1> QED
  BY <1>4, <1>6, <1>7, <1>9, <1>10

(* The row that is added is about the frame just drawn, if one was.         *)
LEMMA RowKeeps ==
  ASSUME BenchmarkInv, stage = "end", run.phase = "measuring", NEW serial,
         serial = IF recorded # lastSerial THEN recorded ELSE 0
  PROVE  LET rows == Append(run.rows, Row(run, serial))
         IN  /\ RowsKnown(rows, recorded) /\ RowsAreTheirFrames(caseIndex, rows)
             /\ Len(rows) = Len(run.rows) + 1
<1> USE DEF BenchmarkInv
<1>1. Running /\ recorded \in Nat /\ lastSerial \in Nat /\ lastSerial <= recorded
  BY DEF Running, CaseKept
<1>2. PICK old : old = run.rows
  OBVIOUS
<1>3. RowsKnown(old, lastSerial) /\ RowsAreTheirFrames(caseIndex, old) /\ scale = ScaleOf(caseIndex)
  BY <1>1, <1>2 DEF RunKept
<1>4. PICK row : row = Row(run, serial)
  OBVIOUS
<1>5. PICK shows : shows = IF serial = 0 THEN None
                           ELSE queries[(serial - 1) % FramesInFlight].shows
  OBVIOUS
<1>6. row = [serial |-> serial, gpu |-> None, passes |-> None, shows |-> shows]
  BY <1>4, <1>5 DEF Row
<1>7. PICK rows : rows = Append(old, row)
  OBVIOUS
<1>8. old \in Seq(Range(old)) /\ Len(old) \in Nat /\ DOMAIN old = 1 .. Len(old)
  BY <1>3 DEF RowsKnown
<1>9. /\ DOMAIN rows = 1 .. Len(old) + 1 /\ Len(rows) = Len(old) + 1
      /\ \A i \in 1 .. Len(old) : rows[i] = old[i]
      /\ rows[Len(old) + 1] = row
      /\ rows \in Seq(Range(rows))
  <2>1. old \in Seq(Range(old) \cup {row})
    BY <1>8
  <2>2. /\ rows \in Seq(Range(old) \cup {row})
        /\ DOMAIN rows = 1 .. Len(old) + 1 /\ Len(rows) = Len(old) + 1
        /\ \A i \in 1 .. Len(old) : rows[i] = old[i]
        /\ rows[Len(old) + 1] = row
    BY <1>7, <1>8, <2>1
  <2>3. rows = [i \in 1 .. Len(old) + 1 |-> rows[i]]
    BY <2>2
  <2>4. rows \in [1 .. Len(old) + 1 -> Range(rows)]
    BY <2>2, <2>3 DEF Range
  <2> QED
    BY <1>8, <2>2, <2>4
<1>10. serial \in 0 .. recorded
  BY <1>1
<1>11. serial # 0 => /\ shows.of = caseIndex /\ shows.place = Len(old) /\ shows.scale = scale
                     /\ queries[(recorded - 1) % FramesInFlight].shows = shows
  <2>1. SUFFICES ASSUME serial # 0
                 PROVE  /\ shows.of = caseIndex /\ shows.place = Len(old) /\ shows.scale = scale
                        /\ queries[(recorded - 1) % FramesInFlight].shows = shows
    OBVIOUS
  <2>2. recorded # lastSerial /\ serial = recorded
    BY <2>1
  <2>3. PICK e : queries[(recorded - 1) % FramesInFlight] =
                   [serial |-> recorded, passes |-> None,
                    shows |-> [of |-> caseIndex, place |-> PlaceOf(run), scale |-> scale, extra |-> e]]
    BY <2>2 DEF FrameKept
  <2>4. shows = [of |-> caseIndex, place |-> PlaceOf(run), scale |-> scale, extra |-> e]
    BY <1>5, <2>1, <2>2, <2>3
  <2>5. PlaceOf(run) = Len(old)
    BY <1>2 DEF PlaceOf
  <2> QED
    BY <2>3, <2>4, <2>5
<1>12. ASSUME NEW x \in {timings} \cup Range(queries), x # None, x.serial = serial
       PROVE  x.shows = shows
  <2>1. x.serial # 0
    BY <1>12 DEF GpuKept, QueryKept, Range
  <2>2. recorded # lastSerial /\ serial = recorded
    BY <1>12, <2>1
  <2>3. timings # None => timings.serial < recorded
    BY <2>2 DEF FrameKept
  <2>4. timings # None => timings.serial \in 1 .. recorded
    BY DEF GpuKept
  <2>5. PICK s \in Slots : x = queries[s]
    BY <1>1, <1>12, <2>2, <2>3, <2>4 DEF Range, GpuKept
  <2>6. (recorded - 1) % FramesInFlight = s
    BY <1>12, <2>2, <2>5 DEF GpuKept, QueryKept
  <2> QED
    BY <1>11, <1>12, <2>1, <2>5, <2>6
<1>13. RowsKnown(rows, recorded)
  <2>1. ASSUME NEW i \in DOMAIN rows
        PROVE  /\ rows[i] = [serial |-> rows[i].serial, gpu |-> rows[i].gpu,
                             passes |-> rows[i].passes, shows |-> rows[i].shows]
               /\ rows[i].serial \in 0 .. recorded
               /\ \A x \in {timings} \cup Range(queries) :
                    x # None /\ x.serial = rows[i].serial => x.shows = rows[i].shows
    <3>1. CASE i \in 1 .. Len(old)
      <4>1. rows[i] = old[i] /\ 0 .. lastSerial \subseteq 0 .. recorded
        BY <1>1, <1>9, <3>1
      <4> QED
        BY <1>3, <1>8, <3>1, <4>1 DEF RowsKnown
    <3>2. CASE i = Len(old) + 1
      <4>1. rows[i] = row /\ row.serial = serial /\ row.shows = shows
        BY <1>6, <1>9, <3>2
      <4> QED
        BY <1>6, <1>10, <1>12, <4>1
    <3> QED
      BY <1>8, <1>9, <3>1, <3>2
  <2> QED
    BY <1>9, <2>1 DEF RowsKnown
<1>14. RowsAreTheirFrames(caseIndex, rows)
  <2>1. ASSUME NEW i \in DOMAIN rows
        PROVE  /\ rows[i].serial # 0 =>
                    /\ rows[i].shows.of = caseIndex
                    /\ rows[i].shows.place = i - 1
                    /\ rows[i].shows.scale = ScaleOf(caseIndex)
               /\ {rows[i].gpu, rows[i].passes} \subseteq {None, rows[i].shows}
    <3>1. CASE i \in 1 .. Len(old)
      BY <1>3, <1>8, <1>9, <3>1 DEF RowsAreTheirFrames
    <3>2. CASE i = Len(old) + 1
      <4>1. /\ rows[i].serial = serial /\ rows[i].shows = shows /\ rows[i].gpu = None
            /\ rows[i].passes = None /\ i - 1 = Len(old)
        BY <1>6, <1>8, <1>9, <3>2
      <4> QED
        BY <1>3, <1>11, <4>1
    <3> QED
      BY <1>8, <1>9, <3>1, <3>2
  <2> QED
    BY <2>1 DEF RowsAreTheirFrames
<1> QED
  BY <1>2, <1>4, <1>7, <1>9, <1>13, <1>14

IsRun(r) ==
  r = [phase |-> r.phase, least |-> r.least, most |-> r.most, warmed |-> r.warmed,
       settled |-> r.settled, drained |-> r.drained, lastGpu |-> r.lastGpu, rows |-> r.rows]

(* A warm-up has no rows, and goes over into the lap.                       *)
LEMMA WarmKeeps ==
  ASSUME NEW r, IsRun(r), r.phase = "warmup", NEW idle \in BOOLEAN
  PROVE  IsRun(Warm(r, idle)) /\ Warm(r, idle).rows = r.rows
         /\ Warm(r, idle).phase \in {"warmup", "measuring"}
<1>1. PICK warmed : warmed = r.warmed + 1
  OBVIOUS
<1>2. PICK over : over = ((warmed >= r.least /\ idle) \/ warmed >= r.most)
  OBVIOUS
<1>3. PICK phase : phase = IF over THEN "measuring" ELSE r.phase
  OBVIOUS
<1>4. PICK settled : settled = IF over THEN idle ELSE r.settled
  OBVIOUS
<1>5. PICK last : last = LaterOf(r.lastGpu, timings)
  OBVIOUS
<1>6. PICK next : next = [ r EXCEPT !.warmed = warmed, !.phase = phase, !.settled = settled,
                                    !.lastGpu = last ]
  OBVIOUS
<1>7. next = Warm(r, idle)
  BY <1>1, <1>2, <1>3, <1>4, <1>5, <1>6, Zenon DEF Warm
<1>8. phase \in {"warmup", "measuring"}
  BY <1>3
<1>9. next = [phase |-> phase, least |-> r.least, most |-> r.most, warmed |-> warmed,
              settled |-> settled, drained |-> r.drained, lastGpu |-> last, rows |-> r.rows]
  BY <1>6 DEF IsRun
<1>10. IsRun(next) /\ next.phase = phase /\ next.rows = r.rows
  BY <1>9 DEF IsRun
<1> QED
  BY <1>7, <1>8, <1>10

(* A measured frame adds a row to the lap, until it has them all.           *)
LEMMA MeasureKeeps ==
  ASSUME BenchmarkInv, stage = "end", run.phase # "warmup", NEW serial,
         serial = IF recorded # lastSerial THEN recorded ELSE 0
  PROVE  \E r : /\ r = Measure(run, serial) /\ IsRun(r)
                /\ RowsKnown(r.rows, recorded) /\ RowsAreTheirFrames(caseIndex, r.rows)
                /\ \/ Lapping(r.phase, r.rows)
                   \/ r.phase = "finished" /\ Len(r.rows) = options.frames
<1> USE DEF BenchmarkInv
<1>1. Running /\ recorded \in Nat /\ lastSerial \in Nat /\ lastSerial <= recorded
      /\ options.frames \in Nat
  BY BenchmarkAssumption DEF Running, CaseKept, PlanKept
<1>2. IsRun(run) /\ RowsKnown(run.rows, lastSerial) /\ RowsAreTheirFrames(caseIndex, run.rows)
      /\ Lapping(run.phase, run.rows)
  BY <1>1 DEF RunKept, IsRun
<1>3. Len(run.rows) \in Nat
  BY <1>2 DEF RowsKnown
<1>4. PICK rows : rows = IF run.phase = "measuring" THEN Append(run.rows, Row(run, serial))
                         ELSE run.rows
  OBVIOUS
<1>5. /\ RowsKnown(rows, recorded) /\ RowsAreTheirFrames(caseIndex, rows)
      /\ Len(rows) <= options.frames
      /\ run.phase = "draining" => Len(rows) = options.frames
  <2>1. CASE run.phase = "measuring"
    <3>1. Len(run.rows) < options.frames
      BY <1>2, <2>1 DEF Lapping
    <3>2. RowsKnown(rows, recorded) /\ RowsAreTheirFrames(caseIndex, rows)
          /\ Len(rows) = Len(run.rows) + 1
      BY <1>4, <2>1, RowKeeps
    <3> QED
      BY <1>1, <1>3, <2>1, <3>1, <3>2
  <2>2. CASE run.phase # "measuring"
    <3>1. rows = run.rows /\ Len(rows) = options.frames
      BY <1>2, <1>4, <2>2 DEF Lapping
    <3>2. RowsKnown(rows, recorded)
      <4>1. \A n \in 0 .. lastSerial : n \in 0 .. recorded
        BY <1>1
      <4> QED
        BY <1>2, <3>1, <4>1 DEF RowsKnown
    <3> QED
      BY <1>1, <1>2, <3>1, <3>2
  <2> QED
    BY <2>1, <2>2
<1>6. PICK got : got = Attach(rows, timings, run.lastGpu)
  OBVIOUS
<1>7. /\ RowsKnown(got, recorded) /\ RowsAreTheirFrames(caseIndex, got)
      /\ Len(got) = Len(rows) /\ Len(rows) \in Nat
  BY <1>5, <1>6, AttachKeeps
<1>8. PICK drained : drained = IF run.phase = "measuring" THEN run.drained ELSE run.drained + 1
  OBVIOUS
<1>9. PICK last : last = LaterOf(run.lastGpu, timings)
  OBVIOUS
<1>10. PICK next : next = [ run EXCEPT !.drained = drained, !.rows = got, !.lastGpu = last ]
  OBVIOUS
<1>11. PICK phase : phase = NextPhase(next)
  OBVIOUS
<1>12. PICK r : r = [ next EXCEPT !.phase = phase ]
  OBVIOUS
<1>13. r = Measure(run, serial)
  BY <1>4, <1>6, <1>8, <1>9, <1>10, <1>11, <1>12, Zenon DEF Measure
<1>14. next = [phase |-> run.phase, least |-> run.least, most |-> run.most, warmed |-> run.warmed,
               settled |-> run.settled, drained |-> drained, lastGpu |-> last, rows |-> got]
  BY <1>2, <1>10 DEF IsRun
<1>15. r = [phase |-> phase, least |-> run.least, most |-> run.most, warmed |-> run.warmed,
            settled |-> run.settled, drained |-> drained, lastGpu |-> last, rows |-> got]
  BY <1>12, <1>14
<1>16. next.phase = run.phase /\ next.rows = got
  BY <1>14
<1>17. IsRun(r) /\ r.phase = phase /\ r.rows = got
  BY <1>15 DEF IsRun
<1>18. \/ phase = "measuring" /\ ~(Len(got) >= options.frames)
       \/ phase \in {"finished", "draining"} /\ Len(got) = options.frames
  <2>1. CASE run.phase = "draining" \/ Len(got) >= options.frames
    <3>1. phase \in {"finished", "draining"}
      BY <1>11, <1>16, <2>1 DEF NextPhase
    <3>2. Len(got) = options.frames
      BY <1>1, <1>5, <1>7, <2>1
    <3> QED
      BY <3>1, <3>2
  <2>2. CASE ~(run.phase = "draining" \/ Len(got) >= options.frames)
    <3>1. phase = "measuring"
      BY <1>11, <1>16, <2>2, Zenon DEF NextPhase
    <3> QED
      BY <2>2, <3>1
  <2> QED
    BY <2>1, <2>2
<1>19. \/ Lapping(r.phase, r.rows)
       \/ r.phase = "finished" /\ Len(r.rows) = options.frames
  BY <1>1, <1>5, <1>7, <1>17, <1>18 DEF Lapping
<1> QED
  BY <1>7, <1>13, <1>17, <1>19

LEMMA FrameDrawnKeeps ==
  ASSUME BenchmarkInv, stage = "end", NEW idle \in BOOLEAN, NEW serial,
         serial = IF recorded # lastSerial THEN recorded ELSE 0,
         NEW r, r = OnFrameDrawn(run, serial, idle)
  PROVE  /\ IsRun(r)
         /\ RowsKnown(r.rows, recorded) /\ RowsAreTheirFrames(caseIndex, r.rows)
         /\ \/ Lapping(r.phase, r.rows)
            \/ r.phase = "finished" /\ Len(r.rows) = options.frames
<1>1. CASE run.phase = "warmup"
  <2>1. Running /\ options.frames \in Nat /\ options.frames > 0
    BY BenchmarkAssumption DEF Running, BenchmarkInv, PlanKept
  <2>2. IsRun(run) /\ run.rows = << >>
    BY <1>1, <2>1 DEF BenchmarkInv, RunKept, Lapping, IsRun
  <2>3. r = Warm(run, idle)
    BY <1>1 DEF OnFrameDrawn
  <2>4. IsRun(r) /\ r.rows = << >> /\ r.phase \in {"warmup", "measuring"}
    BY <1>1, <2>2, <2>3, WarmKeeps
  <2>5. PICK rows : rows = << >>
    OBVIOUS
  <2>6. rows \in Seq(Range(rows)) /\ DOMAIN rows = {} /\ Len(rows) = 0
    BY <2>5
  <2>7. RowsKnown(rows, recorded) /\ RowsAreTheirFrames(caseIndex, rows)
    BY <2>6 DEF RowsKnown, RowsAreTheirFrames
  <2>8. Lapping(r.phase, r.rows)
    BY <2>1, <2>4, <2>5, <2>6 DEF Lapping
  <2> QED
    BY <2>4, <2>5, <2>7, <2>8
<1>2. CASE run.phase # "warmup"
  <2>1. r = Measure(run, serial)
    BY <1>2 DEF OnFrameDrawn
  <2> QED
    BY <1>2, <2>1, MeasureKeeps
<1> QED
  BY <1>1, <1>2

(* A case ends with a row for each frame of the lap, and, when it is the last *)
(* of a suite, with reports on all of them.                                 *)
LEMMA FinishCaseKeeps ==
  ASSUME PlanKept, CaseKept, ResultsKept, ReportsKept, caseIndex \in DOMAIN plan, stage = "end",
         NEW r, Len(r.rows) = options.frames, RowsAreTheirFrames(caseIndex, r.rows),
         FinishCase(r), UNCHANGED << options, plan >>
  PROVE  /\ run' = None /\ caseIndex' \in 1 .. Len(plan) + 1
         /\ stage' \in {"begin", "finished", "failed"}
         /\ stage' = "begin" => caseIndex' <= Len(plan)
         /\ ResultsKept' /\ ReportsKept'
<1> DEFINE name == StemOf(caseIndex)
<1>1. PICK written \in Written :
        /\ results' = Append(results, ResultOf(r)) /\ run' = None
        /\ caseIndex' = caseIndex + 1
        /\ WriteFrames(written)
        /\ IF Suite
             THEN IF caseIndex < Len(plan) THEN stage' = "begin" /\ UNCHANGED reports
                  ELSE WriteSuite(results', written)
             ELSE /\ stage' = IF written THEN "finished" ELSE "failed"
                  /\ UNCHANGED reports
  BY Zenon DEF FinishCase
<1>2. Len(plan) \in Nat \ {0} /\ DOMAIN plan = 1 .. Len(plan) /\ caseIndex \in 1 .. Len(plan)
  BY PlanFacts
<1>3. PICK new : new = ResultOf(r)
  OBVIOUS
<1>4. new.case = caseIndex /\ new.rows = r.rows
  BY <1>3 DEF ResultOf
<1>5. results \in Seq(Range(results)) /\ Len(results) = caseIndex - 1
      /\ DOMAIN results = 1 .. caseIndex - 1
  BY DEF ResultsKept
<1>6. /\ DOMAIN results' = 1 .. caseIndex /\ Len(results') = caseIndex
      /\ \A c \in DOMAIN results : results'[c] = results[c]
      /\ results'[caseIndex] = new
      /\ results' \in Seq(Range(results'))
  <2>1. PICK rs : rs = Append(results, new)
    OBVIOUS
  <2>2. results \in Seq(Range(results) \cup {new})
    BY <1>5
  <2>3. /\ DOMAIN rs = 1 .. caseIndex /\ Len(rs) = caseIndex
        /\ \A c \in 1 .. caseIndex - 1 : rs[c] = results[c]
        /\ rs[caseIndex] = new
        /\ rs \in Seq(Range(results) \cup {new})
    BY <1>2, <1>5, <2>1, <2>2
  <2>4. rs = [c \in 1 .. caseIndex |-> rs[c]]
    BY <2>3
  <2>5. rs \in [1 .. caseIndex -> Range(rs)]
    BY <2>3, <2>4 DEF Range
  <2>6. rs \in Seq(Range(rs))
    BY <1>2, <2>5
  <2> QED
    BY <1>1, <1>3, <1>5, <2>1, <2>3, <2>6
<1>7. \A c : StemOf(c)' = StemOf(c) /\ ScaleOf(c)' = ScaleOf(c)
  BY DEF StemOf, KeyOf, ScaleOf
<1>8. \A c, rows : RowsAreTheirFrames(c, rows)' <=> RowsAreTheirFrames(c, rows)
  BY <1>7 DEF RowsAreTheirFrames
<1>9. ASSUME NEW c \in DOMAIN results'
      PROVE  /\ results'[c].case = c /\ Len(results'[c].rows) = options'.frames
             /\ RowsAreTheirFrames(c, results'[c].rows)
  <2>1. CASE c \in DOMAIN results
    BY <1>6, <2>1 DEF ResultsKept
  <2>2. CASE c = caseIndex
    BY <1>4, <1>6, <2>2
  <2> QED
    BY <1>2, <1>5, <1>6, <2>1, <2>2
<1>10. ASSUME NEW file \in DOMAIN frames'
       PROVE  \E c \in DOMAIN results' : file = StemOf(c) /\ frames'[file] = c
  <2>1. caseIndex \in DOMAIN results' /\ DOMAIN results \subseteq DOMAIN results'
    BY <1>2, <1>5, <1>6
  <2>2. frames' = frames \/ frames' = [ f \in DOMAIN frames \cup {name} |->
                                          IF f = name THEN caseIndex ELSE frames[f] ]
    BY <1>1, Zenon DEF WriteFrames
  <2> HIDE DEF name
  <2>3. \/ file = name /\ frames'[file] = caseIndex
        \/ file \in DOMAIN frames /\ frames'[file] = frames[file]
    BY <2>2
  <2> QED
    BY <2>1, <2>3 DEF ResultsKept, name
<1>11. ResultsKept'
  <2>1. Len(results') = caseIndex' - 1
    BY <1>1, <1>2, <1>6
  <2> QED
    BY <1>6, <1>7, <1>8, <1>9, <1>10, <2>1 DEF ResultsKept
<1>12. UNCHANGED reports => ReportsKept'
  BY ReportsStay DEF ReportsKept, Suite
<1>13. CASE ~Suite
  <2>1. stage' \in {"finished", "failed"} /\ UNCHANGED reports
    BY <1>1, <1>13
  <2> QED
    BY <1>1, <1>2, <1>11, <1>12, <2>1
<1>14. CASE Suite /\ caseIndex < Len(plan)
  <2>1. stage' = "begin" /\ UNCHANGED reports
    BY <1>1, <1>14
  <2> QED
    BY <1>1, <1>2, <1>11, <1>12, <1>14, <2>1
<1>15. CASE Suite /\ ~(caseIndex < Len(plan))
  <2>1. WriteSuite(results', written)
    BY <1>1, <1>15
  <2>2. stage' \in {"finished", "failed"}
    BY <2>1 DEF WriteSuite
  <2>3. PICK rs : rs = results'
    OBVIOUS
  <2>4. reports' = None \/ reports' = [ json |-> SuiteJson(rs), report |-> SuiteReport(rs) ]
    BY <2>1, <2>3, Zenon DEF WriteSuite
  <2>5. DOMAIN rs = DOMAIN plan
    BY <1>2, <1>6, <1>15, <2>3
  <2>6. ASSUME reports' # None
        PROVE  /\ DOMAIN reports'.json.cases = DOMAIN plan
               /\ reports' = [ json |-> SuiteJson(reports'.json.cases),
                               report |-> SuiteReport(reports'.json.cases) ]
    <3>1. SuiteJson(rs).cases = rs
      BY DEF SuiteJson
    <3>2. PICK json, report : json = SuiteJson(rs) /\ report = SuiteReport(rs)
      OBVIOUS
    <3>3. reports'.json.cases = rs
      BY <2>4, <2>6, <3>1, <3>2
    <3> QED
      BY <2>4, <2>5, <2>6, <3>3
  <2>7. ReportsKept'
    BY <1>15, <2>6, ReportsStay DEF ReportsKept, Suite
  <2> QED
    BY <1>1, <1>2, <1>11, <2>2, <2>7
<1> QED
  BY <1>13, <1>14, <1>15

LEMMA EndFrameInv == ASSUME BenchmarkInv, EndFrame PROVE BenchmarkInv'
<1> USE DEF BenchmarkInv
<1>1. PICK serial : serial = IF recorded # lastSerial THEN recorded ELSE 0
  OBVIOUS
<1>2. PICK idle \in BOOLEAN :
        LET r == OnFrameDrawn(run, serial, idle)
        IN  IF r.phase = "finished" THEN FinishCase(r)
            ELSE /\ run' = r /\ stage' = "begin"
                 /\ UNCHANGED << results, frames, reports, caseIndex, faults >>
  BY <1>1, Zenon DEF EndFrame
<1>3. PICK r : r = OnFrameDrawn(run, serial, idle)
  OBVIOUS
<1>4. IF r.phase = "finished" THEN FinishCase(r)
      ELSE /\ run' = r /\ stage' = "begin"
           /\ UNCHANGED << results, frames, reports, caseIndex, faults >>
  BY <1>2, <1>3
<1>5. /\ stage = "end" /\ lastSerial' = recorded
      /\ scale' = IF Scenario.target = "scale" THEN plan[caseIndex].load ELSE 100
      /\ UNCHANGED << options, plan, owned, world, recorded, queries, profiled, timings,
                      inFlight, download >>
  BY DEF EndFrame
<1>6. /\ IsRun(r) /\ RowsKnown(r.rows, recorded) /\ RowsAreTheirFrames(caseIndex, r.rows)
      /\ \/ Lapping(r.phase, r.rows)
         \/ r.phase = "finished" /\ Len(r.rows) = options.frames
  BY <1>1, <1>3, <1>5, FrameDrawnKeeps
<1>7. Running
  BY <1>5 DEF Running
<1>8. Len(plan) \in Nat \ {0} /\ DOMAIN plan = 1 .. Len(plan) /\ caseIndex \in DOMAIN plan
      /\ plan[caseIndex].load \in Nat
  BY <1>7, PlanFacts DEF CaseKept
<1>9. PlanKept' /\ (Suite' <=> Suite) /\ \A c : ScaleOf(c)' = ScaleOf(c)
  BY <1>5, PlanStays
<1>10. GpuKept'
  BY <1>5, GpuStays
<1>11. scale' = ScaleOf(caseIndex) /\ scale' \in Nat
  BY <1>5, <1>8 DEF ScaleOf, Scenario
<1>12. {recorded', lastSerial', scale'} \subseteq Nat /\ lastSerial' = recorded'
       /\ lastSerial' <= recorded'
  BY <1>5, <1>11 DEF CaseKept
<1>13. CASE r.phase = "finished"
  <2>1. Len(r.rows) = options.frames /\ FinishCase(r)
    BY <1>4, <1>6, <1>13 DEF Lapping
  <2>2. /\ run' = None /\ caseIndex' \in 1 .. Len(plan) + 1
        /\ stage' \in {"begin", "finished", "failed"}
        /\ stage' = "begin" => caseIndex' <= Len(plan)
        /\ ResultsKept' /\ ReportsKept'
    BY <1>5, <1>6, <1>8, <2>1, FinishCaseKeeps
  <2>3. ~Running'
    BY <2>2 DEF Running
  <2>4. CaseKept'
    BY <1>5, <1>12, <2>2, <2>3 DEF CaseKept
  <2>5. WorldKept'
    BY <1>5, <1>9, <2>3 DEF WorldKept
  <2>6. FrameKept' /\ RunKept'
    BY <2>2, <2>3 DEF FrameKept, RunKept
  <2> QED
    BY <1>9, <1>10, <2>2, <2>4, <2>5, <2>6
<1>14. CASE r.phase # "finished"
  <2>1. /\ run' = r /\ stage' = "begin"
        /\ UNCHANGED << results, frames, reports, caseIndex >>
    BY <1>4, <1>14
  <2>2. ResultsKept' /\ ReportsKept'
    BY <1>5, <2>1, ResultsStay
  <2>3. CaseKept'
    BY <1>5, <1>7, <1>8, <1>12, <2>1 DEF CaseKept
  <2>4. WorldKept'
    BY <1>5, <1>7, <1>9, <2>1 DEF WorldKept
  <2>5. FrameKept'
    BY <2>1 DEF FrameKept
  <2>6. RowsAreTheirFrames(caseIndex, run.rows)'
    BY <1>6, <1>9, <2>1 DEF RowsAreTheirFrames
  <2>7. RowsKnown(run.rows, lastSerial)'
    BY <1>5, <1>6, <2>1 DEF RowsKnown
  <2>8. Lapping(run.phase, run.rows)'
    BY <1>5, <1>6, <1>14, <2>1 DEF Lapping
  <2>9. RunKept'
    <3>1. scale' = ScaleOf(caseIndex)'
      BY <1>9, <1>11, <2>1
    <3>2. IsRun(run)'
      BY <1>6, <2>1 DEF IsRun
    <3> QED
      BY <2>6, <2>7, <2>8, <3>1, <3>2 DEF RunKept, IsRun
  <2> QED
    BY <1>9, <1>10, <2>2, <2>3, <2>4, <2>5, <2>9
<1> QED
  BY <1>13, <1>14

LEMMA BenchmarkStepInv == BenchmarkInv /\ [BenchmarkNext]_benchmarkVars => BenchmarkInv'
<1> SUFFICES ASSUME BenchmarkInv, [BenchmarkNext]_benchmarkVars PROVE BenchmarkInv'
  OBVIOUS
<1>1. CASE UNCHANGED benchmarkVars
  <2> USE <1>1 DEF BenchmarkInv, benchmarkVars, driverVars, rendererVars
  <2>1. Running' <=> Running
    BY DEF Running
  <2>2. PlanKept'
    BY PlanStays
  <2>3. CaseKept' /\ WorldKept' /\ FrameKept'
    BY <2>1 DEF CaseKept, WorldKept, FrameKept, PlaceOf, Suite
  <2>4. GpuKept'
    BY GpuStays
  <2>5. RunKept'
    BY <2>1, RunStays
  <2>6. ResultsKept' /\ ReportsKept'
    BY ResultsStay
  <2> QED
    BY <2>2, <2>3, <2>4, <2>5, <2>6
<1> QED
  BY <1>1, BeginFrameInv, DrawInv, RecreateInv, EndFrameInv, InterruptInv, GpuFinishesInv,
     DownloadEndsInv DEF BenchmarkNext, Loop

(* For any scenarios, options and number of frames in flight: every          *)
(* measurement is the one its row says it is, runs end in the order of the    *)
(* plan with a row for every frame of the lap and are reported under their    *)
(* own names, every level with all its repeats, unless a level was asked for   *)
(* twice; and no frame draws with a material that is gone.                    *)
THEOREM RowsAreMeasured == BenchmarkSpec => []MeasurementsAreTheirOwn
<1>1. BenchmarkSpec => []BenchmarkInv
  BY BenchmarkInitInv, BenchmarkStepInv, PTL DEF BenchmarkSpec
<1> QED
  BY <1>1, ClaimsFollow, PTL

=============================================================================
