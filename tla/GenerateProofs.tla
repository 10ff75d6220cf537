----------------------------- MODULE GenerateProofs ---------------------------
(***************************************************************************)
(* Theorems about Generate, for any repositories, Metans, databases and        *)
(* channels, and any number of threads that is larger than that of files.     *)
(***************************************************************************)
EXTENDS Generate, FiniteSetTheorems, TLAPS

Queued(job) == \E i \in DOMAIN queue : queue[i] = job
Once(job) == \A i, j \in DOMAIN queue : queue[i] = job /\ queue[j] = job => i = j

\* While a producer is spawned, and only then, its job is in the queue, once, or on a
\* thread.
ProducersOnce ==
    \A f \in Files :
        /\ producer[f] = "spawned" <=> <<f, "produce">> \in busy \/ Queued(<<f, "produce">>)
        /\ ~(<<f, "produce">> \in busy /\ Queued(<<f, "produce">>))
        /\ Once(<<f, "produce">>)

\* What a place says of the producer and the channel.
PlacesKnow ==
    \A f \in Files :
        /\ pc[f] = "begin" => producer[f] = "none"
        /\ pc[f] \in {"recv", "join", "write", "end", "done"} => producer[f] # "none"
        /\ producer[f] = "ok" => sent[f] = Frags[f[2]]
        /\ pc[f] \in {"join", "end", "done"} => Closed(f) /\ taken[f] = sent[f]
        /\ pc[f] \in {"end", "done"} => producer[f] = "ok"

\* A store operation that is waited for is in the queue or on a thread.
StoresPending ==
    \A f \in Files :
        /\ io[f] = "asked" => <<f, "store">> \in busy \/ Queued(<<f, "store">>)
        /\ pc[f] = "dropped" => io[f] = "none"

\* What a task's futures are at while it runs.
TasksKnow ==
    /\ \A f \in Files : task[f[1]] = "running" => pc[f] # "dropped"
    /\ \A t \in Tasks : task[t] = "running" => \E m \in Metans : pc[<<t, m>>] # "done"
    /\ \A t \in Tasks : blocked[t] # None => blocked[t][1] = t /\ pc[blocked[t]] = "recv"

GenerateInv ==
    /\ TypeOK /\ IsFiniteSet(busy)
    /\ ProducersOnce /\ PlacesKnow /\ StoresPending /\ TasksKnow

-------------------------------------------------------------------------------
\* A file is a task and a Metan.
LEMMA FileParts == \A f \in Files : f[1] \in Tasks /\ f[2] \in Metans /\ f = <<f[1], f[2]>>
  BY DEF Files

\* The invariant holds in the beginning.
LEMMA GenerateInit == Init => GenerateInv
  <1> SUFFICES ASSUME Init PROVE GenerateInv
    OBVIOUS
  <1>1. IsFiniteSet(busy) /\ Cardinality(busy) = 0
    BY FS_EmptySet DEF Init
  <1>2. TypeOK
    <2>1. \A f \in Files : sent[f] <= Frags[f[2]] /\ sent[f] - taken[f] \in 0 .. Cap
      BY FileParts, GenerateAssumption DEF Init
    <2> QED
      BY <1>1, <2>1, GenerateAssumption DEF Init, TypeOK, Storing
  <1>3. ProducersOnce /\ PlacesKnow /\ StoresPending
    BY DEF Init, ProducersOnce, PlacesKnow, StoresPending, Queued, Once
  <1>4. TasksKnow
    <2>1. \A t \in Tasks, m \in Metans : <<t, m>> \in Files
      BY DEF Files
    <2> QED
      BY <2>1, GenerateAssumption, FileParts DEF Init, TasksKnow
  <1> QED
    BY <1>1, <1>2, <1>3, <1>4 DEF GenerateInv

\* A job more at the end of the queue.
LEMMA Enqueue ==
    ASSUME queue \in Seq(Job), NEW job \in Job, queue' = Append(queue, job)
    PROVE /\ queue' \in Seq(Job)
          /\ \A x : Queued(x)' <=> Queued(x) \/ x = job
          /\ \A x : Once(x) /\ (x # job \/ ~Queued(x)) => Once(x)'
  <1> DEFINE n == Len(queue) + 1
  <1>1. /\ queue' \in Seq(Job) /\ DOMAIN queue' = DOMAIN queue \union {n} /\ n \notin DOMAIN queue
        /\ \A i \in DOMAIN queue : queue'[i] = queue[i]
        /\ queue'[n] = job
    OBVIOUS
  <1> HIDE DEF n
  <1>2. ASSUME NEW x PROVE Queued(x)' <=> Queued(x) \/ x = job
    BY <1>1 DEF Queued
  <1>3. ASSUME NEW x, Once(x), x # job \/ ~Queued(x) PROVE Once(x)'
    BY <1>1, <1>3 DEF Queued, Once
  <1> QED
    BY <1>1, <1>2, <1>3

\* The first job of the queue is taken.
LEMMA Dequeue ==
    ASSUME queue \in Seq(Job), queue # <<>>, queue' = Tail(queue)
    PROVE /\ queue' \in Seq(Job) /\ Head(queue) \in Job
          /\ \A x : Queued(x) <=> Queued(x)' \/ x = Head(queue)
          /\ \A x : Once(x) => Once(x)' /\ (x = Head(queue) => ~Queued(x)')
  <1>1. /\ queue' \in Seq(Job) /\ Head(queue) \in Job
        /\ 1 \in DOMAIN queue /\ queue[1] = Head(queue)
        /\ \A i \in DOMAIN queue' : i + 1 \in DOMAIN queue /\ i + 1 # 1 /\ queue'[i] = queue[i + 1]
        /\ \A i \in DOMAIN queue : i # 1 => i - 1 \in DOMAIN queue' /\ queue'[i - 1] = queue[i]
        /\ \A i, j \in DOMAIN queue' : i + 1 = j + 1 => i = j
    OBVIOUS
  <1>2. ASSUME NEW x PROVE Queued(x) <=> Queued(x)' \/ x = Head(queue)
    <2>1. ASSUME NEW i \in DOMAIN queue, queue[i] = x PROVE Queued(x)' \/ x = Head(queue)
      BY <1>1, <2>1 DEF Queued
    <2>2. ASSUME NEW i \in DOMAIN queue', queue'[i] = x PROVE Queued(x)
      BY <1>1, <2>2 DEF Queued
    <2>3. x = Head(queue) => Queued(x)
      BY <1>1 DEF Queued
    <2> QED
      BY <2>1, <2>2, <2>3 DEF Queued
  <1>3. ASSUME NEW x, Once(x) PROVE Once(x)' /\ (x = Head(queue) => ~Queued(x)')
    BY <1>1, <1>3 DEF Queued, Once
  <1> QED
    BY <1>1, <1>2, <1>3

\* Nothing changes if the queue does not.
LEMMA SameQueue ==
    ASSUME queue' = queue PROVE \A x : (Queued(x)' <=> Queued(x)) /\ (Once(x)' <=> Once(x))
  <1> SUFFICES ASSUME NEW x PROVE (Queued(x)' <=> Queued(x)) /\ (Once(x)' <=> Once(x))
    OBVIOUS
  <1> QED
    BY DEF Queued, Once

\* One job more or less on the threads.
LEMMA OneMore ==
    ASSUME NEW S, NEW x, IsFiniteSet(S)
    PROVE /\ IsFiniteSet(S \union {x}) /\ IsFiniteSet(S \ {x})
          /\ Cardinality(S) \in Nat
          /\ Cardinality(S \union {x}) \in {Cardinality(S), Cardinality(S) + 1}
          /\ Cardinality(S \ {x}) \in {Cardinality(S), Cardinality(S) - 1}
  <1>1. Cardinality(S) \in Nat
    BY FS_CardinalityType
  <1>2. IsFiniteSet(S \union {x})
        /\ Cardinality(S \union {x}) = IF x \in S THEN Cardinality(S) ELSE Cardinality(S) + 1
    BY FS_AddElement
  <1>3. IsFiniteSet(S \ {x})
        /\ Cardinality(S \ {x}) = IF x \in S THEN Cardinality(S) - 1 ELSE Cardinality(S)
    BY FS_RemoveElement
  <1> QED
    BY <1>1, <1>2, <1>3

\* Jobs are told apart by their files and kinds.
LEMMA Jobs ==
    \A f, g \in Files : /\ <<f, "produce">> \in Job /\ <<f, "store">> \in Job
                        /\ <<f, "produce">> # <<g, "store">>
                        /\ <<f, "produce">> = <<g, "produce">> => f = g
                        /\ <<f, "store">> = <<g, "store">> => f = g
  BY DEF Job

\* A store operation is queued.
LEMMA AskStoreKeeps == ASSUME GenerateInv, NEW f \in Files, AskStore(f) PROVE GenerateInv'
  <1> DEFINE job == <<f, "store">>
  <1>1. /\ queue' = Append(queue, job) /\ io' = [io EXCEPT ![f] = "asked"]
        /\ UNCHANGED <<task, blocked, pc, producer, sent, taken, busy>>
        /\ job \in Job /\ queue \in Seq(Job)
    BY Jobs DEF AskStore, GenerateInv, TypeOK
  <1>2. TypeOK' /\ IsFiniteSet(busy')
    BY <1>1, Enqueue DEF GenerateInv, TypeOK
  <1> HIDE DEF job
  <1>3. ProducersOnce'
    <2>1. \A g \in Files : <<g, "produce">> # job
      BY Jobs DEF job
    <2> QED
      BY <1>1, <2>1, Enqueue DEF GenerateInv, ProducersOnce
  <1>4. PlacesKnow' /\ TasksKnow'
    BY <1>1 DEF GenerateInv, PlacesKnow, TasksKnow, Closed
  <1>5. StoresPending'
    <2>1. pc[f] # "dropped" /\ \A g \in Files : io'[g] = IF g = f THEN "asked" ELSE io[g]
      BY <1>1 DEF AskStore, Storing, GenerateInv, TypeOK
    <2> QED
      BY <1>1, <2>1, Enqueue DEF GenerateInv, StoresPending, job
  <1> QED
    BY <1>2, <1>3, <1>4, <1>5 DEF GenerateInv

\* A future goes on after a store operation.
LEMMA StoredKeeps == ASSUME GenerateInv, NEW f \in Files, Stored(f) PROVE GenerateInv'
  <1>1. /\ f = <<f[1], f[2]>> /\ f[1] \in Tasks /\ f[2] \in Metans
        /\ task[f[1]] = "running" /\ blocked[f[1]] \in {None, f} /\ pc[f] \in Storing
        /\ io' = [io EXCEPT ![f] = "none"]
        /\ pc' = [pc EXCEPT ![f] = IF pc[f] = "end" THEN "done" ELSE "recv"]
        /\ UNCHANGED <<blocked, sent, taken, busy>>
    BY FileParts DEF Stored, Polls, Goto
  <1>2. task' \in [Tasks -> {"running", "done", "failed"}]
        /\ \A t \in Tasks : task'[t] = "running" => task[t] = "running"
    BY <1>1 DEF Stored, GenerateInv, TypeOK
  <1>3. \/ /\ pc[f] = "begin" /\ producer' = [producer EXCEPT ![f] = "spawned"]
           /\ queue' = Append(queue, <<f, "produce">>)
        \/ pc[f] # "begin" /\ UNCHANGED <<producer, queue>>
    BY DEF Stored
  <1>4. queue \in Seq(Job) /\ <<f, "produce">> \in Job
    BY Jobs DEF GenerateInv, TypeOK
  <1>5. TypeOK' /\ IsFiniteSet(busy')
    BY <1>1, <1>2, <1>3, <1>4, Enqueue DEF GenerateInv, TypeOK
  <1>6. ProducersOnce'
    <2>1. CASE pc[f] # "begin"
      BY <1>1, <1>3, <2>1, SameQueue DEF GenerateInv, ProducersOnce
    <2>2. CASE pc[f] = "begin"
      <3>1. /\ producer[f] = "none" /\ <<f, "produce">> \notin busy
            /\ ~Queued(<<f, "produce">>)
        BY <2>2 DEF GenerateInv, ProducersOnce, PlacesKnow
      <3>2. /\ queue' = Append(queue, <<f, "produce">>)
            /\ \A g \in Files : producer'[g] = IF g = f THEN "spawned" ELSE producer[g]
        BY <1>3, <2>2 DEF GenerateInv, TypeOK
      <3> QED
        BY <1>1, <1>4, <3>1, <3>2, Enqueue, Jobs DEF GenerateInv, ProducersOnce
    <2> QED
      BY <2>1, <2>2
  <1>7. PlacesKnow'
    <2>1. \A g \in Files : g # f => pc'[g] = pc[g] /\ producer'[g] = producer[g]
      BY <1>1, <1>3 DEF GenerateInv, TypeOK
    <2>2. /\ pc[f] = "begin" => producer'[f] = "spawned" /\ pc'[f] = "recv"
          /\ pc[f] = "write" => producer'[f] = producer[f] /\ pc'[f] = "recv"
          /\ pc[f] = "end" => producer'[f] = producer[f] /\ pc'[f] = "done"
      BY <1>1, <1>3 DEF GenerateInv, TypeOK
    <2> QED
      BY <1>1, <2>1, <2>2 DEF GenerateInv, PlacesKnow, Closed, Storing
  <1>8. StoresPending'
    BY <1>1, <1>3, <1>4, Enqueue, SameQueue DEF GenerateInv, StoresPending, TypeOK
  <1>9. TasksKnow'
    <2>1. \A g \in Files : pc'[g] = "dropped" => pc[g] = "dropped"
      BY <1>1 DEF GenerateInv, TypeOK
    <2>2. ASSUME NEW t \in Tasks, task'[t] = "running" PROVE \E m \in Metans : pc'[<<t, m>>] # "done"
      <3>1. PICK m \in Metans : pc[<<t, m>>] # "done"
        BY <1>2, <2>2 DEF GenerateInv, TasksKnow
      <3>2. <<t, m>> \in Files
        BY DEF Files
      <3>3. CASE <<t, m>> # f \/ pc[f] # "end"
        BY <1>1, <3>1, <3>2, <3>3 DEF GenerateInv, TypeOK
      <3>4. CASE <<t, m>> = f /\ pc[f] = "end"
        <4>1. t = f[1]
          BY <3>4
        <4>2. PICK k \in Metans : <<t, k>> # f /\ pc[<<t, k>>] # "done"
          BY <1>1, <2>2, <3>4, <4>1 DEF Stored, GenerateInv, TypeOK
        <4>3. <<t, k>> \in Files
          BY DEF Files
        <4> QED
          BY <1>1, <4>2, <4>3 DEF GenerateInv, TypeOK
      <3> QED
        BY <3>3, <3>4
    <2>3. ASSUME NEW t \in Tasks, blocked'[t] # None PROVE blocked'[t][1] = t /\ pc'[blocked'[t]] = "recv"
      <3>1. blocked'[t] = blocked[t] /\ blocked[t] \in Files /\ blocked[t][1] = t /\ pc[blocked[t]] = "recv"
        BY <1>1, <2>3 DEF GenerateInv, TypeOK, TasksKnow
      <3>2. blocked[t] # f
        BY <1>1, <3>1 DEF Storing
      <3> QED
        BY <1>1, <3>1, <3>2 DEF GenerateInv, TypeOK
    <2> QED
      BY <1>2, <2>1, <2>2, <2>3, FileParts DEF GenerateInv, TasksKnow
  <1> QED
    BY <1>5, <1>6, <1>7, <1>8, <1>9 DEF GenerateInv

\* The futures of a task are dropped; its jobs stay.
LEMMA DropKeeps ==
    ASSUME GenerateInv, NEW t \in Tasks, DropFutures(t), UNCHANGED <<producer, sent, taken, queue, busy>>
    PROVE GenerateInv'
  <1>1. /\ task' = [task EXCEPT ![t] = "failed"] /\ blocked' = [blocked EXCEPT ![t] = None]
        /\ pc' = [f \in Files |-> IF f[1] = t THEN "dropped" ELSE pc[f]]
        /\ io' = [f \in Files |-> IF f[1] = t THEN "none" ELSE io[f]]
    BY DEF DropFutures
  <1>2. TypeOK' /\ IsFiniteSet(busy')
    BY <1>1 DEF GenerateInv, TypeOK
  <1>3. ProducersOnce' /\ StoresPending'
    BY <1>1, SameQueue DEF GenerateInv, ProducersOnce, StoresPending
  <1>4. PlacesKnow'
    BY <1>1 DEF GenerateInv, PlacesKnow, Closed
  <1>5. TasksKnow'
    <2>1. \A u \in Tasks : /\ task'[u] = "running" => u # t /\ task[u] = "running"
                           /\ blocked'[u] # None => u # t /\ blocked'[u] = blocked[u]
      BY <1>1 DEF GenerateInv, TypeOK
    <2>2. \A f \in Files : f[1] # t => pc'[f] = pc[f]
      BY <1>1
    <2>3. \A u \in Tasks, m \in Metans : <<u, m>> \in Files /\ <<u, m>>[1] = u
      BY DEF Files
    <2>4. \A u \in Tasks : task'[u] = "running" => \E m \in Metans : pc'[<<u, m>>] # "done"
      BY <2>1, <2>2, <2>3 DEF GenerateInv, TasksKnow
    <2>5. \A u \in Tasks : blocked'[u] # None => blocked'[u][1] = u /\ pc'[blocked'[u]] = "recv"
      BY <2>1, <2>2 DEF GenerateInv, TasksKnow, TypeOK
    <2> QED
      BY <2>1, <2>2, <2>4, <2>5, FileParts DEF GenerateInv, TasksKnow
  <1> QED
    BY <1>2, <1>3, <1>4, <1>5 DEF GenerateInv

\* A future leaves a place where it has not stored or receives.
LEMMA ReceiveKeeps == ASSUME GenerateInv, NEW f \in Files, Receive(f) PROVE GenerateInv'
  <1>1. /\ f[1] \in Tasks /\ task[f[1]] = "running" /\ blocked[f[1]] \in {None, f} /\ pc[f] = "recv"
        /\ UNCHANGED <<task, io, producer, sent, queue, busy>>
    BY FileParts DEF Receive, Polls
  <1>2. \/ /\ taken[f] < sent[f] /\ taken' = [taken EXCEPT ![f] = @ + 1]
           /\ pc' = [pc EXCEPT ![f] = "write"] /\ blocked' = [blocked EXCEPT ![f[1]] = None]
        \/ /\ taken[f] = sent[f] /\ Closed(f) /\ taken' = taken
           /\ pc' = [pc EXCEPT ![f] = "join"] /\ blocked' = [blocked EXCEPT ![f[1]] = None]
        \/ /\ taken' = taken /\ pc' = pc /\ blocked' = [blocked EXCEPT ![f[1]] = f]
    BY DEF Receive, Goto
  <1>3. TypeOK' /\ IsFiniteSet(busy')
    <2>1. pc' \in [Files -> Storing \union {"recv", "join", "done", "dropped"}]
      BY <1>2 DEF GenerateInv, TypeOK, Storing
    <2>2. blocked' \in [Tasks -> Files \union {None}]
      BY <1>1, <1>2 DEF GenerateInv, TypeOK
    <2>3. /\ taken' \in [Files -> Nat]
          /\ \A g \in Files : sent[g] <= Frags[g[2]] /\ sent[g] - taken'[g] \in 0 .. Cap
      <3>1. CASE taken' = taken
        BY <3>1 DEF GenerateInv, TypeOK
      <3>2. CASE taken[f] < sent[f] /\ taken' = [taken EXCEPT ![f] = @ + 1]
        <4>1. /\ taken' \in [Files -> Nat] /\ taken'[f] = taken[f] + 1
              /\ \A g \in Files : g # f => taken'[g] = taken[g]
          BY <3>2 DEF GenerateInv, TypeOK
        <4>2. sent[f] - taken'[f] \in 0 .. Cap
          BY <3>2, <4>1, GenerateAssumption DEF GenerateInv, TypeOK
        <4> QED
          BY <4>1, <4>2 DEF GenerateInv, TypeOK
      <3> QED
        BY <1>2, <3>1, <3>2
    <2> QED
      BY <1>1, <2>1, <2>2, <2>3 DEF GenerateInv, TypeOK
  <1>4. \A g \in Files : pc'[g] = IF g = f THEN pc'[f] ELSE pc[g]
    BY <1>2 DEF GenerateInv, TypeOK
  <1>5. pc'[f] \in {"write", "join", "recv"}
    BY <1>1, <1>2 DEF GenerateInv, TypeOK
  <1>6. ProducersOnce' /\ StoresPending'
    BY <1>1, <1>4, <1>5, SameQueue DEF GenerateInv, ProducersOnce, StoresPending
  <1>7. PlacesKnow'
    BY <1>1, <1>2 DEF GenerateInv, PlacesKnow, Closed, TypeOK
  <1>8. TasksKnow'
    <2>1. blocked \in [Tasks -> Files \union {None}]
      BY DEF GenerateInv, TypeOK
    <2>2. \A u \in Tasks, m \in Metans : <<u, m>> \in Files
      BY DEF Files
    <2>3. \A u \in Tasks : u # f[1] => blocked'[u] = blocked[u]
      BY <1>1, <1>2, <2>1
    <2>4. blocked'[f[1]] = None \/ (blocked'[f[1]] = f /\ pc'[f] = "recv")
      BY <1>1, <1>2, <2>1
    <2>5. ASSUME NEW u \in Tasks, blocked'[u] # None
          PROVE blocked'[u][1] = u /\ pc'[blocked'[u]] = "recv"
      <3>1. CASE u = f[1]
        BY <2>4, <2>5, <3>1
      <3>2. CASE u # f[1]
        <4>1. blocked[u] \in Files /\ blocked[u][1] = u /\ pc[blocked[u]] = "recv"
          BY <2>3, <2>5, <3>2 DEF GenerateInv, TypeOK, TasksKnow
        <4> QED
          BY <1>4, <1>5, <2>3, <3>2, <4>1
      <3> QED
        BY <3>1, <3>2
    <2>6. \A u \in Tasks : task'[u] = "running" => \E m \in Metans : pc'[<<u, m>>] # "done"
      BY <1>1, <1>4, <1>5, <2>2 DEF GenerateInv, TasksKnow
    <2> QED
      BY <1>1, <1>4, <1>5, <2>5, <2>6 DEF GenerateInv, TasksKnow
  <1> QED
    BY <1>3, <1>6, <1>7, <1>8 DEF GenerateInv

\* The producer's result is read.
LEMMA JoinKeeps == ASSUME GenerateInv, NEW f \in Files, Join(f) PROVE GenerateInv'
  <1>1. /\ f[1] \in Tasks /\ pc[f] = "join"
        /\ UNCHANGED <<producer, sent, taken, queue, busy>>
    BY FileParts DEF Join
  <1>2. CASE producer[f] # "ok"
    BY <1>1, <1>2, DropKeeps DEF Join
  <1>3. CASE producer[f] = "ok"
    <2>1. pc' = [pc EXCEPT ![f] = "end"] /\ UNCHANGED <<task, blocked, io>>
      BY <1>3 DEF Join, Goto
    <2>2. TypeOK' /\ IsFiniteSet(busy')
      BY <1>1, <2>1 DEF GenerateInv, TypeOK, Storing
    <2>3. ProducersOnce' /\ StoresPending'
      BY <1>1, <2>1, SameQueue DEF GenerateInv, ProducersOnce, StoresPending
    <2>4. \A g \in Files : pc'[g] = IF g = f THEN "end" ELSE pc[g]
      BY <2>1 DEF GenerateInv, TypeOK
    <2>5. PlacesKnow'
      BY <1>1, <1>3, <2>1, <2>4 DEF GenerateInv, PlacesKnow, Closed
    <2>6. \A u \in Tasks, m \in Metans : <<u, m>> \in Files
      BY DEF Files
    <2>7. \A u \in Tasks : blocked[u] # None => blocked[u] \in Files
      BY DEF GenerateInv, TypeOK
    <2>8. TasksKnow'
      BY <1>1, <2>1, <2>4, <2>6, <2>7 DEF GenerateInv, TasksKnow
    <2> QED
      BY <2>2, <2>3, <2>5, <2>8 DEF GenerateInv
  <1> QED
    BY <1>2, <1>3

\* A thread takes the first job.
LEMMA StartJobKeeps == ASSUME GenerateInv, StartJob PROVE GenerateInv'
  <1>1. /\ queue # <<>> /\ Cardinality(busy) < Threads
        /\ busy' = busy \union {Head(queue)} /\ queue' = Tail(queue) /\ queue \in Seq(Job)
        /\ UNCHANGED <<task, blocked, pc, io, producer, sent, taken>>
    BY DEF StartJob, Limit, GenerateInv, TypeOK
  <1>2. IsFiniteSet(busy') /\ Cardinality(busy) \in Nat
        /\ Cardinality(busy') \in {Cardinality(busy), Cardinality(busy) + 1}
    BY <1>1, OneMore DEF GenerateInv
  <1>3. TypeOK'
    BY <1>1, <1>2, Dequeue, GenerateAssumption DEF GenerateInv, TypeOK
  <1>4. ProducersOnce' /\ StoresPending'
    BY <1>1, Dequeue DEF GenerateInv, ProducersOnce, StoresPending
  <1>5. PlacesKnow' /\ TasksKnow'
    BY <1>1 DEF GenerateInv, PlacesKnow, TasksKnow, Closed
  <1> QED
    BY <1>2, <1>3, <1>4, <1>5 DEF GenerateInv

\* A producer sends a fragment.
LEMMA ProduceKeeps == ASSUME GenerateInv, NEW f \in Files, Produce(f) PROVE GenerateInv'
  <1>1. /\ <<f, "produce">> \in busy /\ sent[f] < Frags[f[2]] /\ sent[f] < taken[f] + Cap
        /\ sent' = [sent EXCEPT ![f] = @ + 1]
        /\ UNCHANGED <<task, blocked, pc, io, producer, taken, queue, busy>>
    BY DEF Produce
  <1>2. TypeOK' /\ IsFiniteSet(busy')
    <2>1. Frags[f[2]] \in Nat /\ Cap \in Nat /\ sent[f] \in Nat /\ taken[f] \in Nat
      BY FileParts, GenerateAssumption DEF GenerateInv, TypeOK
    <2>2. sent' \in [Files -> Nat] /\ sent'[f] <= Frags[f[2]] /\ sent'[f] - taken[f] \in 0 .. Cap
      BY <1>1, <2>1 DEF GenerateInv, TypeOK
    <2>3. \A g \in Files : g # f => sent'[g] = sent[g]
      BY <1>1 DEF GenerateInv, TypeOK
    <2> QED
      BY <1>1, <2>2, <2>3 DEF GenerateInv, TypeOK
  <1>3. ProducersOnce' /\ StoresPending'
    BY <1>1, SameQueue DEF GenerateInv, ProducersOnce, StoresPending
  <1>4. producer[f] = "spawned"
    BY <1>1 DEF GenerateInv, ProducersOnce
  <1>5. PlacesKnow' /\ TasksKnow'
    <2>1. \A g \in Files : g # f => sent'[g] = sent[g]
      BY <1>1 DEF GenerateInv, TypeOK
    <2> QED
      BY <1>1, <1>4, <2>1 DEF GenerateInv, PlacesKnow, TasksKnow, Closed
  <1> QED
    BY <1>2, <1>3, <1>5 DEF GenerateInv

\* A producer ends, and says "ok" only when it has sent everything.
LEMMA EndProducerKeeps ==
    ASSUME GenerateInv, NEW f \in Files, ProducerEnds(f) \/ ProducerFails(f)
    PROVE GenerateInv'
  <1>1. PICK r \in {"ok", "error"} : EndProducer(f, r) /\ (r = "ok" => sent[f] = Frags[f[2]])
    BY DEF ProducerEnds, ProducerFails
  <1>2. /\ <<f, "produce">> \in busy /\ producer' = [producer EXCEPT ![f] = r]
        /\ busy' = busy \ {<<f, "produce">>}
        /\ UNCHANGED <<task, blocked, pc, io, sent, taken, queue>>
    BY <1>1 DEF EndProducer
  <1>3. IsFiniteSet(busy') /\ Cardinality(busy) \in Nat
        /\ Cardinality(busy') \in {Cardinality(busy), Cardinality(busy) - 1}
    BY <1>2, OneMore DEF GenerateInv
  <1>4. TypeOK'
    BY <1>2, <1>3, GenerateAssumption DEF GenerateInv, TypeOK
  <1>5. \A g \in Files : producer'[g] = IF g = f THEN r ELSE producer[g]
    BY <1>2 DEF GenerateInv, TypeOK
  <1>6. ProducersOnce' /\ StoresPending'
    BY <1>2, <1>5, Jobs, SameQueue DEF GenerateInv, ProducersOnce, StoresPending
  <1>7. producer[f] = "spawned"
    BY <1>2 DEF GenerateInv, ProducersOnce
  <1>8. PlacesKnow' /\ TasksKnow'
    BY <1>1, <1>2, <1>5, <1>7 DEF GenerateInv, PlacesKnow, TasksKnow, Closed
  <1> QED
    BY <1>3, <1>4, <1>6, <1>8 DEF GenerateInv

\* A store operation ends.
LEMMA StoreEndsKeeps == ASSUME GenerateInv, NEW f \in Files, StoreEnds(f) PROVE GenerateInv'
  <1>1. /\ <<f, "store">> \in busy /\ busy' = busy \ {<<f, "store">>}
        /\ UNCHANGED <<task, blocked, pc, producer, sent, taken, queue>>
    BY DEF StoreEnds
  <1>2. \/ io' = io /\ pc[f] = "dropped"
        \/ \E s \in {"ok", "error"} : io' = [io EXCEPT ![f] = s]
    BY DEF StoreEnds
  <1>3. IsFiniteSet(busy') /\ Cardinality(busy) \in Nat
        /\ Cardinality(busy') \in {Cardinality(busy), Cardinality(busy) - 1}
    BY <1>1, OneMore DEF GenerateInv
  <1>4. TypeOK'
    <2>1. io' \in [Files -> {"none", "asked", "ok", "error"}]
      BY <1>2 DEF GenerateInv, TypeOK
    <2> QED
      BY <1>1, <1>3, <2>1, GenerateAssumption DEF GenerateInv, TypeOK
  <1>5. ProducersOnce'
    BY <1>1, Jobs, SameQueue DEF GenerateInv, ProducersOnce
  <1>6. StoresPending'
    <2>1. \A g \in Files : \/ io'[g] = io[g] /\ g # f
                           \/ io'[g] = "none"
                           \/ g = f /\ pc[f] # "dropped" /\ io'[g] \in {"ok", "error"}
      <3>1. CASE pc[f] = "dropped"
        <4>1. io' = io
          BY <3>1 DEF StoreEnds
        <4>2. io[f] = "none"
          BY <3>1 DEF GenerateInv, StoresPending
        <4> QED
          BY <4>1, <4>2
      <3>2. CASE pc[f] # "dropped"
        <4>1. PICK r \in {"ok", "error"} : io' = [io EXCEPT ![f] = r]
          BY <3>2 DEF StoreEnds
        <4>2. io \in [Files -> {"none", "asked", "ok", "error"}]
          BY DEF GenerateInv, TypeOK
        <4> QED
          BY <3>2, <4>1, <4>2
      <3> QED
        BY <3>1, <3>2
    <2> QED
      BY <1>1, <2>1, Jobs, SameQueue DEF GenerateInv, StoresPending
  <1>7. PlacesKnow' /\ TasksKnow'
    BY <1>1 DEF GenerateInv, PlacesKnow, TasksKnow, Closed
  <1> QED
    BY <1>3, <1>4, <1>5, <1>6, <1>7 DEF GenerateInv

\* Every step keeps the invariant.
LEMMA GenerateStep == GenerateInv /\ [Next]_vars => GenerateInv'
  <1> SUFFICES ASSUME GenerateInv, [Next]_vars PROVE GenerateInv'
    OBVIOUS
  <1>1. CASE StartJob
    BY <1>1, StartJobKeeps
  <1>2. ASSUME NEW f \in Files, AskStore(f) \/ Stored(f) \/ NotStored(f) \/ Receive(f) \/ Join(f)
        PROVE GenerateInv'
    <2>1. f[1] \in Tasks
      BY FileParts
    <2>2. NotStored(f) => DropFutures(f[1]) /\ UNCHANGED <<producer, sent, taken, queue, busy>>
      BY DEF NotStored
    <2> QED
      BY <1>2, <2>1, <2>2, AskStoreKeeps, StoredKeeps, DropKeeps, ReceiveKeeps, JoinKeeps
  <1>3. ASSUME NEW f \in Files, Work(f) \/ ProducerFails(f) PROVE GenerateInv'
    BY <1>3, ProduceKeeps, EndProducerKeeps, StoreEndsKeeps DEF Work
  <1>4. ASSUME NEW t \in Tasks, Cancel(t) PROVE GenerateInv'
    BY <1>4, DropKeeps DEF Cancel
  <1>5. CASE UNCHANGED vars
    <2>1. TypeOK' /\ IsFiniteSet(busy')
      BY <1>5 DEF vars, GenerateInv, TypeOK
    <2>2. ProducersOnce' /\ StoresPending'
      BY <1>5, SameQueue DEF vars, GenerateInv, ProducersOnce, StoresPending
    <2>3. PlacesKnow' /\ TasksKnow'
      BY <1>5 DEF vars, GenerateInv, PlacesKnow, TasksKnow, Closed
    <2> QED
      BY <2>1, <2>2, <2>3 DEF GenerateInv
  <1> QED
    BY <1>1, <1>2, <1>3, <1>4, <1>5 DEF Next, Poll

LEMMA GenerateInvariant == Spec => []GenerateInv
  BY GenerateInit, GenerateStep, PTL DEF Spec

\* The types hold: in particular, no channel holds more than its capacity and no more
\* threads are busy than there are.
THEOREM GenerateTypeCorrect == Spec => []TypeOK
  <1>1. GenerateInv => TypeOK
    BY DEF GenerateInv
  <1> QED
    BY <1>1, GenerateInvariant, PTL

\* No file that write_one reports is cut short, whatever fails and in whatever order
\* tasks, producers and store operations go on.
THEOREM FilesAreComplete == Spec => []FilesComplete
  <1>1. GenerateInv => FilesComplete
    BY DEF GenerateInv, PlacesKnow, FilesComplete
  <1> QED
    BY <1>1, GenerateInvariant, PTL

\* All threads cannot be taken by producers, as there are fewer producers than threads.
LEMMA StoresGetThreads ==
    ASSUME GenerateInv, ~(Cardinality(busy) < Threads)
    PROVE \E f \in Files : <<f, "store">> \in busy
  <1> SUFFICES ASSUME \A f \in Files : <<f, "store">> \notin busy PROVE FALSE
    OBVIOUS
  <1>1. busy \subseteq Job /\ IsFiniteSet(busy) /\ IsFiniteSet(Files)
    BY GenerateAssumption DEF GenerateInv, TypeOK
  <1> DEFINE file == [job \in busy |-> job[1]]
  <1>2. \A job \in busy : job[1] \in Files /\ job = <<job[1], "produce">>
    BY <1>1 DEF Job
  <1>3. file \in Injection(busy, Files)
    BY <1>2 DEF Injection, IsInjective
  <1>4. Cardinality(busy) <= Cardinality(Files)
    BY <1>1, <1>3, FS_Injection
  <1>5. Cardinality(busy) \in Nat /\ Cardinality(Files) \in Nat
    BY <1>1, FS_CardinalityType
  <1> QED
    BY <1>4, <1>5, GenerateAssumption

\* Something can go on as long as a task runs.  If it stands still at a file, the
\* file's producer is spawned and its channel empty, so that it can send as soon as
\* it has a thread; and a thread that it waits for is not kept by producers alone.
LEMMA NoneStandsStill == GenerateInv => NoStandstill
  <1> SUFFICES ASSUME GenerateInv, NEW t \in Tasks, task[t] = "running",
                      ~(queue # <<>> /\ Cardinality(busy) < Threads),
                      \A f \in Files : <<f, "store">> \notin busy
               PROVE NoStandstill
    BY DEF NoStandstill, Limit
  <1>1. queue = <<>>
    BY StoresGetThreads
  <1>2. \A job : ~Queued(job)
    BY <1>1 DEF Queued
  <1>3. \A f \in Files : io[f] # "asked"
    BY <1>2 DEF GenerateInv, StoresPending
  <1>4. CASE blocked[t] # None
    <2> DEFINE f == blocked[t]
    <2>1. f \in Files /\ f[1] = t /\ pc[f] = "recv" /\ Polls(f)
      BY <1>4 DEF GenerateInv, TypeOK, TasksKnow, Polls
    <2>2. CASE Closed(f) \/ taken[f] < sent[f]
      BY <2>1, <2>2 DEF NoStandstill
    <2>3. CASE ~Closed(f) /\ ~(taken[f] < sent[f])
      <3>1. producer[f] = "spawned"
        BY <2>1, <2>3 DEF GenerateInv, TypeOK, PlacesKnow, Closed
      <3>2. <<f, "produce">> \in busy
        BY <1>2, <2>1, <3>1 DEF GenerateInv, ProducersOnce
      <3>3. sent[f] < taken[f] + Cap
        BY <2>1, <2>3, GenerateAssumption DEF GenerateInv, TypeOK
      <3> QED
        BY <2>1, <3>2, <3>3 DEF NoStandstill
    <2> QED
      BY <2>2, <2>3
  <1>5. CASE blocked[t] = None
    <2>1. PICK m \in Metans : pc[<<t, m>>] # "done"
      BY DEF GenerateInv, TasksKnow
    <2> DEFINE f == <<t, m>>
    <2>2. f \in Files /\ f[1] = t /\ Polls(f)
      BY <1>5 DEF Files, Polls
    <2> HIDE DEF f
    <2>3. pc[f] \in Storing \union {"recv", "join"}
      BY <2>1, <2>2 DEF GenerateInv, TypeOK, TasksKnow, f
    <2> QED
      BY <1>3, <1>5, <2>2, <2>3 DEF NoStandstill
  <1> QED
    BY <1>4, <1>5

\* Tasks that stand still, full channels and taken threads never wait for each other,
\* for any number of repositories and threads that GenerateAssumption allows.
THEOREM GenerationNeverStandsStill == Spec => []NoStandstill
  BY NoneStandsStill, GenerateInvariant, PTL
===============================================================================
