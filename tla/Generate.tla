-------------------------------- MODULE Generate -------------------------------
(***************************************************************************)
(* Writing the XML files of repositories: Cache::write_all, write_one and the *)
(* on_generate of the four Metans.                                          *)
(*                                                                         *)
(* The write_one futures of a repository are polled by one task              *)
(* (try_join_all).  Each spawns a producer on the runtime's blocking threads, *)
(* which iterates the fragments of the LMDB database into a bounded channel,  *)
(* and writes what it receives.  Receiving is not an await: while a channel   *)
(* is empty the whole task stands still, with all its other futures.  Writing *)
(* is an await, and a local store does it on the same blocking threads.      *)
(*                                                                         *)
(* A file is a pair <<task, metan>>.  Its fragments are numbered in the order *)
(* of the database's keys, and a channel holds those from `taken` + 1 to      *)
(* `sent`.  One generation of each repository is modelled.                   *)
(***************************************************************************)
EXTENDS Integers, Sequences, FiniteSets

CONSTANTS Tasks,   \* repositories that are being generated
          Metans,  \* "primary", "filelists", "other", "appstream"
          Frags,   \* number of fragments in each Metan's database
          Cap,     \* capacity of a channel: twice the number of CPUs
          Threads, \* blocking threads of the runtime (tokio: 512)
          None

Files == Tasks \X Metans

\* Up to 127 repositories of four Metans may be generated at once: with as many
\* producers as threads, no thread might be left to write what they produce.
ASSUME GenerateAssumption ==
    /\ Metans # {} /\ Frags \in [Metans -> Nat] /\ Cap \in Nat \ {0}
    /\ IsFiniteSet(Files) /\ Threads \in Nat /\ Threads > Cardinality(Files)
    /\ None \notin Files

VARIABLES
    task,     \* each task: "running", "done" or "failed"
    blocked,  \* the file on whose channel the task stands still
    pc,       \* each write_one future
    io,       \* what the future knows of the store operation it awaits
    producer, \* each producer
    sent, taken, \* fragments put into and taken out of each channel
    queue, busy  \* the blocking threads' queue, and what they are at

vars == <<task, blocked, pc, io, producer, sent, taken, queue, busy>>

Job == Files \X {"produce", "store"}

\* Places with a store operation: open the writer and write up to the first
\* fragment; write a fragment; write the rest, shut the writer down and rename.
Storing == {"begin", "write", "end"}

TypeOK ==
    /\ task \in [Tasks -> {"running", "done", "failed"}]
    /\ blocked \in [Tasks -> Files \union {None}]
    /\ pc \in [Files -> Storing \union {"recv", "join", "done", "dropped"}]
    /\ io \in [Files -> {"none", "asked", "ok", "error"}]
    /\ producer \in [Files -> {"none", "spawned", "ok", "error"}]
    /\ sent \in [Files -> Nat] /\ taken \in [Files -> Nat]
    /\ \A f \in Files : sent[f] <= Frags[f[2]] /\ sent[f] - taken[f] \in 0 .. Cap
    /\ queue \in Seq(Job) /\ busy \subseteq Job /\ Cardinality(busy) <= Threads

Init ==
    /\ task = [t \in Tasks |-> "running"]
    /\ blocked = [t \in Tasks |-> None]
    /\ pc = [f \in Files |-> "begin"] /\ io = [f \in Files |-> "none"]
    /\ producer = [f \in Files |-> "none"]
    /\ sent = [f \in Files |-> 0] /\ taken = [f \in Files |-> 0]
    /\ queue = <<>> /\ busy = {}

-------------------------------------------------------------------------------
(* The task.  It polls any of its futures that can go on, but none while it *)
(* stands still.                                                           *)
Polls(f) == task[f[1]] = "running" /\ blocked[f[1]] \in {None, f}

Goto(f, place) == pc' = [pc EXCEPT ![f] = place]

\* (Wrong variant: the receiving ends outlive the futures.)
LeakFutures(t) ==
    /\ task' = [task EXCEPT ![t] = "failed"]
    /\ blocked' = [blocked EXCEPT ![t] = None]
    /\ UNCHANGED <<pc, io>>

\* try_join_all returns an error, or the request is dropped: all futures of the
\* task are dropped, and the receiving ends of their channels with them.
DropFutures(t) ==
    /\ task' = [task EXCEPT ![t] = "failed"]
    /\ blocked' = [blocked EXCEPT ![t] = None]
    /\ pc' = [f \in Files |-> IF f[1] = t THEN "dropped" ELSE pc[f]]
    /\ io' = [f \in Files |-> IF f[1] = t THEN "none" ELSE io[f]]

\* The operation goes to a blocking thread.
AskStore(f) ==
    /\ Polls(f) /\ pc[f] \in Storing /\ io[f] = "none"
    /\ io' = [io EXCEPT ![f] = "asked"]
    /\ queue' = Append(queue, <<f, "store">>)
    /\ UNCHANGED <<task, blocked, pc, producer, sent, taken, busy>>

\* It is done: by a thread, or at once, as when the buffer has room.  on_generate
\* then goes on.
Stored(f) ==
    /\ Polls(f) /\ pc[f] \in Storing /\ io[f] \in {"none", "ok"}
    /\ io' = [io EXCEPT ![f] = "none"]
    /\ Goto(f, IF pc[f] = "end" THEN "done" ELSE "recv")
    /\ IF pc[f] = "begin"
       THEN /\ producer' = [producer EXCEPT ![f] = "spawned"]
            /\ queue' = Append(queue, <<f, "produce">>)
       ELSE UNCHANGED <<producer, queue>>
    /\ task' = IF pc[f] = "end" /\ \A m \in Metans : <<f[1], m>> = f \/ pc[<<f[1], m>>] = "done"
               THEN [task EXCEPT ![f[1]] = "done"] ELSE task
    /\ UNCHANGED <<blocked, sent, taken, busy>>

NotStored(f) ==
    /\ Polls(f) /\ pc[f] \in Storing /\ io[f] \in {"none", "error"}
    /\ DropFutures(f[1])
    /\ UNCHANGED <<producer, sent, taken, queue, busy>>

\* The producer, who owns the sending end, is over.
Closed(f) == producer[f] \in {"ok", "error"}

\* `for frag in rx`: a fragment, the end, or standing still.
Receive(f) ==
    /\ Polls(f) /\ pc[f] = "recv"
    /\ \/ /\ taken[f] < sent[f]
          /\ taken' = [taken EXCEPT ![f] = @ + 1]
          /\ Goto(f, "write")
          /\ blocked' = [blocked EXCEPT ![f[1]] = None]
       \/ /\ taken[f] = sent[f] /\ Closed(f)
          /\ Goto(f, "join")
          /\ blocked' = [blocked EXCEPT ![f[1]] = None]
          /\ UNCHANGED taken
       \/ /\ taken[f] = sent[f] /\ ~Closed(f)
          /\ blocked' = [blocked EXCEPT ![f[1]] = f]
          /\ UNCHANGED <<pc, taken>>
    /\ UNCHANGED <<task, io, producer, sent, queue, busy>>

\* (Wrong variant: the producer's result is ignored.)
JoinAnyway(f) ==
    /\ Polls(f) /\ pc[f] = "join"
    /\ Goto(f, "end")
    /\ UNCHANGED <<task, blocked, io, producer, sent, taken, queue, busy>>

\* `task.await.expect("cannot join")?`
Join(f) ==
    /\ Polls(f) /\ pc[f] = "join"
    /\ IF producer[f] = "ok" THEN Goto(f, "end") /\ UNCHANGED <<task, blocked, io>>
                             ELSE DropFutures(f[1])
    /\ UNCHANGED <<producer, sent, taken, queue, busy>>

\* The request's future is dropped at an await, which receiving is not.
Cancel(t) ==
    /\ task[t] = "running" /\ blocked[t] = None
    /\ DropFutures(t)
    /\ UNCHANGED <<producer, sent, taken, queue, busy>>

-------------------------------------------------------------------------------
(* The blocking threads.                                                   *)

\* (Wrong variant: a thread less than there must be.)
OneThreadLess == Threads - 1
Limit == Threads

StartJob ==
    /\ queue # <<>> /\ Cardinality(busy) < Limit
    /\ busy' = busy \union {Head(queue)}
    /\ queue' = Tail(queue)
    /\ UNCHANGED <<task, blocked, pc, io, producer, sent, taken>>

\* (Wrong variant: a channel without a bound.)
ProduceUnbounded(f) ==
    /\ <<f, "produce">> \in busy
    /\ sent[f] < Frags[f[2]]
    /\ sent' = [sent EXCEPT ![f] = @ + 1]
    /\ UNCHANGED <<task, blocked, pc, io, producer, taken, queue, busy>>

\* tx.send blocks while the channel is full.
Produce(f) ==
    /\ <<f, "produce">> \in busy
    /\ pc[f] # "dropped"
    /\ sent[f] < Frags[f[2]] /\ sent[f] < taken[f] + Cap
    /\ sent' = [sent EXCEPT ![f] = @ + 1]
    /\ UNCHANGED <<task, blocked, pc, io, producer, taken, queue, busy>>

\* The producer returns, or panics, and drops its sending end.
EndProducer(f, result) ==
    /\ <<f, "produce">> \in busy
    /\ producer' = [producer EXCEPT ![f] = result]
    /\ busy' = busy \ {<<f, "produce">>}
    /\ UNCHANGED <<task, blocked, pc, io, sent, taken, queue>>

\* All fragments are sent, or nobody receives any more: then `expect` panics
\* (primary), or every further send is ignored (the others).
ProducerEnds(f) ==
    \/ sent[f] = Frags[f[2]] /\ EndProducer(f, "ok")
    \/ pc[f] = "dropped" /\ EndProducer(f, "error")

\* LMDB returns an error.
ProducerFails(f) == EndProducer(f, "error")

\* The operation ends, well or badly; a dropped future does not hear of it.
StoreEnds(f) ==
    /\ <<f, "store">> \in busy
    /\ busy' = busy \ {<<f, "store">>}
    /\ IF pc[f] = "dropped" THEN UNCHANGED io
                            ELSE \E s \in {"ok", "error"} : io' = [io EXCEPT ![f] = s]
    /\ UNCHANGED <<task, blocked, pc, producer, sent, taken, queue>>

Poll(f) == AskStore(f) \/ Stored(f) \/ NotStored(f) \/ Receive(f) \/ Join(f)
Work(f) == Produce(f) \/ ProducerEnds(f) \/ StoreEnds(f)

Next ==
    \/ StartJob
    \/ \E f \in Files : Poll(f) \/ Work(f) \/ ProducerFails(f)
    \/ \E t \in Tasks : Cancel(t)

Spec == Init /\ [][Next]_vars

\* The runtime polls each task that can go on, its threads take jobs and run,
\* and store operations end.
FairSpec ==
    /\ Spec
    /\ WF_vars(StartJob)
    /\ \A t \in Tasks : WF_vars(\E m \in Metans : Poll(<<t, m>>))
    /\ \A f \in Files : WF_vars(Work(f))
-------------------------------------------------------------------------------
(* Properties.                                                             *)

\* A file that write_one reports, and repomd.xml will name, holds every fragment
\* of its database: a producer that fails on the way never shortens it.
FilesComplete == \A f \in Files : pc[f] = "done" => taken[f] = Frags[f[2]]

\* As long as a repository is being generated, something that it waits for can happen:
\* a thread can take a job, an operation or a producer on a thread can go on, or
\* a future can.  No number of repositories makes them all wait for each other.
NoStandstill ==
    (\E t \in Tasks : task[t] = "running") =>
        \/ queue # <<>> /\ Cardinality(busy) < Limit
        \/ \E f \in Files :
            \/ <<f, "store">> \in busy
            \/ /\ <<f, "produce">> \in busy
               /\ pc[f] = "dropped" \/ sent[f] = Frags[f[2]] \/ sent[f] < taken[f] + Cap
            \/ Polls(f) /\ pc[f] \in Storing /\ io[f] # "asked"
            \/ Polls(f) /\ pc[f] = "recv" /\ (taken[f] < sent[f] \/ Closed(f) \/ blocked[f[1]] = None)
            \/ Polls(f) /\ pc[f] = "join"

\* write_all ends: receiving blocks the task and with it the writes it has under
\* way, producers block on full channels, and both need the blocking threads,
\* but they never all wait for each other.
GenerateEnds == \A t \in Tasks : task[t] = "running" ~> task[t] # "running"

\* Whatever fails or is cancelled, no producer keeps its blocking thread.
ThreadsReturn == <>[](queue = <<>> /\ busy = {})
===============================================================================
