-------------------------------- MODULE Locker --------------------------------
(***************************************************************************)
(* The server's `Locker` (src/repohdl.rs): a map from repository name to an *)
(* open repository handle, read and written by HTTP handlers that interleave *)
(* at every `.await`.  A request that misses the map opens the repository   *)
(* itself (one SELECT, one LMDB environment, perhaps a second SELECT) with  *)
(* no lock held; a write that missed takes its handle back out of the map   *)
(* when it is done and compacts the environment's file.                     *)
(*                                                                         *)
(* One action stands for the code between two points where another task can *)
(* run.  Locks:                                                            *)
(*  - the outer RwLock's read guard is held exactly while pc is in Inside;  *)
(*    its write guard is only held for code without an await, hence inside  *)
(*    one action;                                                          *)
(*  - the inner RwLock of a map entry is held exactly while pc is in Running; *)
(*  - tokio's RwLock is first come, first served: `ahead[q]` is the set of   *)
(*    requests queued before q on the lock q waits for.                     *)
(***************************************************************************)
EXTENDS FiniteSets

CONSTANTS Reqs,    \* HTTP requests in flight
          Repos,   \* repository names (valid ones: repo_name accepts them)
          Keys,    \* ids in the keys table
          Mats,    \* private keys ever generated
          Ops,     \* the Locker operations the requests use
          MayAbort, \* may a handler's future be dropped at an await?
          NoKey,   \* SQL NULL in repos.key_id
          None     \* no row, no handle, no request, no private key

ASSUME OpsAssumption == Ops \subseteq {"read", "write", "set_key", "del_key", "delete"}

Handle == [sig : Mats \union {None}, live : BOOLEAN]
Request == [op : Ops, repo : Repos, want : Keys \union {NoKey},
            mat : Mats \union {None}, row : Keys \union {NoKey}, cold : BOOLEAN]

ASSUME NoneAssumption ==
    /\ None \notin Handle \union Request \union Keys \union Mats \union {NoKey}
    /\ NoKey \notin Keys
    /\ MayAbort \in BOOLEAN

VARIABLES
    rows,   \* repos table: repository -> its key_id, None without a row
    keys,   \* keys table: key id -> private key, None without a row
    spent,  \* private keys already generated (a key is never generated twice)
    cached, \* Locker::repolocks: repository -> handle
    opened, \* LMDB environments open in this process (heed's registry)
    clones, \* repositories whose environment producers still have, after a
            \* generation that failed or was dropped
    copying,\* repositories whose cache directory holds a data.compact
    pc, req, own, \* per request: where it is, what it is, the handle in its hands
    ahead   \* per request: the requests queued before it

dbVars == <<rows, keys, spent>>
vars == <<rows, keys, spent, cached, opened, clones, copying, pc, req, own, ahead>>

OuterWait == {"lookup", "take", "insert", "reget", "evict"}
Inside    == {"inner", "run", "setsig"}
Running   == {"run", "setsig"}
Sync      == {"compact", "rename1", "rename2"}
Ended     == {"idle", "panic"}
Places    == OuterWait \union Inside \union Sync \union Ended \union
             {"selkey", "select", "open", "loadkey", "delrow", "rmdir"}

OuterLine    == {p \in Reqs : pc[p] \in OuterWait}
InnerLine(r) == {p \in Reqs : pc[p] = "inner" /\ req[p].repo = r}
Runners(r)   == {p \in Reqs : pc[p] \in Running /\ req[p].repo = r}

\* Requests that have the handle of r in their hands.
Holders(r) == {q \in Reqs : own[q] # None /\ req[q].repo = r}

TypeOK ==
    /\ rows \in [Repos -> Keys \union {NoKey, None}]
    /\ keys \in [Keys -> Mats \union {None}]
    /\ spent \subseteq Mats
    /\ cached \in [Repos -> Handle \union {None}]
    /\ opened \subseteq Repos
    /\ clones \subseteq Repos
    /\ copying \subseteq Repos
    /\ pc \in [Reqs -> Places]
    /\ req \in [Reqs -> Request \union {None}]
    /\ own \in [Reqs -> Handle \union {None}]
    /\ ahead \in [Reqs -> SUBSET Reqs]
    /\ \A q \in Reqs : (req[q] = None) <=> (pc[q] \in Ended)
    /\ \A q \in Reqs : pc[q] = "selkey" => req[q].want \in Keys
    /\ \A q \in Reqs : pc[q] = "loadkey" => req[q].row \in Keys

Init ==
    /\ rows \in [Repos -> {NoKey, None}]
    /\ keys = [k \in Keys |-> None]
    /\ spent = {}
    /\ cached = [r \in Repos |-> None]
    /\ opened = {}
    /\ clones = {}
    /\ copying = {}
    /\ pc = [q \in Reqs |-> "idle"]
    /\ req = [q \in Reqs |-> None]
    /\ own = [q \in Reqs |-> None]
    /\ ahead = [q \in Reqs |-> {}]

-------------------------------------------------------------------------------
(* Parts of the steps.                                                     *)

\* q leaves the line it stands in, if any, and joins the back of `line`.
Queue(q, line) ==
    ahead' = [p \in Reqs |-> IF p = q THEN line \ {q} ELSE ahead[p] \ {q}]

Goto(q, place) == pc' = [pc EXCEPT ![q] = place]

\* The request is over: its locals are dropped.
End(q, place) == Goto(q, place) /\ req' = [req EXCEPT ![q] = None]

\* The turn of q at a lock has come.
Turn(q) == ahead[q] = {}

\* (Wrong variant: eviction without waiting for the read guards.)
OuterIgnored == TRUE
\* (Wrong variant: the read guard lives on while the write waits to evict.)
GuardOutlivesClosure == \A p \in Reqs : pc[p] \notin Inside \union {"evict"}

\* The outer write lock can be granted: nobody holds a read guard.
OuterFree == \A p \in Reqs : pc[p] \notin Inside

\* (Wrong variant: one environment may be opened twice.)
CanOpenTwice(r) == r \in Repos

\* heed opens an environment once per process (heed::Error::EnvAlreadyOpened).
CanOpen(r) == r \notin opened

\* Dropping the handle in q's hands closes its environment, unless producers
\* have clones of it: the last of them to go closes it.
Drop(q) ==
    /\ own' = [own EXCEPT ![q] = None]
    /\ opened' = IF own[q] = None \/ req[q].repo \in clones
                 THEN opened ELSE opened \ {req[q].repo}

\* The producers of on_generate are blocking tasks, which nothing aborts, each
\* with a clone of the environment.  A generation that succeeds has joined them;
\* one that fails (try_join_all) or is dropped leaves them behind.
LeaveProducers(q) ==
    \/ UNCHANGED clones
    \/ /\ pc[q] = "run"
       /\ req[q].op = "write"
       /\ clones' = clones \union {req[q].repo}

\* (Wrong variant: read closures that overlap a write closure.)
ReadersIgnoreWriters(q) == req[q].op = "read" \/ Runners(req[q].repo) = {}

\* RwLock<RepoHdl>::read for a read closure, ::write for the others.
InnerFree(q) ==
    \A p \in Runners(req[q].repo) : req[q].op = "read" /\ req[p].op = "read"

\* The closure returned and all guards are dropped; a write that had missed
\* the map goes on to take its handle out again.
ClosureDone(q) ==
    IF req[q].cold /\ req[q].op # "read"
    THEN Goto(q, "evict") /\ Queue(q, OuterLine) /\ UNCHANGED req
    ELSE End(q, "idle") /\ UNCHANGED ahead

-------------------------------------------------------------------------------
(* A request.                                                              *)

Arrive(q) ==
    /\ pc[q] \in Ended
    /\ \E op \in Ops, r \in Repos, k \in Keys \union {NoKey} :
        /\ (op = "set_key") <=> (k # NoKey)
        /\ req' = [req EXCEPT ![q] = [op |-> op, repo |-> r, want |-> k,
                                      mat |-> None, row |-> NoKey, cold |-> FALSE]]
        /\ IF op = "set_key"
           THEN Goto(q, "selkey") /\ UNCHANGED ahead
           ELSE /\ Goto(q, IF op = "delete" THEN "take" ELSE "lookup")
                /\ Queue(q, OuterLine)
    /\ UNCHANGED <<dbVars, cached, opened, clones, copying, own>>

\* set_key reads the private key before it takes any lock.
SelectKey(q) ==
    /\ pc[q] = "selkey"
    /\ IF keys[req[q].want] = None
       THEN End(q, "idle") /\ UNCHANGED ahead
       ELSE /\ req' = [req EXCEPT ![q].mat = keys[req[q].want]]
            /\ Goto(q, "lookup")
            /\ Queue(q, OuterLine)
    /\ UNCHANGED <<dbVars, cached, opened, clones, copying, own>>

\* repolocks.read().await.get(repo): on a hit the outer guard is kept.
Lookup(q) ==
    /\ pc[q] = "lookup"
    /\ Turn(q)
    /\ IF cached[req[q].repo] # None
       THEN Goto(q, "inner") /\ Queue(q, InnerLine(req[q].repo))
       ELSE Goto(q, "select") /\ Queue(q, {})
    /\ UNCHANGED <<dbVars, cached, opened, clones, copying, req, own>>

\* RepoHdl::new, first await: the repository's row.
SelectRow(q) ==
    /\ pc[q] = "select"
    /\ IF rows[req[q].repo] = None
       THEN End(q, "idle")
       ELSE req' = [req EXCEPT ![q].row = rows[req[q].repo]] /\ Goto(q, "open")
    /\ UNCHANGED <<dbVars, cached, opened, clones, copying, own, ahead>>

\* Where a request goes with the handle it has just made.
WithHandle(q) ==
    IF req[q].op = "delete" THEN Goto(q, "delrow") /\ UNCHANGED ahead
                            ELSE Goto(q, "insert") /\ Queue(q, OuterLine)

\* RepoHdl::new, Cache::new: opens whatever file is called data.mdb now.
OpenEnv(q) ==
    /\ pc[q] = "open"
    /\ IF CanOpen(req[q].repo)
       THEN /\ opened' = opened \union {req[q].repo}
            /\ own' = [own EXCEPT ![q] = [sig |-> None, live |-> TRUE]]
            /\ UNCHANGED req
            /\ IF req[q].row = NoKey THEN WithHandle(q)
                                     ELSE Goto(q, "loadkey") /\ UNCHANGED ahead
       ELSE End(q, "idle") /\ UNCHANGED <<opened, own, ahead>>
    /\ UNCHANGED <<dbVars, cached, clones, copying>>

\* RepoHdl::new, second await: fetch_one fails when the key is gone, and the
\* environment is closed with the half-made handle.
LoadKey(q) ==
    /\ pc[q] = "loadkey"
    /\ LET mat == keys[req[q].row] IN
       IF mat = None
       THEN Drop(q) /\ End(q, "idle") /\ UNCHANGED ahead
       ELSE /\ own' = [own EXCEPT ![q].sig = mat]
            /\ WithHandle(q)
            /\ UNCHANGED <<req, opened>>
    /\ UNCHANGED <<dbVars, cached, clones, copying>>

\* repolocks.write().await.insert: the guard is dropped at the semicolon.
Insert(q) ==
    /\ pc[q] = "insert"
    /\ Turn(q)
    /\ OuterFree
    /\ cached' = [cached EXCEPT ![req[q].repo] = own[q]]
    /\ own' = [own EXCEPT ![q] = None]
    /\ req' = [req EXCEPT ![q].cold = TRUE]
    /\ Goto(q, "reget")
    /\ Queue(q, OuterLine)
    /\ UNCHANGED <<dbVars, opened, clones, copying>>

\* repolocks.read().await.get(repo).unwrap()
Reget(q) ==
    /\ pc[q] = "reget"
    /\ Turn(q)
    /\ IF cached[req[q].repo] = None
       THEN End(q, "panic") /\ Queue(q, {})
       ELSE Goto(q, "inner") /\ Queue(q, InnerLine(req[q].repo)) /\ UNCHANGED req
    /\ UNCHANGED <<dbVars, cached, opened, clones, copying, own>>

\* lock.read().await or lock.write().await
EnterClosure(q) ==
    /\ pc[q] = "inner"
    /\ Turn(q)
    /\ InnerFree(q)
    /\ Goto(q, "run")
    /\ Queue(q, {})
    /\ UNCHANGED <<dbVars, cached, opened, clones, copying, req, own>>

\* The read closures, and the write closures that only touch the repository's
\* contents (Cache, Publish) and generate the repository data.
RunContents(q) ==
    /\ pc[q] = "run"
    /\ req[q].op \in {"read", "write"}
    /\ ClosureDone(q)
    /\ LeaveProducers(q)
    /\ UNCHANGED <<dbVars, cached, opened, copying, own>>

\* set_key and del_key, first half of the closure: UPDATE repos SET key_id.
\* No row: NOT_FOUND.  A key deleted since SelectKey: foreign key violation.
UpdateRow(q) ==
    LET r == req[q].repo
        k == req[q].want IN
    /\ pc[q] = "run"
    /\ req[q].op \in {"set_key", "del_key"}
    /\ IF rows[r] = None \/ (k # NoKey /\ keys[k] = None)
       THEN ClosureDone(q) /\ UNCHANGED rows
       ELSE rows' = [rows EXCEPT ![r] = k] /\ Goto(q, "setsig") /\ UNCHANGED <<req, ahead>>
    /\ UNCHANGED <<keys, spent, cached, opened, clones, copying, own>>

\* ... second half: hdl.repo.sig.
SetSig(q) ==
    /\ pc[q] = "setsig"
    /\ cached' = [cached EXCEPT ![req[q].repo].sig = req[q].mat]
    /\ ClosureDone(q)
    /\ UNCHANGED <<dbVars, opened, clones, copying, own>>

\* repolocks.write().await.remove_entry(repo).unwrap()
Evict(q) ==
    LET r == req[q].repo IN
    /\ pc[q] = "evict"
    /\ Turn(q)
    /\ OuterFree
    /\ Queue(q, {})
    /\ IF cached[r] = None
       THEN End(q, "panic") /\ UNCHANGED <<cached, own>>
       ELSE /\ own' = [own EXCEPT ![q] = cached[r]]
            /\ cached' = [cached EXCEPT ![r] = None]
            /\ Goto(q, "compact")
            /\ UNCHANGED req
    /\ UNCHANGED <<dbVars, opened, clones, copying>>

\* compact_close: copy the environment to data.compact (heed creates the file
\* and fails when it exists), then close it.  Both ways the handle is dropped.
Compact(q) ==
    LET r == req[q].repo IN
    /\ pc[q] = "compact"
    /\ Drop(q)
    /\ IF r \in copying
       THEN End(q, "idle") /\ UNCHANGED copying
       ELSE copying' = copying \union {r} /\ Goto(q, "rename1") /\ UNCHANGED req
    /\ UNCHANGED <<dbVars, cached, clones, ahead>>

\* The file called data.mdb is no longer the one that handles of r have open.
Relink(r) ==
    /\ cached' = [cached EXCEPT ![r] = IF @ = None THEN None ELSE [@ EXCEPT !.live = FALSE]]
    /\ own' = [p \in Reqs |-> IF own[p] # None /\ req[p].repo = r
                              THEN [own[p] EXCEPT !.live = FALSE] ELSE own[p]]

\* compact_close: data.mdb -> data.mdb.old
RenameOld(q) ==
    /\ pc[q] = "rename1"
    /\ Relink(req[q].repo)
    /\ Goto(q, "rename2")
    /\ UNCHANGED <<dbVars, opened, clones, copying, req, ahead>>

\* compact_close: data.compact -> data.mdb, then data.mdb.old is removed.
RenameNew(q) ==
    /\ pc[q] = "rename2"
    /\ Relink(req[q].repo)
    /\ copying' = copying \ {req[q].repo}
    /\ End(q, "idle")
    /\ UNCHANGED <<dbVars, opened, clones, ahead>>

\* Locker::del takes the handle out of the map, or opens one as a miss does.
Take(q) ==
    LET r == req[q].repo IN
    /\ pc[q] = "take"
    /\ Turn(q)
    /\ OuterFree
    /\ Queue(q, {})
    /\ own' = [own EXCEPT ![q] = cached[r]]
    /\ cached' = [cached EXCEPT ![r] = None]
    /\ Goto(q, IF cached[r] # None THEN "delrow" ELSE "select")
    /\ UNCHANGED <<dbVars, opened, clones, copying, req>>

DeleteRow(q) ==
    /\ pc[q] = "delrow"
    /\ rows' = [rows EXCEPT ![req[q].repo] = None]
    /\ Goto(q, "rmdir")
    /\ UNCHANGED <<keys, spent, cached, opened, clones, copying, req, own, ahead>>

\* delete_physical, after which the handle goes out of scope.
RemoveDir(q) ==
    /\ pc[q] = "rmdir"
    /\ Drop(q)
    /\ End(q, "idle")
    /\ UNCHANGED <<dbVars, cached, clones, copying, ahead>>

\* The client hangs up, or a query fails: the future is dropped at the await
\* it is at, with the guards and the handle in its hands.
Abort(q) ==
    /\ MayAbort
    /\ pc[q] \notin Ended \union Sync
    /\ Drop(q)
    /\ LeaveProducers(q)
    /\ End(q, "idle")
    /\ Queue(q, {})
    /\ UNCHANGED <<dbVars, cached, copying>>

\* The last producer a generation of r left behind ends, with its clone.
ProducersEnd(r) ==
    /\ r \in clones
    /\ clones' = clones \ {r}
    /\ opened' = IF cached[r] # None \/ Holders(r) # {} THEN opened ELSE opened \ {r}
    /\ UNCHANGED <<dbVars, cached, copying, pc, req, own, ahead>>

-------------------------------------------------------------------------------
(* Handlers that are one SQL statement.                                    *)

CreateRepo(r) ==
    /\ rows[r] = None
    /\ rows' = [rows EXCEPT ![r] = NoKey]
    /\ UNCHANGED <<keys, spent, cached, opened, clones, copying, pc, req, own, ahead>>

CreateKey(k) ==
    /\ keys[k] = None
    /\ \E m \in Mats \ spent :
        /\ keys' = [keys EXCEPT ![k] = m]
        /\ spent' = spent \union {m}
    /\ UNCHANGED <<rows, cached, opened, clones, copying, pc, req, own, ahead>>

\* The foreign key refuses a key that a row still names (CONFLICT).
DeleteKey(k) ==
    /\ keys[k] # None
    /\ \A r \in Repos : rows[r] # k
    /\ keys' = [keys EXCEPT ![k] = None]
    /\ UNCHANGED <<rows, spent, cached, opened, clones, copying, pc, req, own, ahead>>

-------------------------------------------------------------------------------
Step(q) ==
    \/ SelectKey(q) \/ Lookup(q) \/ SelectRow(q) \/ OpenEnv(q) \/ LoadKey(q)
    \/ Insert(q) \/ Reget(q) \/ EnterClosure(q)
    \/ RunContents(q) \/ UpdateRow(q) \/ SetSig(q)
    \/ Evict(q) \/ Compact(q) \/ RenameOld(q) \/ RenameNew(q)
    \/ Take(q) \/ DeleteRow(q) \/ RemoveDir(q)

Next ==
    \/ \E q \in Reqs : Arrive(q) \/ Step(q) \/ Abort(q)
    \/ \E r \in Repos : ProducersEnd(r) \/ CreateRepo(r)
    \/ \E k \in Keys : CreateKey(k) \/ DeleteKey(k)

Spec == Init /\ [][Next]_vars

\* The runtime polls every task that can go on; clients owe nothing.
FairSpec == Spec /\ \A q \in Reqs : WF_vars(Step(q))
-------------------------------------------------------------------------------
(* Properties.                                                             *)

\* However lookups, misses, evictions and deletions interleave, a repository has
\* at most one handle, in the map or in one request's hands, and its LMDB
\* environment is open exactly as long as that handle exists or producers that
\* outlived their generation have it: no leak, and no handle made while those
\* producers still read (the SAFETY comment in Cache::new).
HandleExact ==
    \A r \in Repos :
        /\ \A p, q \in Holders(r) : p = q
        /\ Holders(r) # {} => cached[r] = None
        /\ r \in opened <=> (cached[r] # None \/ Holders(r) # {} \/ r \in clones)

\* No eviction and no deletion takes a handle out of the map while a request is
\* waiting for it or running a closure on it.
InsideHasHandle ==
    \A q \in Reqs : pc[q] \in Inside => cached[req[q].repo] # None

\* The key a handle signs with never changes under a request that runs a
\* closure on the handle, other than the one that changes it.
KeyStableUnderClosures ==
    [][\A r \in Repos : \A q \in Runners(r) :
          cached'[r] # None /\ cached'[r].sig # cached[r].sig => Runners(r) = {q}]_vars

\* What the handlers rely on: see RepoAccess.  A request has the repository to
\* itself in a write closure and whenever the handle is in its hands: while it
\* opens the repository, deletes it, and compacts it up to the close.  The renames
\* that end a compaction come after the close, and count as renaming.
ReadingNow == [r \in Repos |-> {q \in Runners(r) : req[q].op = "read"}]
HoldingNow == [r \in Repos |-> {q \in Runners(r) : req[q].op # "read"} \union Holders(r)]
RenamingNow ==
    [r \in Repos |-> {q \in Reqs : pc[q] \in {"rename1", "rename2"} /\ req[q].repo = r}]

Access == INSTANCE RepoAccess WITH
    reading <- ReadingNow,
    holding <- HoldingNow,
    renaming <- RenamingNow

\* Locker implements RepoAccess: readers never overlap a writer, an opener, a
\* deletion, or a compaction up to its close, of the same repository; and a
\* compactor renames only what it closed itself, one at a time.  Its renames do
\* overlap the readers and holders that come after the close.
ImplementsAccess == Access!ASpec

\* The request waits for no lock, or its turn has come and the lock is free.
CanGoOn(q) ==
    \/ pc[q] \notin OuterWait \union {"inner"} \union Ended
    \/ pc[q] \in {"lookup", "reget"} /\ Turn(q)
    \/ pc[q] \in {"insert", "take", "evict"} /\ Turn(q) /\ OuterFree
    \/ pc[q] = "inner" /\ Turn(q) /\ InnerFree(q)

\* As long as a request is being served, one of them can go on: requests that hold
\* the outer lock for reading wait for a handle's, and those that open, evict and
\* delete wait for the outer one, but they never all wait for each other.
NoDeadlock ==
    (\E q \in Reqs : pc[q] \notin Ended) => \E q \in Reqs : CanGoOn(q)

\* No request waits forever on the two levels of locks, although write closures
\* hold the outer lock's read guard and evictions need its write guard.
EveryRequestEnds == \A q \in Reqs : pc[q] \notin Ended ~> pc[q] \in Ended

\* compact_close: "Atomically replace data.mdb with the compacted copy", and
\* Cache::new: "assume this file is not modified concurrently".  A write closure
\* runs on the file that is called data.mdb, which the next opener will read.
WritesReachDataFile ==
    \A r \in Repos : \A q \in Runners(r) : req[q].op = "write" => cached[r].live

\* keys::del_key: "we are certain nobody is using the key".  When no write
\* closure is running on it, a cached handle signs with a key that exists.
DeletedKeyUnused ==
    \A r \in Repos :
        cached[r] # None /\ (\A q \in Runners(r) : req[q].op = "read")
            => cached[r].sig \in {None} \union {keys[k] : k \in Keys}
===============================================================================
