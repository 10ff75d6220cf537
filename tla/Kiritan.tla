-------------------------------- MODULE Kiritan -------------------------------
(***************************************************************************)
(* The `kiritan` command (crates/kiritan/createrepo.rs): worker threads walk  *)
(* a directory (auto) or a list of files (manual), and send one request per   *)
(* package through a bounded channel to the writer thread, which is          *)
(* Cache::update_frags.  When the channel is closed and drained the writer    *)
(* purges what it was not sent and commits; the main thread joins it, deletes *)
(* packages (manual), writes the repodata and compacts the cache.             *)
(*                                                                         *)
(* The cache is the module Cache: db, txn, job and got are its variables.    *)
(***************************************************************************)
EXTENDS Naturals, Sequences, FiniteSets

CONSTANTS Pkgs, Vers, AppVers, None, \* see Cache
          Workers,                   \* threads of the rayon pool
          Cap                        \* capacity of the channel

ASSUME CapAssumption == Cap \in Nat \ {0}

\* Requests say "cached" instead of a content.
ASSUME CachedAssumption == "cached" \notin Vers

VARIABLES
    db, txn, job, got, \* Cache
    spare,    \* is there a data.compact in the cache directory?
    disk,     \* contents of the rpm files in the input directory
    repodata, \* the packages that the published primary.xml lists
    main,     \* the main thread
    mode, remove, \* the command line: auto or manual, and --remove
    left,     \* files that no worker has taken yet
    skipped,  \* files whose fragment could not be computed
    held,     \* the request a worker is about to send
    chan,     \* the channel
    writer,   \* the writer thread
    asked     \* history: the files this run was to deal with

cacheVars == <<db, txn, job, got>>
runVars == <<mode, remove, left, skipped, held, chan, writer, asked>>
vars == <<cacheVars, spare, disk, repodata, main, runVars>>

C == INSTANCE Cache

ASSUME CacheConstants ==
    /\ AppVers \subseteq Vers
    /\ None \notin Vers \union {"old", "new", "add", "update"}
    /\ None \notin C!Db

\* FragRequest::Put with the content that was read, or FragRequest::Cached.
Request == [pkg : Pkgs, frag : Vers \union {"cached"}]

ASSUME NoneIsNoRequest == None \notin Request

TypeOK ==
    /\ C!TypeOK
    /\ disk \in [Pkgs -> Vers \union {None}]
    /\ spare \in BOOLEAN
    /\ repodata \subseteq Pkgs
    /\ main \in {"idle", "walk", "stop", "join", "remove", "write", "compact", "close", "swap",
                 "done", "failed"}
    /\ mode \in {"auto", "manual"}
    /\ remove \subseteq Pkgs /\ left \subseteq Pkgs /\ skipped \subseteq Pkgs
    /\ held \in [Workers -> Request \union {None}]
    /\ chan \in Seq(Request) /\ Len(chan) <= Cap
    /\ writer \in {"none", "open", "done", "dead"}
    /\ asked \subseteq Pkgs
    /\ txn # None <=> writer = "open"

Quiet == [w \in Workers |-> None]

Init ==
    /\ C!Init
    /\ disk \in [Pkgs -> Vers \union {None}]
    /\ spare = FALSE /\ repodata = {}
    /\ main = "idle"
    /\ mode = "auto" /\ remove = {}
    /\ left = {} /\ skipped = {} /\ held = Quiet
    /\ chan = <<>> /\ writer = "none" /\ asked = {}

OnDisk == {k \in Pkgs : disk[k] # None}

-------------------------------------------------------------------------------
\* Between two runs anybody may add, replace and remove rpm files.
Touch(k, v) ==
    /\ main = "idle"
    /\ disk' = [disk EXCEPT ![k] = v]
    /\ UNCHANGED <<cacheVars, spare, repodata, main, runVars>>

\* auto --no-cache removes the cache directory first.
ClearCache ==
    /\ main = "idle"
    /\ C!DeletePkgs(Pkgs)
    /\ spare' = FALSE
    /\ UNCHANGED <<disk, repodata, main, runVars>>

\* The writer thread is spawned and opens its transaction.
Start(m, files, rm) ==
    /\ main = "idle"
    /\ main' = "walk"
    /\ mode' = m /\ remove' = rm /\ left' = files
    /\ writer' = "open"
    /\ C!Begin("update")
    /\ asked' = files
    /\ UNCHANGED <<spare, disk, repodata, skipped, held, chan>>

\* (Wrong variant: the repodata is asked instead of the cache.)
TakePublished(w, k) ==
    /\ main = "walk" /\ k \in left /\ held[w] = None
    /\ left' = left \ {k}
    /\ held' = [held EXCEPT ![w] =
                  [pkg |-> k, frag |-> IF mode = "auto" /\ k \in repodata THEN "cached" ELSE disk[k]]]
    /\ UNCHANGED <<cacheVars, spare, disk, repodata, main, mode, remove, skipped, chan, writer, asked>>

\* auto asks the committed cache for the filename and computes what it misses;
\* manual computes everything; what cannot be computed is logged and skipped.
Take(w, k) ==
    /\ main = "walk" /\ k \in left /\ held[w] = None
    /\ left' = left \ {k}
    /\ IF mode = "auto" /\ k \in C!Present(db)
       THEN held' = [held EXCEPT ![w] = [pkg |-> k, frag |-> "cached"]] /\ UNCHANGED skipped
       ELSE \/ held' = [held EXCEPT ![w] = [pkg |-> k, frag |-> disk[k]]] /\ UNCHANGED skipped
            \/ skipped' = skipped \union {k} /\ UNCHANGED held
    /\ UNCHANGED <<cacheVars, spare, disk, repodata, main, mode, remove, chan, writer, asked>>

\* (Wrong variant: a send that does not wait for room.)
SendUnbounded(w) ==
    /\ main \in {"walk", "stop"} /\ held[w] # None /\ writer = "open"
    /\ chan' = Append(chan, held[w])
    /\ held' = [held EXCEPT ![w] = None]
    /\ UNCHANGED <<cacheVars, spare, disk, repodata, main, mode, remove, left, skipped, writer, asked>>

\* tx.send blocks on a full channel ...
Send(w) ==
    /\ main \in {"walk", "stop"} /\ held[w] # None /\ writer = "open"
    /\ Len(chan) < Cap
    /\ chan' = Append(chan, held[w])
    /\ held' = [held EXCEPT ![w] = None]
    /\ UNCHANGED <<cacheVars, spare, disk, repodata, main, mode, remove, left, skipped, writer, asked>>

\* ... and fails, which panics, when the writer has dropped its end.
SendFails(w) ==
    /\ main \in {"walk", "stop"} /\ held[w] # None /\ writer = "dead"
    /\ main' = "failed"
    /\ UNCHANGED <<cacheVars, spare, disk, repodata, runVars>>

\* An unreadable directory entry stops the walk.  Workers finish the file they
\* are at; then the run fails and the channel closes, which the writer, whom
\* nobody joins, takes for the end.
WalkFails ==
    /\ main = "walk" /\ mode = "auto"
    /\ main' = "stop"
    /\ UNCHANGED <<cacheVars, spare, disk, repodata, runVars>>
Stopped ==
    /\ main = "stop" /\ held = Quiet
    /\ main' = "failed"
    /\ UNCHANGED <<cacheVars, spare, disk, repodata, runVars>>

\* (Wrong variant: the sender is never dropped.)
CloseNever == FALSE /\ UNCHANGED vars

\* drop(tx) when every file has been dealt with.
CloseChannel ==
    /\ main = "walk" /\ left = {} /\ held = Quiet
    /\ main' = "join"
    /\ UNCHANGED <<cacheVars, spare, disk, repodata, runVars>>

-------------------------------------------------------------------------------
\* (Wrong variant: Cached does not renew the mark.)
ForgetCached ==
    /\ writer = "open" /\ chan # <<>>
    /\ LET r == Head(chan) IN
        /\ txn' = IF r.frag = "cached" THEN txn
                  ELSE C!Saved(C!Marked(txn, r.pkg), r.pkg, r.frag)
        /\ got' = got \union {r.pkg}
    /\ chan' = Tail(chan)
    /\ UNCHANGED <<db, job, spare, disk, repodata, main, mode, remove, left, skipped, held, writer, asked>>

\* update_frags: one request.
Receive ==
    /\ writer = "open" /\ chan # <<>>
    /\ LET r == Head(chan) IN
        /\ txn' = IF r.frag = "cached" THEN C!Marked(txn, r.pkg)
                  ELSE C!Saved(C!Marked(txn, r.pkg), r.pkg, r.frag)
        /\ got' = got \union {r.pkg}
    /\ chan' = Tail(chan)
    /\ UNCHANGED <<db, job, spare, disk, repodata, main, mode, remove, left, skipped, held, writer, asked>>

\* update_frags: the channel is closed and empty.
Commit ==
    /\ writer = "open" /\ chan = <<>> /\ main \in {"join", "failed"}
    /\ C!CommitUpdate
    /\ writer' = "done"
    /\ UNCHANGED <<spare, disk, repodata, main, mode, remove, left, skipped, held, chan, asked>>

\* update_frags returns an error: its transaction and its end of the channel go.
WriterFails ==
    /\ writer = "open"
    /\ C!Rollback
    /\ writer' = "dead" /\ chan' = <<>>
    /\ UNCHANGED <<spare, disk, repodata, main, mode, remove, left, skipped, held, asked>>

-------------------------------------------------------------------------------
Join ==
    /\ main = "join" /\ writer \in {"done", "dead"}
    /\ main' = IF writer = "dead" THEN "failed"
               ELSE IF remove # {} THEN "remove" ELSE "write"
    /\ UNCHANGED <<cacheVars, spare, disk, repodata, runVars>>

\* manual --remove
RemovePkgs ==
    /\ main = "remove"
    /\ C!DeletePkgs(remove)
    /\ main' = "write"
    /\ UNCHANGED <<spare, disk, repodata, runVars>>

\* write_all (Publish)
WriteAll ==
    /\ main = "write"
    /\ repodata' = C!Present(db)
    /\ main' = "compact"
    /\ UNCHANGED <<cacheVars, spare, disk, runVars>>

\* compact_close copies the environment to a new file, which must not exist; then
\* it closes it, ...
CopyData ==
    /\ main = "compact"
    /\ main' = IF spare THEN "failed" ELSE "close"
    /\ spare' = TRUE
    /\ UNCHANGED <<cacheVars, disk, repodata, runVars>>

\* ... renames the old file, so that for a moment there is none, ...
RenameOld ==
    /\ main = "close"
    /\ main' = "swap"
    /\ UNCHANGED <<cacheVars, spare, disk, repodata, runVars>>

\* ... and the new one.
RenameNew ==
    /\ main = "swap"
    /\ main' = "done"
    /\ spare' = FALSE
    /\ UNCHANGED <<cacheVars, disk, repodata, runVars>>

\* The process ends: it is done, it has failed, or it is killed.  A transaction
\* that is still open is lost; without a data file, the next run opens an empty
\* cache.
Exit ==
    /\ main # "idle"
    /\ main' = "idle"
    /\ mode' = "auto" /\ remove' = {}
    /\ left' = {} /\ skipped' = {} /\ held' = Quiet
    /\ chan' = <<>> /\ writer' = "none" /\ asked' = {}
    /\ IF txn # None THEN C!Rollback
       ELSE IF main = "swap" THEN C!DeletePkgs(Pkgs) ELSE UNCHANGED cacheVars
    /\ UNCHANGED <<spare, disk, repodata>>

-------------------------------------------------------------------------------
Step ==
    \/ \E w \in Workers : Send(w) \/ SendFails(w) \/ \E k \in Pkgs : Take(w, k)
    \/ Stopped \/ CloseChannel \/ Receive \/ Commit \/ Join \/ RemovePkgs \/ WriteAll
    \/ CopyData \/ RenameOld \/ RenameNew
    \/ (main \in {"done", "failed"} /\ Exit)

Next ==
    \/ Step \/ Exit
    \/ \E k \in Pkgs, v \in Vers \union {None} : Touch(k, v)
    \/ ClearCache \/ Start("auto", OnDisk, {})
    \/ \E add \in SUBSET OnDisk, rm \in SUBSET Pkgs : Start("manual", add, rm)
    \/ WalkFails \/ WriterFails

Spec == Init /\ [][Next]_vars

\* Threads run; nothing makes the user start a run or a run fail.
FairSpec == Spec /\ WF_vars(Step)
-------------------------------------------------------------------------------
(* Properties.                                                             *)

\* After a run that reports success, the cache and the repodata list the packages
\* that the run was asked for - in auto mode, those in the directory - as far as
\* they can be read, less those to remove, and no other, however the threads
\* interleaved and whatever earlier runs left when they failed or were killed, be it
\* between two renames.
MirrorsInput ==
    LET wanted == (asked \ skipped) \ remove IN
    /\ main \in {"write", "compact", "close", "swap", "done"} => C!Present(db) = wanted
    /\ main \in {"compact", "close", "swap", "done"} => repodata = wanted

\* Every step is one that Cache allows: in particular a package is only reported
\* as cached if the committed cache has it, with several threads looking.
ImplementsCache == C!Spec

\* A run ends: no thread waits forever for room in the channel, for a message
\* or for another thread.
RunEnds == main # "idle" ~> main = "idle"
===============================================================================
