-------------------------------- MODULE Cache --------------------------------
(***************************************************************************)
(* The package part of a repository's LMDB environment                      *)
(* (crates/libsubatomic/cache.rs and repodata/): the mark database `epo`,    *)
(* whose keys are the packages the cache acknowledges, and one fragment      *)
(* database per Metan.                                                      *)
(*                                                                         *)
(* A batch (add_frags, update_frags) is one LMDB write transaction fed from  *)
(* a channel.  LMDB lets one write transaction in at a time and shows readers *)
(* the last committed state: `db` is that state, `txn` the open transaction. *)
(* A batch may end early at any point: a Metan fails, the map is full (LMDB   *)
(* refuses to commit a transaction that ran into MAP_FULL, so the retry in    *)
(* Cache::wtxn aborts the process), or the process dies.                      *)
(***************************************************************************)
EXTENDS Naturals

CONSTANTS Pkgs,    \* package filenames
          Vers,    \* contents a package file can have
          AppVers, \* the contents that carry appstream components
          None     \* no record, no transaction

ASSUME CacheAssumption ==
    /\ AppVers \subseteq Vers
    /\ None \notin Vers \union {"old", "new", "add", "update"}

\* Primary, filelists and other produce a fragment for every package.
Required == {"primary", "filelists", "other"}
Metans == Required \union {"appstream"}

\* The epoch of a mark: of an earlier batch or of the batch that is open.
Marks == {"old", "new"}

Db == [mark : [Pkgs -> Marks \union {None}], frag : [Metans -> [Pkgs -> Vers \union {None}]]]

ASSUME NoneIsNoDb == None \notin Db

VARIABLES
    db,  \* what the last committed transaction left
    txn, \* the open write transaction's view, None without one
    job, \* the batch it belongs to
    got  \* history: package filenames the batch has received so far

vars == <<db, txn, job, got>>

TypeOK ==
    /\ db \in Db
    /\ txn \in Db \union {None}
    /\ job \in {None, "add", "update"}
    /\ got \subseteq Pkgs
    /\ (txn = None) <=> (job = None)

Empty == [mark |-> [k \in Pkgs |-> None], frag |-> [m \in Metans |-> [k \in Pkgs |-> None]]]

Init ==
    /\ db = Empty
    /\ txn = None
    /\ job = None
    /\ got = {}

Present(d) == {k \in Pkgs : d.mark[k] # None}

-------------------------------------------------------------------------------
(* What the batches do to a database.                                      *)

\* (Wrong variant: the epoch is not advanced.)
SameEpoch(d) == d

\* A new batch has a new epoch.
Aged(d) == [d EXCEPT !.mark = [k \in Pkgs |-> IF d.mark[k] = None THEN None ELSE "old"]]

Marked(d, k) == [d EXCEPT !.mark[k] = "new"]

\* (Wrong variant: only primary overwrites.)
SavedOnce(d, k, v) ==
    [d EXCEPT !.frag = [m \in Metans |->
        IF m = "primary" \/ (m \in Required /\ d.frag[m][k] = None) THEN [d.frag[m] EXCEPT ![k] = v]
        ELSE d.frag[m]]]

\* save_computed_result: every Metan overwrites the package's fragment, but
\* AppstreamMetan::save writes nothing for a package without components.
Saved(d, k, v) ==
    [d EXCEPT !.frag = [m \in Metans |->
        IF m \in Required \/ v \in AppVers THEN [d.frag[m] EXCEPT ![k] = v] ELSE d.frag[m]]]

\* (Wrong variant: the Metans are not told.)
WithoutMarks(d, ks) ==
    [d EXCEPT !.mark = [k \in Pkgs |-> IF k \in ks THEN None ELSE d.mark[k]]]

\* Deleting packages removes their marks and calls every Metan's `del`.
Without(d, ks) ==
    [mark |-> [k \in Pkgs |-> IF k \in ks THEN None ELSE d.mark[k]],
     frag |-> [m \in Metans |-> [k \in Pkgs |-> IF k \in ks THEN None ELSE d.frag[m][k]]]]

StaleOf(d) == {k \in Pkgs : d.mark[k] = "old"}

-------------------------------------------------------------------------------
Begin(kind) ==
    /\ txn = None
    /\ txn' = Aged(db)
    /\ job' = kind
    /\ got' = {}
    /\ UNCHANGED db

\* A computed package arrives (add_frags, or FragRequest::Put).
ReceivePut(k, v) ==
    /\ txn # None
    /\ txn' = Saved(Marked(txn, k), k, v)
    /\ got' = got \union {k}
    /\ UNCHANGED <<db, job>>

\* FragRequest::Cached arrives: the sender saw the package in the cache.
ReceiveCached(k) ==
    /\ job = "update"
    /\ k \in Present(db)
    /\ txn' = Marked(txn, k)
    /\ got' = got \union {k}
    /\ UNCHANGED <<db, job>>

CommitAdd ==
    /\ job = "add"
    /\ db' = txn
    /\ txn' = None
    /\ job' = None
    /\ UNCHANGED got

\* The purge at the end of update_frags, and the commit.
CommitUpdate ==
    /\ job = "update"
    /\ db' = Without(txn, StaleOf(txn))
    /\ txn' = None
    /\ job' = None
    /\ UNCHANGED got

\* (Wrong variant: the batch outlives its transaction.)
RollbackKeepsJob == txn # None /\ txn' = None /\ UNCHANGED <<db, job, got>>

\* An error is returned, or the process dies: the transaction is gone.
Rollback ==
    /\ txn # None
    /\ txn' = None
    /\ job' = None
    /\ UNCHANGED <<db, got>>

\* delete_pkgs is one transaction of its own.
DeletePkgs(ks) ==
    /\ txn = None
    /\ db' = Without(db, ks)
    /\ UNCHANGED <<txn, job, got>>

Next ==
    \/ \E kind \in {"add", "update"} : Begin(kind)
    \/ \E k \in Pkgs : ReceiveCached(k) \/ \E v \in Vers : ReceivePut(k, v)
    \/ CommitAdd \/ CommitUpdate \/ Rollback
    \/ \E ks \in SUBSET Pkgs : DeletePkgs(ks)

Spec == Init /\ [][Next]_vars

-------------------------------------------------------------------------------
(* Properties.                                                             *)

\* "A record exists in this database iff the cache acknowledges the package's
\* existence": epo and the three full Metan databases have the same keys, and
\* appstream has no others.
AgreeOn(d) ==
    \A k \in Pkgs :
        /\ \A m \in Required : d.frag[m][k] # None <=> d.mark[k] # None
        /\ d.frag["appstream"][k] # None => d.mark[k] # None

\* Readers (has, keys, on_generate) never see the databases disagree.
KeysAgree == AgreeOn(db)

\* The fragments of a package always describe one and the same file content,
\* so that primary.xml, filelists.xml and other.xml fit together.
OneContent(d) == \A k \in Pkgs : \A m \in Required : d.frag[m][k] = d.frag["primary"][k]
SameContent == OneContent(db)

\* "Update the cache to include all and only the packages from recv", and
\* add_frags keeps all the others and their fragments.
BatchesAreExact ==
    [][/\ job = "update" /\ db' # db => Present(db') = got
       /\ job = "add" /\ db' # db =>
            /\ Present(db') = Present(db) \union got
            /\ \A m \in Metans, k \in Pkgs \ got : db'.frag[m][k] = db.frag[m][k]]_vars
===============================================================================
