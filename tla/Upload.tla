-------------------------------- MODULE Upload --------------------------------
(***************************************************************************)
(* Package uploads and deletions of one repository: upload_pkgs and del_rpms. *)
(*                                                                         *)
(* An upload reads the cache's keys under a read closure, then streams every *)
(* rpm straight to its place in the package store with no lock held, and only *)
(* then runs a write closure that indexes what it received and deletes, from  *)
(* the cache and from the store, the "previous versions" it worked out from   *)
(* those keys.  Closures exclude each other (Locker); the receiving does not. *)
(* The cache is its set of keys with the checksum each key is listed with;    *)
(* what generate makes of it is in Publish.  An rpm is an arbitrary value;     *)
(* FileName is what its file is called, PackageOf which package its builder    *)
(* made.  The code knows only the former.                                     *)
(***************************************************************************)
EXTENDS Names

CONSTANTS Reqs,     \* requests in flight
          Rpms,     \* what clients send
          FileName, \* its name, as a sequence of tokens
          Packages, \* packages: a name and an architecture
          PackageOf, \* the package each rpm is a version of
          Hier, Base, \* the hierarchy of the repository and its directory
          Owners,   \* who may work on what: sets of packages for each request
          Bytes,    \* what an rpm may contain
          MaxBatch, \* rpms in one request, at most
          Tidy,     \* do clients send a package once per request?
          MayFail,  \* may requests fail or be dropped half-way?
          Partial, None

ASSUME UploadAssumption ==
    /\ FileName \in [Rpms -> Seq(STRING)] /\ Base \in Seq(STRING)
    /\ \A n, k \in Rpms : FileName[n] = FileName[k] => n = k
    /\ PackageOf \in [Rpms -> Packages]
    /\ Hier \in {"Satm0Flat", "Fedora"}
    /\ Owners \subseteq [Reqs -> SUBSET Packages]
    /\ MaxBatch \in Nat
    /\ Tidy \in BOOLEAN /\ MayFail \in BOOLEAN
    /\ Partial \notin Bytes /\ None \notin Bytes \union {Partial} \union Reqs

VARIABLES
    own,    \* the packages each request's client works on
    store,  \* published file at each link
    index,  \* checksum in each rpm's cache entry
    lock,   \* the request running a write closure
    pc, kind,
    todo,   \* rpms the client has yet to send; in a closure, files yet to delete
    snap,   \* the cache's keys when the upload began (parsed_keys)
    got,    \* rpms received, with their contents
    removed, \* filenames to delete
    missing, \* those of them that the cache did not have (not_found)
    clean   \* history: nothing has failed yet

vars == <<own, store, index, lock, pc, kind, todo, snap, got, removed, missing, clean>>

Rpm == Rpms \X Bytes

\* Where an rpm is published: below the repository, as its hierarchy says.
Link == [n \in Rpms |-> Join(Base, LocateRelative(Hier, FileName[n]))]
Links == {Link[n] : n \in {k \in Rpms : Receivable(FileName[k])}}

\* The name and architecture the code reads from an rpm's filename, if any.
Parsed == [n \in Rpms |-> ParseFilename(FileName[n])]

Listed == {n \in Rpms : index[n] # None}

TypeOK ==
    /\ own \in Owners
    /\ store \in [Links -> Bytes \union {Partial, None}]
    /\ index \in [Rpms -> Bytes \union {None}]
    /\ lock \in Reqs \union {None}
    /\ pc \in [Reqs -> {"idle", "receive", "stream", "check", "enter", "add", "del",
                        "unlink", "generate"}]
    /\ kind \in [Reqs -> {"upload", "delete"}]
    /\ todo \in [Reqs -> Seq(Rpm) \union Seq(Rpms)]
    /\ snap \in [Reqs -> SUBSET Rpms]
    /\ got \in [Reqs -> Seq(Rpm)]
    /\ removed \in [Reqs -> Seq(Rpms)] /\ missing \in [Reqs -> SUBSET Rpms]
    /\ clean \in BOOLEAN
    /\ \A q \in Reqs : lock = q <=> pc[q] \in {"add", "del", "unlink", "generate"}

Init ==
    /\ own \in Owners
    /\ store = [l \in Links |-> None] /\ index = [n \in Rpms |-> None]
    /\ lock = None
    /\ pc = [q \in Reqs |-> "idle"] /\ kind = [q \in Reqs |-> "upload"]
    /\ todo = [q \in Reqs |-> <<>>] /\ got = [q \in Reqs |-> <<>>]
    /\ snap = [q \in Reqs |-> {}] /\ removed = [q \in Reqs |-> <<>>]
    /\ missing = [q \in Reqs |-> {}]
    /\ clean = TRUE

Goto(q, place) == pc' = [pc EXCEPT ![q] = place]

\* The request is over and its locals are dropped; a closure's locks with them.
End(q) ==
    /\ Goto(q, "idle")
    /\ lock' = IF lock = q THEN None ELSE lock
    /\ UNCHANGED own
    /\ kind' = [kind EXCEPT ![q] = "upload"]
    /\ todo' = [todo EXCEPT ![q] = <<>>] /\ got' = [got EXCEPT ![q] = <<>>]
    /\ snap' = [snap EXCEPT ![q] = {}] /\ removed' = [removed EXCEPT ![q] = <<>>]
    /\ missing' = [missing EXCEPT ![q] = {}]

\* What the clients send: rpms of q's own packages, each package at most once if
\* they are tidy.
May(q, names) ==
    /\ \A i \in DOMAIN names : PackageOf[names[i]] \in own[q]
    /\ \A i, j \in DOMAIN names : Tidy /\ i # j => PackageOf[names[i]] # PackageOf[names[j]]

-------------------------------------------------------------------------------
\* upload_pkgs: the read closure that reads the cache's keys.
StartUpload(q, batch) ==
    /\ pc[q] = "idle" /\ lock = None
    /\ May(q, [i \in DOMAIN batch |-> batch[i][1]])
    /\ Goto(q, "receive")
    /\ todo' = [todo EXCEPT ![q] = batch]
    /\ snap' = [snap EXCEPT ![q] = Listed]
    /\ UNCHANGED <<own, store, index, lock, kind, got, removed, missing, clean>>

\* del_rpms checks the names (an error changes nothing) and goes straight to its
\* write closure.
StartDelete(q, names) ==
    /\ pc[q] = "idle"
    /\ May(q, names)
    /\ \A i \in DOMAIN names : RpmFilename(FileName[names[i]])
    /\ Goto(q, "enter")
    /\ kind' = [kind EXCEPT ![q] = "delete"]
    /\ removed' = [removed EXCEPT ![q] = names]
    /\ UNCHANGED <<own, store, index, lock, todo, snap, got, missing, clean>>

\* receive_rpm: StoreBackend::writer at the published place.  A local store
\* truncates the file, a remote one keeps the object until the upload is done.
OpenWriter(q) ==
    /\ pc[q] = "receive" /\ todo[q] # <<>>
    /\ Receivable(FileName[Head(todo[q])[1]])
    /\ \/ store' = [store EXCEPT ![Link[Head(todo[q])[1]]] = Partial]
       \/ UNCHANGED store
    /\ Goto(q, "stream")
    /\ UNCHANGED <<own, index, lock, kind, todo, snap, got, removed, missing, clean>>

\* (Wrong variant: the filter of previous versions is inverted.)
OnlyItself(q, n) == {k \in snap[q] : Parsed[k] = Parsed[n] /\ k = n}

\* The previous versions of rpm n among the keys the request has seen.
PreviousVersions(q, n) == {k \in snap[q] : Parsed[k] = Parsed[n] /\ k # n}

\* receive_rpm: the stream is in the store and in the temporary directory.
Received(q) ==
    /\ pc[q] = "stream"
    /\ LET rpm == Head(todo[q]) IN
        /\ Parsed[rpm[1]] # {}
        /\ store' = [store EXCEPT ![Link[rpm[1]]] = rpm[2]]
        /\ removed' = [removed EXCEPT ![q] = @ \o SetToSeq(PreviousVersions(q, rpm[1]))]
    /\ Goto(q, "check")
    /\ UNCHANGED <<own, index, lock, kind, todo, snap, got, missing, clean>>

\* receive_rpm refuses a name: before it opens the file, or, if the name cannot
\* be parsed, after the file was published.
Refuse(q) ==
    /\ todo[q] # <<>>
    /\ LET rpm == Head(todo[q]) IN
        \/ /\ pc[q] = "receive" /\ ~Receivable(FileName[rpm[1]])
           /\ clean' = (clean /\ got[q] = <<>>)
           /\ UNCHANGED store
        \/ /\ pc[q] = "stream" /\ Parsed[rpm[1]] = {}
           /\ clean' = FALSE
           /\ store' = [store EXCEPT ![Link[rpm[1]]] = rpm[2]]
    /\ End(q)
    /\ UNCHANGED index

\* check_csum; a mismatch is a failure (Fail), after the file was published.
Check(q) ==
    /\ pc[q] = "check"
    /\ got' = [got EXCEPT ![q] = Append(@, Head(todo[q]))]
    /\ todo' = [todo EXCEPT ![q] = Tail(@)]
    /\ Goto(q, "receive")
    /\ UNCHANGED <<own, store, index, lock, kind, snap, removed, missing, clean>>

EndOfBody(q) ==
    /\ pc[q] = "receive" /\ todo[q] = <<>>
    /\ Goto(q, "enter")
    /\ UNCHANGED <<own, store, index, lock, kind, todo, snap, got, removed, missing, clean>>

-------------------------------------------------------------------------------
\* Locker::write
Enter(q) ==
    /\ pc[q] = "enter" /\ lock = None
    /\ lock' = q
    /\ Goto(q, IF kind[q] = "upload" THEN "add" ELSE "del")
    /\ UNCHANGED <<own, store, index, kind, todo, snap, got, removed, missing, clean>>

\* The worker threads compute the fragments, add_frags commits them.  An rpm
\* that cannot be computed is logged and skipped.
AddFrags(q) ==
    /\ pc[q] = "add"
    /\ \E bad \in SUBSET ToSet(got[q]) :
        /\ bad # {} => MayFail
        /\ clean' = (clean /\ bad = {})
        /\ index' = [n \in Rpms |->
              IF \E b \in Bytes : <<n, b>> \in ToSet(got[q]) \ bad
              THEN CHOOSE b \in Bytes : <<n, b>> \in ToSet(got[q]) \ bad
              ELSE index[n]]
    /\ Goto(q, IF removed[q] = <<>> THEN "generate" ELSE "del")
    /\ UNCHANGED <<own, store, lock, kind, todo, snap, got, removed, missing>>

\* What Cache::delete_pkgs reports: a name that was not there when its turn came.
NotFound(names) ==
    {names[i] : i \in {j \in DOMAIN names :
        index[names[j]] = None \/ \E k \in 1 .. j - 1 : names[k] = names[j]}}

\* (Wrong variant: the files go before the cache entries.)
DeletePkgsUncommitted(q) ==
    /\ pc[q] = "del"
    /\ todo' = [todo EXCEPT ![q] = removed[q]]
    /\ missing' = [missing EXCEPT ![q] = NotFound(removed[q])]
    /\ Goto(q, "unlink")
    /\ UNCHANGED <<own, store, index, lock, kind, snap, got, removed, clean>>

\* Repo::del: the cache entries go in one transaction.
DeletePkgs(q) ==
    /\ pc[q] = "del"
    /\ index' = [n \in Rpms |-> IF n \in ToSet(removed[q]) THEN None ELSE index[n]]
    /\ todo' = [todo EXCEPT ![q] = removed[q]]
    /\ missing' = [missing EXCEPT ![q] = NotFound(removed[q])]
    /\ Goto(q, "unlink")
    /\ UNCHANGED <<own, store, lock, kind, snap, got, removed, clean>>

\* (Wrong variant: the files stay.)
UnlinkNothing(q) ==
    /\ pc[q] = "unlink" /\ todo[q] # <<>>
    /\ todo' = [todo EXCEPT ![q] = Tail(@)]
    /\ UNCHANGED <<own, store, index, lock, pc, kind, snap, got, removed, missing, clean>>

\* Repo::del: then the files, one await each, without those that were not found.
Unlink(q) ==
    /\ pc[q] = "unlink" /\ todo[q] # <<>>
    /\ store' = IF Head(todo[q]) \in missing[q] THEN store
                ELSE [store EXCEPT ![Link[Head(todo[q])]] = None]
    /\ todo' = [todo EXCEPT ![q] = Tail(@)]
    /\ UNCHANGED <<own, index, lock, pc, kind, snap, got, removed, missing, clean>>

AllUnlinked(q) ==
    /\ pc[q] = "unlink" /\ todo[q] = <<>>
    /\ Goto(q, "generate")
    /\ UNCHANGED <<own, store, index, lock, kind, todo, snap, got, removed, missing, clean>>

\* generate (Publish), and the answer to the client.
Generate(q) ==
    /\ pc[q] = "generate"
    /\ End(q)
    /\ UNCHANGED <<store, index, clean>>

\* The client hangs up, the checksum is wrong, or an I/O operation fails.
Fail(q) ==
    /\ MayFail
    /\ pc[q] # "idle"
    /\ End(q)
    /\ clean' = FALSE
    /\ UNCHANGED <<store, index>>

\* What request q may do next.
Step(q) ==
    \/ \E batch \in SeqOf(Rpm, MaxBatch) : batch # <<>> /\ StartUpload(q, batch)
    \/ \E names \in SeqOf(Rpms, MaxBatch) : names # <<>> /\ StartDelete(q, names)
    \/ OpenWriter(q) \/ Received(q) \/ Refuse(q) \/ Check(q) \/ EndOfBody(q)
    \/ Enter(q) \/ AddFrags(q) \/ DeletePkgs(q) \/ Unlink(q) \/ AllUnlinked(q)
    \/ Generate(q) \/ Fail(q)

Next == \E q \in Reqs : Step(q)

Spec == Init /\ [][Next]_vars
-------------------------------------------------------------------------------
(* Properties.                                                             *)

\* What the theorems about them suppose of the clients: no two work on a package at
\* a time, ...
ClientsApart == \A o \in Owners : \A q, p \in Reqs : q # p => o[q] \cap o[p] = {}

\* ... and of the rpms whose names the code accepts: those of a package, and no
\* others, have the same name and architecture in their filenames.
WellNamed ==
    \A n, k \in Rpms : RpmFilename(FileName[n]) /\ RpmFilename(FileName[k]) =>
        (Parsed[n] = Parsed[k] <=> PackageOf[n] = PackageOf[k])

\* Every package that is listed to clients can be downloaded, or is being
\* replaced: files are there before they are indexed and go after they are not.
IndexedHasFile == \A n \in Rpms : index[n] # None => store[Link[n]] # None

\* As long as no request fails, when none is under way the store holds exactly
\* the files the cache lists, with the checksums it lists them with: nothing leaks
\* or goes stale.
QuietIsExact ==
    clean /\ (\A q \in Reqs : pc[q] = "idle") =>
        \A l \in Links : \E n \in Rpms : l = Link[n] /\ store[l] = index[n]

\* As long as nothing fails, when an upload is about to be acknowledged, what it
\* received is the only version of each of its packages in the cache.
UploadReplaces ==
    clean => \A q \in Reqs : pc[q] = "generate" =>
        \A i \in DOMAIN got[q] :
            {n \in Listed : PackageOf[n] = PackageOf[got[q][i][1]]} = {got[q][i][1]}

\* What an upload is about to delete as "previous versions" are versions of the
\* packages it received: nothing disappears because its filename looks alike.
UploadSparesOthers ==
    \A q \in Reqs : kind[q] = "upload" /\ pc[q] \in {"enter", "add", "del", "unlink"} =>
        \A n \in ToSet(removed[q]) : \E rpm \in ToSet(got[q]) :
            n # rpm[1] /\ PackageOf[n] = PackageOf[rpm[1]]

\* Repo::del: "Delete a list of packages by filename."  When a deletion is about
\* to be acknowledged, the files it names are gone.
DeletedFilesGone ==
    \A q \in Reqs : pc[q] = "generate" /\ kind[q] = "delete" =>
        \A i \in DOMAIN removed[q] : store[Link[removed[q][i]]] = None

\* What the handlers promise together (PackageStore).  An upload takes effect when
\* it adds its rpms to the cache: nobody sees the older versions that it still has
\* to delete there, for it has the lock.  A deletion takes effect when it deletes.
Deleting == {q \in Reqs : pc[q] = "del" /\ kind[q] = "upload"}

Seen == [n \in Rpms |-> IF \E q \in Deleting : n \in ToSet(removed[q]) THEN None ELSE index[n]]

Sent == [q \in Reqs |->
    ToSet(got[q]) \union IF pc[q] \in {"receive", "stream", "check"} THEN ToSet(todo[q]) ELSE {}]

Named == [q \in Reqs |-> IF kind[q] = "delete" THEN ToSet(removed[q]) ELSE {}]

Phase == [q \in Reqs |->
    CASE pc[q] = "idle" -> "idle"
      [] pc[q] \in {"receive", "stream", "check", "enter", "add"} -> "asked"
      [] pc[q] = "del" /\ kind[q] = "delete" -> "asked"
      [] OTHER -> "applied"]

Store == INSTANCE PackageStore WITH
    listing <- Seen, sent <- Sent, named <- Named, phase <- Phase

\* Every upload and every deletion is as good as one step between its arrival and its
\* answer, whatever it received with no lock held, and whatever fails: it replaces
\* exactly the versions listed at that moment, and no other package changes.
ImplementsStore == Store!PSpec
===============================================================================
