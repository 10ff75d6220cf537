----------------------------- MODULE KiritanProofs -----------------------------
(***************************************************************************)
(* Theorems about Kiritan, for any directory, any number of workers and any    *)
(* channel.                                                                *)
(*                                                                         *)
(* Each file of a run is in one place: not taken yet, skipped, on its way to   *)
(* the writer, or received (FilesApart).  The purge leaves what was received,   *)
(* and when the channel is closed and empty, that is all that was not skipped. *)
(***************************************************************************)
EXTENDS Kiritan, TLAPS

\* The packages that are on their way to the writer.
Underway ==
    {k \in Pkgs : \/ \E w \in Workers : held[w] # None /\ held[w].pkg = k
                  \/ \E i \in DOMAIN chan : chan[i].pkg = k}

\* Where a run's files are while the writer is at work.
FilesApart ==
    writer = "open" =>
        /\ asked = left \union skipped \union Underway \union got
        /\ left \intersect skipped = {}
        /\ (left \union skipped) \intersect (Underway \union got) = {}

\* A request says "cached" of packages that the committed cache has.
CachedAreThere ==
    writer = "open" =>
        /\ \A w \in Workers : held[w] # None /\ held[w].frag = "cached" => held[w].pkg \in C!Present(db)
        /\ \A i \in DOMAIN chan : chan[i].frag = "cached" => chan[i].pkg \in C!Present(db)

\* The writer's transaction is an update, and its new marks are what was received.
WriterKnows ==
    /\ writer = "open" => job = "update" /\ got = {k \in Pkgs : txn.mark[k] = "new"}
    /\ main \in {"walk", "stop"} => writer # "done"
    /\ main \in {"idle", "remove", "write", "compact", "close", "swap", "done"} => writer # "open"

\* What is still to be done at each place of the main thread.
Places ==
    /\ main = "idle" => left = {} /\ skipped = {} /\ held = Quiet /\ chan = <<>>
    /\ main = "join" => left = {} /\ held = Quiet
    /\ left \subseteq OnDisk

\* What the cache has when the writer is done.
Mirrored ==
    /\ main \in {"join", "remove"} /\ writer = "done" => C!Present(db) = asked \ skipped
    /\ main = "remove" => writer = "done"
    /\ MirrorsInput

KiritanInv == TypeOK /\ FilesApart /\ CachedAreThere /\ WriterKnows /\ Places /\ Mirrored

-------------------------------------------------------------------------------
(* What the batches do to the marks.                                       *)

\* An older epoch.
LEMMA AgedMarks ==
    ASSUME NEW d \in C!Db
    PROVE /\ C!Aged(d) \in C!Db
          /\ \A k \in Pkgs : C!Aged(d).mark[k] # "new"
  BY CacheConstants DEF C!Aged, C!Db, C!Marks

\* A mark that is renewed.
LEMMA RenewedMarks ==
    ASSUME NEW d \in C!Db, NEW k \in Pkgs
    PROVE /\ C!Marked(d, k) \in C!Db
          /\ \A p \in Pkgs : C!Marked(d, k).mark[p] = IF p = k THEN "new" ELSE d.mark[p]
  BY DEF C!Marked, C!Db, C!Marks

\* Saving fragments leaves the marks alone.
LEMMA SavedMarks ==
    ASSUME NEW d \in C!Db, NEW k \in Pkgs, NEW v \in Vers
    PROVE C!Saved(d, k, v) \in C!Db /\ C!Saved(d, k, v).mark = d.mark
  BY DEF C!Saved, C!Db

\* Deleting packages.
LEMMA WithoutMarks ==
    ASSUME NEW d \in C!Db, NEW ks \in SUBSET Pkgs
    PROVE C!Without(d, ks) \in C!Db /\ C!Present(C!Without(d, ks)) = C!Present(d) \ ks
  <1> DEFINE e == C!Without(d, ks)
  <1>1. \A k \in Pkgs : e.mark[k] = IF k \in ks THEN None ELSE d.mark[k]
    BY DEF C!Without
  <1>2. e \in C!Db
    <2>1. ASSUME NEW m \in C!Metans PROVE d.frag[m] \in [Pkgs -> Vers \union {None}]
      BY <2>1 DEF C!Db
    <2>2. d.mark \in [Pkgs -> C!Marks \union {None}]
      BY DEF C!Db
    <2> QED
      BY <2>1, <2>2 DEF C!Without, C!Db
  <1> HIDE DEF e
  <1>3. C!Present(e) = C!Present(d) \ ks
    BY <1>1 DEF C!Present
  <1> QED
    BY <1>2, <1>3 DEF e

-------------------------------------------------------------------------------
(* The invariant.                                                          *)

\* It holds in the beginning.
LEMMA KiritanInit == Init => KiritanInv
  <1> SUFFICES ASSUME Init PROVE KiritanInv
    OBVIOUS
  <1> USE CacheConstants DEF Init, C!Init
  <1>1. C!Empty \in C!Db /\ C!Present(C!Empty) = {}
    BY DEF C!Empty, C!Db, C!Metans, C!Required, C!Present
  <1>2. TypeOK
    <2>1. C!TypeOK
      BY <1>1 DEF C!TypeOK
    <2>2. held \in [Workers -> Request \union {None}]
      BY DEF Quiet
    <2>3. chan \in Seq(Request) /\ Len(chan) <= Cap
      BY CapAssumption
    <2> QED
      BY <2>1, <2>2, <2>3 DEF TypeOK
  <1> QED
    BY <1>2 DEF KiritanInv, FilesApart, CachedAreThere, WriterKnows, Places, Mirrored, MirrorsInput

\* Touching the directory, failures and the moves of the main thread that do not
\* touch the cache.
LEMMA MainKeeps ==
    ASSUME KiritanInv,
           \/ \E k \in Pkgs, v \in Vers \union {None} : Touch(k, v)
           \/ WalkFails \/ Stopped \/ CloseChannel \/ Join \/ CopyData \/ RenameOld \/ RenameNew
           \/ \E w \in Workers : SendFails(w)
    PROVE KiritanInv'
  <1> USE DEF KiritanInv
  <1>1. ASSUME NEW k \in Pkgs, NEW v \in Vers \union {None}, Touch(k, v) PROVE KiritanInv'
    <2>1. TypeOK'
      BY <1>1 DEF Touch, TypeOK, C!TypeOK, cacheVars, runVars
    <2>2. FilesApart' /\ CachedAreThere' /\ WriterKnows' /\ Places' /\ Mirrored'
      BY <1>1 DEF Touch, cacheVars, runVars, FilesApart, Underway, CachedAreThere, WriterKnows, Places, OnDisk,
         Mirrored, MirrorsInput, C!Present
    <2> QED
      BY <2>1, <2>2
  <1>2. CASE \/ WalkFails \/ Stopped \/ CloseChannel \/ Join \/ CopyData \/ RenameOld \/ RenameNew
             \/ \E w \in Workers : SendFails(w)
    <2>0. UNCHANGED <<cacheVars, disk, repodata, runVars>> /\ main # "idle" /\ main' # "idle"
      BY <1>2 DEF WalkFails, Stopped, CloseChannel, Join, CopyData, RenameOld, RenameNew, SendFails
    <2>1. TypeOK'
      <3>1. main' \in {"stop", "join", "remove", "write", "close", "swap", "done", "failed"} /\ spare' \in BOOLEAN
        BY <1>2 DEF WalkFails, Stopped, CloseChannel, Join, CopyData, RenameOld, RenameNew, SendFails, TypeOK
      <3> QED
        BY <2>0, <3>1 DEF TypeOK, C!TypeOK, cacheVars, runVars
    <2>2. FilesApart' /\ CachedAreThere'
      BY <2>0 DEF cacheVars, runVars, FilesApart, Underway, CachedAreThere, C!Present
    <2>3. WriterKnows'
      BY <1>2, <2>0 DEF WalkFails, Stopped, CloseChannel, Join, CopyData, RenameOld, RenameNew, SendFails,
         WriterKnows, cacheVars, runVars
    <2>4. Places'
      BY <1>2, <2>0 DEF WalkFails, Stopped, CloseChannel, Join, CopyData, RenameOld, RenameNew, SendFails,
         Places, OnDisk, Quiet, cacheVars, runVars
    <2>5. Mirrored'
      BY <1>2, <2>0 DEF WalkFails, Stopped, CloseChannel, Join, CopyData, RenameOld, RenameNew, SendFails,
         Mirrored, MirrorsInput, WriterKnows, C!Present, cacheVars, runVars
    <2> QED
      BY <2>1, <2>2, <2>3, <2>4, <2>5
  <1> QED
    BY <1>1, <1>2

\* A worker takes a file: it skips it, or has it on its way.
LEMMA TakeKeeps == ASSUME KiritanInv, NEW w \in Workers, NEW k \in Pkgs, Take(w, k) PROVE KiritanInv'
  <1> USE DEF KiritanInv
  <1>0. /\ UNCHANGED <<cacheVars, spare, disk, repodata, main, mode, remove, chan, writer, asked>>
        /\ main = "walk" /\ k \in left /\ held[w] = None /\ left' = left \ {k}
        /\ disk[k] \in Vers
    BY DEF Take, TypeOK, Places, OnDisk
  <1>1. \/ /\ skipped' = skipped /\ \E f \in Vers \union {"cached"} :
              /\ held' = [held EXCEPT ![w] = [pkg |-> k, frag |-> f]]
              /\ f = "cached" => k \in C!Present(db)
        \/ skipped' = skipped \union {k} /\ held' = held
    BY <1>0, CachedAssumption DEF Take
  <1>2. CASE skipped' = skipped \union {k} /\ held' = held
    BY <1>0, <1>2 DEF TypeOK, C!TypeOK, FilesApart, Underway, CachedAreThere, WriterKnows, Places, OnDisk,
       Mirrored, MirrorsInput, C!Present, cacheVars
  <1>3. ASSUME NEW f \in Vers \union {"cached"}, skipped' = skipped,
               held' = [held EXCEPT ![w] = [pkg |-> k, frag |-> f]],
               f = "cached" => k \in C!Present(db)
        PROVE KiritanInv'
    <2>1. /\ [pkg |-> k, frag |-> f] \in Request /\ [pkg |-> k, frag |-> f] # None
          /\ held \in [Workers -> Request \union {None}]
      BY NoneIsNoRequest DEF Request, TypeOK
    <2>2. /\ held' \in [Workers -> Request \union {None}]
          /\ held'[w] # None /\ held'[w].pkg = k /\ held'[w].frag = f
          /\ \A x \in Workers : x # w => held'[x] = held[x]
      BY <1>3, <2>1
    <2>3. Underway' = Underway \union {k}
      BY <1>0, <2>2 DEF Underway
    <2>4. TypeOK'
      BY <1>0, <1>3, <2>2 DEF TypeOK, C!TypeOK, cacheVars
    <2>5. FilesApart'
      BY <1>0, <1>3, <2>3 DEF FilesApart, cacheVars
    <2>6. CachedAreThere'
      BY <1>0, <1>3, <2>2 DEF CachedAreThere, C!Present, cacheVars
    <2>7. WriterKnows' /\ Places' /\ Mirrored'
      BY <1>0, <1>3 DEF WriterKnows, Places, OnDisk, Mirrored, MirrorsInput, C!Present, cacheVars
    <2> QED
      BY <2>4, <2>5, <2>6, <2>7
  <1> QED
    BY <1>1, <1>2, <1>3

\* A request goes from a worker to the channel.
LEMMA SendKeeps == ASSUME KiritanInv, NEW w \in Workers, Send(w) PROVE KiritanInv'
  <1> USE DEF KiritanInv
  <1> DEFINE r == held[w]
  <1>0. /\ UNCHANGED <<cacheVars, spare, disk, repodata, main, mode, remove, left, skipped, writer, asked>>
        /\ main \in {"walk", "stop"} /\ writer = "open" /\ r \in Request
        /\ Len(chan) < Cap /\ chan' = Append(chan, r) /\ held' = [held EXCEPT ![w] = None]
    BY DEF Send, TypeOK
  <1>1. chan \in Seq(Request) /\ held \in [Workers -> Request \union {None}]
    BY DEF TypeOK
  <1>2. /\ held' \in [Workers -> Request \union {None}] /\ held'[w] = None
        /\ \A x \in Workers : x # w => held'[x] = held[x]
    BY <1>0, <1>1
  <1>3. /\ chan' \in Seq(Request) /\ Len(chan') = Len(chan) + 1
        /\ chan'[Len(chan) + 1] = r /\ \A i \in DOMAIN chan : chan'[i] = chan[i]
        /\ DOMAIN chan' = DOMAIN chan \union {Len(chan) + 1}
    BY <1>0, <1>1
  <1>4. r # None
    BY DEF Send
  <1> HIDE DEF r
  <1>5. Underway' = Underway
    <2>1. \A k \in Pkgs : (\E i \in DOMAIN chan' : chan'[i].pkg = k)
                          <=> r.pkg = k \/ \E i \in DOMAIN chan : chan[i].pkg = k
      BY <1>3
    <2>2. \A k \in Pkgs : (\E x \in Workers : held[x] # None /\ held[x].pkg = k)
                          <=> r.pkg = k \/ \E x \in Workers : held'[x] # None /\ held'[x].pkg = k
      BY <1>2, <1>4 DEF r
    <2> QED
      BY <2>1, <2>2 DEF Underway
  <1>6. TypeOK'
    BY <1>0, <1>2, <1>3, CapAssumption DEF TypeOK, C!TypeOK, cacheVars
  <1>7. FilesApart'
    BY <1>0, <1>5 DEF FilesApart, cacheVars
  <1>8. CachedAreThere'
    BY <1>0, <1>2, <1>3, <1>4 DEF CachedAreThere, C!Present, cacheVars, r
  <1>9. WriterKnows' /\ Places' /\ Mirrored'
    BY <1>0 DEF WriterKnows, Places, OnDisk, Mirrored, MirrorsInput, C!Present, cacheVars
  <1> QED
    BY <1>6, <1>7, <1>8, <1>9

\* The writer takes a request from the channel.
LEMMA ReceiveKeeps == ASSUME KiritanInv, Receive PROVE KiritanInv'
  <1> USE DEF KiritanInv
  <1> DEFINE r == Head(chan)
  <1>0. /\ UNCHANGED <<db, job, spare, disk, repodata, main, mode, remove, left, skipped, held, writer, asked>>
        /\ writer = "open" /\ chan # <<>> /\ chan \in Seq(Request) /\ r \in Request
        /\ chan' = Tail(chan) /\ got' = got \union {r.pkg}
        /\ txn' = IF r.frag = "cached" THEN C!Marked(txn, r.pkg)
                  ELSE C!Saved(C!Marked(txn, r.pkg), r.pkg, r.frag)
    BY DEF Receive, TypeOK
  <1>1. r.pkg \in Pkgs /\ (r.frag # "cached" => r.frag \in Vers) /\ txn \in C!Db
    BY <1>0 DEF Request, TypeOK, C!TypeOK
  <1>2. /\ txn' \in C!Db
        /\ \A p \in Pkgs : txn'.mark[p] = IF p = r.pkg THEN "new" ELSE txn.mark[p]
    BY <1>0, <1>1, RenewedMarks, SavedMarks
  <1>3. /\ chan' \in Seq(Request) /\ Len(chan') = Len(chan) - 1 /\ 1 \in DOMAIN chan /\ chan[1] = r
        /\ \A i \in DOMAIN chan' : i + 1 \in DOMAIN chan /\ chan'[i] = chan[i + 1]
        /\ \A i \in DOMAIN chan : i = 1 \/ (i - 1 \in DOMAIN chan' /\ chan'[i - 1] = chan[i])
    <2> DEFINE n == Len(chan)
    <2>1. chan' \in Seq(Request) /\ Len(chan') = n - 1 /\ n \in Nat \ {0} /\ chan[1] = r
          /\ DOMAIN chan = 1 .. n /\ DOMAIN chan' = 1 .. (n - 1)
      BY <1>0
    <2>2. \A i \in 1 .. (n - 1) : chan'[i] = chan[i + 1]
      BY <1>0
    <2> HIDE DEF n
    <2>3. ASSUME NEW i \in 1 .. n, i # 1 PROVE i - 1 \in 1 .. (n - 1) /\ chan'[i - 1] = chan[i]
      <3>1. i - 1 \in 1 .. (n - 1) /\ (i - 1) + 1 = i
        BY <2>1, <2>3
      <3>2. chan'[i - 1] = chan[(i - 1) + 1]
        BY <2>2, <3>1
      <3> QED
        BY <3>1, <3>2
    <2>4. \A i \in 1 .. (n - 1) : i + 1 \in 1 .. n
      BY <2>1
    <2>5. 1 \in 1 .. n
      BY <2>1
    <2>6. \A i \in DOMAIN chan' : i + 1 \in DOMAIN chan /\ chan'[i] = chan[i + 1]
      BY <2>1, <2>2, <2>4
    <2>7. \A i \in DOMAIN chan : i = 1 \/ (i - 1 \in DOMAIN chan' /\ chan'[i - 1] = chan[i])
      BY <2>1, <2>3
    <2>8. 1 \in DOMAIN chan
      BY <2>1, <2>5
    <2> QED
      BY <2>1, <2>6, <2>7, <2>8 DEF n
  <1> HIDE DEF r
  <1>4. Underway' \union got' = Underway \union got
    <2>1. \A k \in Pkgs : (\E i \in DOMAIN chan : chan[i].pkg = k)
                          <=> k = r.pkg \/ \E i \in DOMAIN chan' : chan'[i].pkg = k
      BY <1>3
    <2>2. r.pkg \in Underway
      BY <1>1, <1>3 DEF Underway
    <2> QED
      BY <1>0, <1>1, <2>1, <2>2 DEF Underway
  <1>5. TypeOK'
    <2>1. Len(chan') <= Cap
      BY <1>0, <1>3, CapAssumption DEF TypeOK
    <2> QED
      BY <1>0, <1>1, <1>2, <1>3, <2>1, CacheConstants DEF TypeOK, C!TypeOK
  <1>6. FilesApart'
    BY <1>0, <1>4 DEF FilesApart
  <1>7. CachedAreThere'
    BY <1>0, <1>3 DEF CachedAreThere, C!Present
  <1>8. WriterKnows'
    BY <1>0, <1>1, <1>2 DEF WriterKnows
  <1>9. Places' /\ Mirrored'
    BY <1>0, <1>3 DEF Places, OnDisk, Mirrored, MirrorsInput, C!Present, WriterKnows
  <1> QED
    BY <1>5, <1>6, <1>7, <1>8, <1>9

\* The writer commits what it received.
LEMMA CommitKeeps == ASSUME KiritanInv, Commit PROVE KiritanInv'
  <1> USE DEF KiritanInv
  <1>0. /\ UNCHANGED <<spare, disk, repodata, main, mode, remove, left, skipped, held, chan, asked, got>>
        /\ writer = "open" /\ writer' = "done" /\ chan = <<>> /\ main \in {"join", "failed"}
        /\ db' = C!Without(txn, C!StaleOf(txn)) /\ txn' = None /\ job' = None
    BY DEF Commit, C!CommitUpdate
  <1>1. txn \in C!Db
    BY <1>0 DEF TypeOK, C!TypeOK
  <1>2. db' \in C!Db /\ C!Present(db') = C!Present(txn) \ C!StaleOf(txn)
    BY <1>0, <1>1, WithoutMarks DEF C!StaleOf
  <1>3. C!Present(db') = got
    <2>1. \A k \in Pkgs : txn.mark[k] \in {None, "old", "new"}
      BY <1>1 DEF C!Db, C!Marks
    <2>2. got = {k \in Pkgs : txn.mark[k] = "new"}
      BY <1>0 DEF WriterKnows
    <2>3. C!Present(txn) \ C!StaleOf(txn) = {k \in Pkgs : txn.mark[k] = "new"}
      BY <2>1, CacheConstants DEF C!Present, C!StaleOf
    <2> QED
      BY <1>2, <2>2, <2>3
  <1>4. main = "join" => C!Present(db') = asked \ skipped
    <2> SUFFICES ASSUME main = "join" PROVE C!Present(db') = asked \ skipped
      OBVIOUS
    <2>1. left = {} /\ Underway = {}
      BY <1>0 DEF Places, Underway, Quiet
    <2> QED
      BY <1>0, <1>3, <2>1 DEF FilesApart
  <1>5. TypeOK'
    BY <1>0, <1>2, CacheConstants DEF TypeOK, C!TypeOK
  <1>6. FilesApart' /\ CachedAreThere' /\ WriterKnows' /\ Places'
    BY <1>0 DEF FilesApart, CachedAreThere, WriterKnows, Places, OnDisk, Quiet
  <1>7. Mirrored'
    BY <1>0, <1>4 DEF Mirrored, MirrorsInput
  <1> QED
    BY <1>5, <1>6, <1>7

\* The writer gives up.
LEMMA WriterFailsKeeps == ASSUME KiritanInv, WriterFails PROVE KiritanInv'
  <1> USE DEF KiritanInv
  <1>0. /\ UNCHANGED <<spare, disk, repodata, main, mode, remove, left, skipped, held, asked, db, got>>
        /\ writer = "open" /\ writer' = "dead" /\ chan' = <<>> /\ txn' = None /\ job' = None
    BY DEF WriterFails, C!Rollback
  <1>1. TypeOK'
    BY <1>0, CapAssumption, CacheConstants DEF TypeOK, C!TypeOK
  <1>2. FilesApart' /\ CachedAreThere' /\ WriterKnows' /\ Places' /\ Mirrored'
    BY <1>0 DEF FilesApart, CachedAreThere, WriterKnows, Places, OnDisk, Quiet, Mirrored, MirrorsInput, C!Present
  <1> QED
    BY <1>1, <1>2

\* A run starts.
LEMMA StartKeeps ==
    ASSUME KiritanInv, NEW m \in {"auto", "manual"}, NEW files \in SUBSET OnDisk,
           NEW rm \in SUBSET Pkgs, Start(m, files, rm)
    PROVE KiritanInv'
  <1> USE DEF KiritanInv
  <1>0. /\ UNCHANGED <<spare, disk, repodata, skipped, held, chan, db>>
        /\ main = "idle" /\ main' = "walk" /\ mode' = m /\ remove' = rm /\ left' = files
        /\ writer' = "open" /\ asked' = files
        /\ txn' = C!Aged(db) /\ job' = "update" /\ got' = {}
    BY DEF Start, C!Begin
  <1>1. db \in C!Db /\ files \subseteq Pkgs
    BY DEF TypeOK, C!TypeOK, OnDisk
  <1>2. txn' \in C!Db /\ \A k \in Pkgs : txn'.mark[k] # "new"
    BY <1>0, <1>1, AgedMarks
  <1>3. held = Quiet /\ chan = <<>> /\ skipped = {}
    BY <1>0 DEF Places
  <1>4. TypeOK'
    BY <1>0, <1>1, <1>2, CacheConstants DEF TypeOK, C!TypeOK
  <1>5. Underway' = {}
    BY <1>0, <1>3 DEF Underway, Quiet
  <1>6. FilesApart' /\ CachedAreThere'
    BY <1>0, <1>3, <1>5 DEF FilesApart, CachedAreThere, Quiet
  <1>7. WriterKnows' /\ Places' /\ Mirrored'
    BY <1>0, <1>2 DEF WriterKnows, Places, OnDisk, Mirrored, MirrorsInput
  <1> QED
    BY <1>4, <1>6, <1>7

\* What deletes packages while there is no writer.
LEMMA DeleteKeeps == ASSUME KiritanInv, ClearCache \/ RemovePkgs PROVE KiritanInv'
  <1> USE DEF KiritanInv
  <1>0. /\ UNCHANGED <<disk, repodata, txn, job, got, runVars>> /\ txn = None
        /\ \E ks \in SUBSET Pkgs : /\ db' = C!Without(db, ks)
                                   /\ main = "remove" => ks = remove
        /\ \/ main = "remove" /\ main' = "write" /\ spare' = spare
           \/ main = "idle" /\ main' = "idle" /\ spare' = FALSE
    BY DEF ClearCache, RemovePkgs, C!DeletePkgs, TypeOK
  <1>1. writer # "open"
    BY <1>0 DEF TypeOK
  <1>2. db' \in C!Db /\ (main = "remove" => C!Present(db') = C!Present(db) \ remove)
    BY <1>0, WithoutMarks DEF TypeOK, C!TypeOK
  <1>3. TypeOK'
    BY <1>0, <1>2 DEF TypeOK, C!TypeOK, runVars
  <1>4. FilesApart' /\ CachedAreThere' /\ WriterKnows' /\ Places'
    BY <1>0, <1>1 DEF runVars, FilesApart, CachedAreThere, WriterKnows, Places, OnDisk, Quiet
  <1>5. Mirrored'
    BY <1>0, <1>2 DEF runVars, Mirrored, MirrorsInput
  <1> QED
    BY <1>3, <1>4, <1>5

\* The repodata are written, and the process ends.
LEMMA EndKeeps == ASSUME KiritanInv, WriteAll \/ Exit PROVE KiritanInv'
  <1> USE DEF KiritanInv
  <1>1. CASE WriteAll
    <2>0. /\ UNCHANGED <<cacheVars, spare, disk, runVars>>
          /\ main = "write" /\ main' = "compact" /\ repodata' = C!Present(db)
      BY <1>1 DEF WriteAll
    <2>1. TypeOK'
      BY <2>0 DEF TypeOK, C!TypeOK, C!Present, cacheVars, runVars
    <2>2. FilesApart' /\ CachedAreThere' /\ WriterKnows' /\ Places'
      BY <2>0 DEF runVars, cacheVars, FilesApart, CachedAreThere, WriterKnows, Places, OnDisk, Quiet
    <2>3. Mirrored'
      BY <2>0 DEF runVars, cacheVars, Mirrored, MirrorsInput, C!Present
    <2> QED
      BY <2>1, <2>2, <2>3
  <1>2. CASE Exit
    <2>0. /\ UNCHANGED <<spare, disk, repodata>>
          /\ main' = "idle" /\ mode' = "auto" /\ remove' = {} /\ left' = {} /\ skipped' = {}
          /\ held' = Quiet /\ chan' = <<>> /\ writer' = "none" /\ asked' = {}
      BY <1>2 DEF Exit
    <2>1. db' \in C!Db /\ txn' = None /\ job' = None /\ got' \subseteq Pkgs
      <3>1. CASE txn # None
        BY <1>2, <3>1 DEF Exit, C!Rollback, TypeOK, C!TypeOK
      <3>2. CASE txn = None /\ main = "swap"
        BY <1>2, <3>2, WithoutMarks DEF Exit, C!DeletePkgs, TypeOK, C!TypeOK
      <3>3. CASE txn = None /\ main # "swap"
        BY <1>2, <3>3 DEF Exit, cacheVars, TypeOK, C!TypeOK
      <3> QED
        BY <3>1, <3>2, <3>3
    <2>2. Quiet \in [Workers -> Request \union {None}]
      BY DEF Quiet
    <2>3. TypeOK'
      BY <2>0, <2>1, <2>2, CapAssumption, CacheConstants DEF TypeOK, C!TypeOK
    <2>4. FilesApart' /\ CachedAreThere' /\ WriterKnows' /\ Places' /\ Mirrored'
      BY <2>0 DEF FilesApart, CachedAreThere, WriterKnows, Places, OnDisk, Quiet, Mirrored, MirrorsInput
    <2> QED
      BY <2>3, <2>4
  <1> QED
    BY <1>1, <1>2

\* KiritanInv is inductive.
LEMMA KiritanStep == KiritanInv /\ [Next]_vars => KiritanInv'
  <1> SUFFICES ASSUME KiritanInv, [Next]_vars PROVE KiritanInv'
    OBVIOUS
  <1>1. CASE Step
    BY <1>1, MainKeeps, TakeKeeps, SendKeeps, ReceiveKeeps, CommitKeeps, DeleteKeeps, EndKeeps DEF Step
  <1>2. CASE \/ Exit \/ ClearCache \/ WalkFails \/ WriterFails
             \/ \E k \in Pkgs, v \in Vers \union {None} : Touch(k, v)
    BY <1>2, MainKeeps, DeleteKeeps, WriterFailsKeeps, EndKeeps
  <1>3. CASE Start("auto", OnDisk, {})
    BY <1>3, StartKeeps
  <1>4. CASE \E add \in SUBSET OnDisk, rm \in SUBSET Pkgs : Start("manual", add, rm)
    BY <1>4, StartKeeps
  <1>5. CASE UNCHANGED vars
    BY <1>5 DEF vars, cacheVars, runVars, KiritanInv, TypeOK, C!TypeOK, FilesApart, Underway, CachedAreThere,
       WriterKnows, Places, OnDisk, Quiet, Mirrored, MirrorsInput, C!Present
  <1> QED
    BY <1>1, <1>2, <1>3, <1>4, <1>5 DEF Next

\* And so it holds throughout.
LEMMA KiritanInvariant == Spec => []KiritanInv
  BY KiritanInit, KiritanStep, PTL DEF Spec

\* The variables keep their types, with at most Cap requests in the channel.
THEOREM KiritanTypeCorrect == Spec => []TypeOK
  <1>1. KiritanInv => TypeOK
    BY DEF KiritanInv
  <1> QED
    BY <1>1, KiritanInvariant, PTL

\* A run that reports success leaves in the cache and in the repodata exactly what it
\* was given, for any directory, any number of workers and any order of their steps.
THEOREM RunsMirrorTheirInput == Spec => []MirrorsInput
  <1>1. KiritanInv => MirrorsInput
    BY DEF KiritanInv, Mirrored
  <1> QED
    BY <1>1, KiritanInvariant, PTL

\* The threads together use the cache as Cache allows.
THEOREM KiritanImplementsCache == Spec => ImplementsCache
  <1>1. Init => C!Init
    BY DEF Init
  <1>2. ASSUME KiritanInv, [Next]_vars PROVE [C!Next]_(C!vars)
    <2> USE DEF C!vars
    <2>1. ASSUME NEW k \in Pkgs, NEW v \in Vers \union {None}, Touch(k, v) PROVE UNCHANGED cacheVars
      BY <2>1 DEF Touch
    <2>2. CASE \/ WalkFails \/ Stopped \/ CloseChannel \/ Join \/ WriteAll \/ CopyData \/ RenameOld \/ RenameNew
               \/ (\E w \in Workers : Send(w) \/ SendFails(w) \/ \E k \in Pkgs : Take(w, k))
               \/ UNCHANGED vars
      BY <2>2 DEF WalkFails, Stopped, CloseChannel, Join, WriteAll, CopyData, RenameOld, RenameNew,
         Send, SendFails, Take, vars, cacheVars
    <2>3. ASSUME NEW m, NEW files, NEW rm, Start(m, files, rm) PROVE C!Next
      BY <2>3 DEF Start, C!Next
    <2>4. CASE Receive
      <3> DEFINE r == Head(chan)
      <3>1. r \in Request /\ writer = "open" /\ 1 \in DOMAIN chan /\ chan[1] = r
            /\ UNCHANGED <<db, job>> /\ got' = got \union {r.pkg}
            /\ txn' = IF r.frag = "cached" THEN C!Marked(txn, r.pkg)
                      ELSE C!Saved(C!Marked(txn, r.pkg), r.pkg, r.frag)
        BY <1>2, <2>4 DEF Receive, KiritanInv, TypeOK
      <3>2. r.pkg \in Pkgs /\ (r.frag # "cached" => r.frag \in Vers) /\ txn # None /\ job = "update"
        BY <1>2, <3>1 DEF Request, KiritanInv, TypeOK, WriterKnows
      <3>3. r.frag = "cached" => r.pkg \in C!Present(db)
        BY <1>2, <3>1 DEF KiritanInv, CachedAreThere
      <3> HIDE DEF r
      <3>4. CASE r.frag = "cached"
        BY <3>1, <3>2, <3>3, <3>4 DEF C!Next, C!ReceiveCached
      <3>5. CASE r.frag # "cached"
        BY <3>1, <3>2, <3>5 DEF C!Next, C!ReceivePut
      <3> QED
        BY <3>4, <3>5
    <2>5. CASE Commit \/ WriterFails
      BY <2>5 DEF Commit, WriterFails, C!Next
    <2>6. CASE ClearCache \/ RemovePkgs
      BY <1>2, <2>6 DEF ClearCache, RemovePkgs, C!Next, KiritanInv, TypeOK
    <2>7. CASE Exit
      BY <2>7 DEF Exit, C!Next, cacheVars
    <2> QED
      BY <1>2, <2>1, <2>2, <2>3, <2>4, <2>5, <2>6, <2>7 DEF Next, Step, cacheVars
  <1> QED
    BY <1>1, <1>2, KiritanInvariant, PTL DEF Spec, ImplementsCache, C!Spec

===============================================================================
