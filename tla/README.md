# A TLA+ verification of subatomic

Subatomic serves RPM repositories: an HTTP server keeps, for each repository,
the packages, an LMDB cache of XML fragments, and the repodata (`repomd.xml`
and the files it names) that `dnf` downloads, on a local disk or in an object
store. `kiritan` does the same to a directory from the command line, and `satm`
is the server's client. This directory holds TLA+ models of the parts in which
order, concurrency and failure matter, what TLC shows of them on small
instances, and theorems that TLAPS proves for all instances.

Run everything from this directory: `tlc -workers 2 -config X.cfg M` for a run,
`tlapm XProofs.tla` for the proofs. `PROJECT.json` lists the runs, the source
lines that each definition models, the hazards and the theorems.

## The system

| Component | State | Operations | Modelled in |
|---|---|---|---|
| `Locker`, `RepoHdl` (src/repohdl.rs) | map of open handles, an outer lock on it, an inner lock per handle, LMDB environments | `read`, `write`, `del`; opening, eviction, compaction, deletion | `Locker`, `RepoAccess` |
| Tables `repos` and `keys` (src/db.rs, src/api/keys.rs) | rows with a foreign key | create and delete, set and delete a repository's key | `Locker` |
| `Cache` (libsubatomic/cache.rs) | mark database `epo`, a fragment database per Metan | `add_frags`, `update_frags`, `delete_pkgs`, `has`, `keys` | `Cache` |
| Metans (libsubatomic/repodata/, pkg.rs) | their database | `compute`; `save`, `del`; `on_generate` | `Fragments`; `Cache`; `Index` (what the documents say) and `Generate` (how they are written) |
| Publication (libsubatomic/repo.rs, cache.rs) | files under `repodata/`, `repomd.xml`, its signature, custom datatypes | `generate`, `write_custom`, `del_custom` | `Publish`, `Generate` |
| Package handlers (src/api/repos.rs) | the package store, requests under way | `upload_pkgs`, `del_rpms` | `Upload`, `PackageStore` |
| `kiritan` (crates/kiritan) | a directory, a cache, threads and a channel | auto and manual modes, compaction | `Kiritan` (on `Cache`) |
| `satm repo upload` (crates/satm) with `sign_headers` and `upload_pkgs` | local rpms, one connection, a hash on either side | signing, streaming, copying, comparing, trying again | `Transfer` (on `Multipart`) |
| Remote writer (kuchiyose/store.rs) | a buffer, parts under way | `poll_write`, `poll_flush`, `poll_shutdown` | `Multipart`, `AtomicPut` |
| Store backend (kuchiyose/store.rs) | files or objects | `writer`, `rename`, `delete` | as effects in `Publish`, `Upload`, `Generate` |
| Filenames, links, hierarchies (kuchiyose, libsubatomic/repo/hierarchy.rs) | none | taking names apart, checking them, placing them | `Names`, used by `Upload` |
| Checksums (kuchiyose/comp.rs), signing (libsubatomic/sig.rs) | one request's | the hash of what a writer took; which key signs what | `Transfer`; `Locker`, `Publish` |
| Compression, HTTP front, the other commands of `satm` | none, or one request's | pure functions and single calls | not modelled, see below |

How they interact. A handler calls `Locker::read` or `write` with a closure; the
closure works on the handle's `Repo` and its `Cache`. Write closures exclude
each other and everything else on their repository, so what happens inside one
is sequential, but each of its steps is an await at which it may fail or be
dropped, and at which HTTP clients download what is published. Uploads work
outside of closures too: they receive files with no lock held. `generate` runs
the four Metans in one task, with producers on the runtime's blocking threads.
`kiritan` calls `Cache` directly, from several threads. All files reach a
remote store through `MultipartUploadWriter`. `satm` signs, rewrites and streams rpms in one
request, whose body the server copies to the store and to a temporary file
at once; the two compare what they hashed on the way.

What is hard, and what makes each part correct:

- *Locker*: lookups, misses, insertions, evictions and deletions interleave at
  every await, and a client that hangs up drops a future with whatever it holds.
  There must be one handle and one environment per repository, which producers that outlive their generation hold on to, no handle may
  go while it is used, closures must exclude each other, and the two lock levels
  must not deadlock.
- *Cache*: a batch is a transaction fed from a channel. Its databases must agree
  after whatever was committed or lost, and the epoch purge must remove all and
  only what the batch did not name.
- *Publication*: a sequence of separate file operations, each of which may be the
  last. What a client finds in `repomd.xml` must exist.
- *Generation*: a task that blocks while it receives, producers that block while
  they send, and both on bounded threads. It must end, and never publish a
  file cut short.
- *Uploads and deletions*: decisions from a snapshot, files before entries,
  entries before files. Listed packages must be downloadable, and nothing may be
  left over.
- *kiritan*: bounded channel, join, failing walks, retries after a crash. A run must
  end, and the cache must mirror what it was given.
- *Fragments and documents*: versions, senses and metainfo taken apart and written
  again; three documents read in separate transactions that clients join. A resolver must
  read in them what the rpms' headers say.
- *Transfer*: two programs, a connection with bounded room, a store that fails late, a key that
  changes, a user that tries again. What is acknowledged must be what was
  read, signed by one key, and nobody may wait for ever.
- *Remote writer*: parts end in any order and fail late. The object must be all
  bytes in order or what was there before.

## The modules

`X` models a component, `MCX` instantiates it for TLC where a configuration
file alone cannot, `XProofs` holds its theorems. Comments that begin with
"Wrong variant" mark operators that no specification uses: each is a mistake
somebody could make in the operator after it, and putting it in that operator's
place breaks a property. They show that the properties depend on the code.

**Locker.** One action is the code from one await to the next. `pc` says where a
request is; it holds the outer read guard exactly in the places `Inside` and the
inner guard in `Running`. Tokio's fair locks are the sets `ahead`. `cached` is
`repolocks`, `own` a handle in a request's hands (just opened, just taken out),
`opened` heed's registry of open environments. The producers of a generation are blocking
tasks that nothing aborts, each with a clone of the environment: if the generation fails or is dropped
(`LeaveProducers`) they go on (`clones`), the environment stays open without a handle, an opener gets
EnvAlreadyOpened, until the last one ends (`ProducersEnd`). A request is one of five kinds:
a read, a write of the contents, `set_key`, `del_key` and `delete`. `Abort`
drops a future at any await. `rows` and `keys` are the tables, with the foreign
key in `UpdateRow` and `DeleteKey`. `copying` and a handle's `live` are there for
compaction: whether `data.compact` exists, and whether the file the handle has
open is the one called `data.mdb`. The unwraps after a second lookup end in the
place `panic`.

**RepoAccess** is what handlers rely on: a repository is read by many or in
the hands of one. Locker implements it with readers as requests in read closures
and holders as requests in write closures or with the handle in their hands: opening, deleting, and
compacting up to the close. The renames of a compaction come after the close. They are one request's at a
time (`renaming`), but keep nobody away: readers, openers and writers overlap them, which is what
`locker_compact` shows.

**Cache.** `db` is LMDB's committed state, `txn` the write transaction of the
batch under way. A mark is `old` or `new`, which is all that the purge tells apart of
epochs. `Saved` is the four `save` functions, of which appstream's writes nothing for
packages without components. A map-full error is a lost batch: LMDB refuses to
commit a transaction that ran into it, so the helper's retry aborts the process.

**Publish.** A closure goes through the places `record`, `drop`, `generate`,
`repomd` and `sign`; `Fail` ends it anywhere. A file is its content, as its name
is a checksum: `u` or `<<metan, packages>>`. Opening the writer of `repomd.xml` either truncates it
(local) or does not (remote).

**Generate.** A file is a `<<task, metan>>`. `Receive` that finds an empty, open
channel sets `blocked`, and no other future of that task can be polled; store
operations and producers are jobs on `Threads` blocking threads.

**Upload.** `store` is the published packages by link, `index` the cache's keys with the checksums
they are listed with, `lock` the write closure. `snap` is the set of keys read at the
start, from which `PreviousVersions` are worked out; `missing` are the names `Repo::del` reports as not
found, whose files `Unlink` leaves. An rpm is a value of which the code knows
only `FileName`; `PackageOf`, which package it really is a version of, appears in the properties and
in what clients do (`own`, `Tidy`). `Refuse` is an upload that ends at a bad name: before its file is
opened, or, when the name does not parse, after the file was published.

**PackageStore** is the promise to clients: a repository's list of packages changes as if each request took
effect in one step between its arrival and its answer. An upload replaces whatever versions of its packages are listed
then, a deletion takes away the rpms it names, a request that fails touches no package but its own. Upload
implements it by this mapping: an upload takes effect at `AddFrags`, and the older versions that it still has to
delete there count as gone (`Seen`), for it has the lock and nobody sees them; a deletion takes effect at
`DeletePkgs`. What the code does not promise is in the specification too: packages that cannot be read are left out
(`bad`), and an upload that fails between the two calls leaves older versions listed (`Abort`).

**Names** has the operators on filenames and links that Upload uses: `ParseFilename`, the checks of
received names, `LocateRelative`, `Join`. A name is a sequence of tokens (separators, the extension
`rpm`, pieces without separators).

**Fragments** has the conversions that the Metans' `compute` is made of, as operators without state: versions
(`ParseVersion`), senses (`RepodataFlags`), dependencies, files, and the appstream events that
`transform` keeps. An rpm is a record of the header fields that the fragments are
about; a metainfo file is its XML events, references to entities (`ref`) among them, and the `entities` its DOCTYPE
declares; a version or a path is a sequence of tokens, an epoch that is absent the empty set; `Numbers` says which tokens spell a number, and which.

**Index** EXTENDS Cache and Fragments. `gen` is a generation under way: what each Metan has counted, and what
its producer has read, each in a transaction of its own. `Exclusive` is what Locker gives, that
nobody writes the cache meanwhile. **MCIndex** gives it four rpms: one without epoch and
components, one with everything, one whose metainfo does not parse, and one whose metainfo refers to an entity that it declares itself. TLC evaluates on them what the
theorems suppose of rpms (`BuiltProperly`, `ReadAsXml`).

**Kiritan** instantiates Cache: its writer thread takes Cache's actions, its
workers read Cache's committed state. The process can be killed at any point
(`Exit`), and files change between runs. `spare` says whether a `data.compact` exists, the places
`compact`, `close` and `swap` are those before the copy and before either rename; killed at `swap`, it leaves
no data file, and the next run opens an empty cache.

**Multipart.** Bytes are numbered, a buffer or a part is an interval. `Write(k)` is
`poll_write` with its top-up, full chunks and remainder. **AtomicPut** is the
promise to readers; the refinement maps the object's parts to the number of bytes
they hold in order.

**Transfer** EXTENDS Multipart: the writer is the one that `double_write` copies into. `client` and
`server` are the places of `satm` and of the handler, `wire` the pieces of the request's body
between them. A hash is the number of bytes hashed and whether one of them was changed on the way
(`spoilt`). `mgr` is the key that `sign_headers` cloned, `sig` who signed each local rpm last, which
outlives a failed attempt. Each file has a new writer (`NewWriter`, AtomicPut's `Reopen`).

## The runs

| Run | Shows | Bounds, and why they are enough |
|---|---|---|
| `locker` | `HandleExact`, `InsideHasHandle`, `NoDeadlock`, `ImplementsAccess`, `KeyStableUnderClosures` | Three requests that come again and again, and the producers they leave behind, one repository: repositories share nothing but the outer lock, and a hazard needs a holder, a waiter and one who interferes. One key and one private key for each; symmetric requests. |
| `locker_live` | `EveryRequestEnds` | Three requests, no symmetry. Contents operations and deletion use both lock levels in every way there is. |
| `locker_compact`, `locker_stale_key` | two disagreements, below | Two requests. |
| `cache` (module MCIndex) | `KeysAgree`, `SameContent`, `BatchesAreExact`, `DocumentsJoin`, `DependenciesSurvive`, `AppstreamWellFormed` | Three packages (one named, one kept, one purged) with four contents: the rpms of MCIndex, which between them have every form of version, sense, file and event that the conversions tell apart. One generation at a time, as in a write closure. |
| `publish` | `CustomFilesExist`, `PublishedFilesExist`, `SettledIsCurrent` | Two metans, two datatypes, three uploads (a replacement of a replacement), two keys. |
| `publish_repeat`, `upload_twice` | two disagreements, below | As `publish`, with repeated uploads; one client. |
| `upload` | `QuietIsExact`, `UploadReplaces`, `UploadSparesOthers`, `IndexedHasFile`, `ImplementsStore` | Two clients and up to two files per request. Two versions of package `a` (one with an epoch and a dotted version), its build for another architecture, package `a-b`, a name with too few dashes and one with a slash. Either one client has two packages, or one sends the bad names too. Fedora hierarchy. |
| `generate` | `FilesComplete`, `NoStandstill`, `GenerateEnds`, `ThreadsReturn` | Two files of four and three fragments, a channel of one slot, one thread more than files: either file can stand still, fill its channel and outlast the other. With one thread less, `NoStandstill` and `GenerateEnds` fail. |
| `kiritan` | `MirrorsInput`, `ImplementsCache`, `RunEnds` | Two workers, one slot, two files with two contents that change between runs, any number of runs, ended or killed anywhere. |
| `transfer` | `AcknowledgedIsIntact`, `RefusedForCause`, `SignedByOneKey`, `TransferEnds` of the whole; `BytesInOrder`, `PartSizes`, `ImplementsPut`, `CloseEnds` of its writer | Two rpms of up to five bytes, read one or four bytes at once, parts of two bytes: writes below, at and above one part, up to three parts. Room for two pieces in the connection, two keys and none, any number of attempts, one at a time (overlapping requests are in `upload`). Any part size and any length: the proofs. |

The other passing runs also check their modules' type invariants; those of Locker and Upload are proved. Deadlock is checked
except in `transfer` and `generate`, where an upload that was acknowledged and a
generation that has ended have nothing left to do. Bounds on unbounded things: `Reqs`
requests at a time, `Mats` keys ever generated, `MaxBatch` files per request, `MaxBytes` bytes per writer, `Window` pieces in a connection; the other
constants are finite sets in the code too.

Assumptions the runs make about the environment, each a constant or a guard:

- `upload`: no package is worked on by two clients at once, and no request names a package
  twice. The code keeps no lock while it receives, so that without the first,
  listed packages may lack their files; see the hazards.
- `publish`: no metadata file is sent twice (`MayRepeat`); `publish_repeat` drops this.
- `generate`: at most 127 repositories are generated at once, as tokio has 512
  blocking threads and a repository four files (`GenerateAssumption`: more threads than files).

### Fairness

- `Locker!FairSpec`: weak fairness of each request's `Step`. The runtime polls
  every task that was woken, and tokio's locks hand over in order (`ahead`); nothing
  makes clients send, or hang up.
- `Generate!FairSpec`: weak fairness of each task, of each job and of taking
  jobs. LMDB errors and cancellations are not fair: nothing relies on them.
- `Kiritan!FairSpec`: weak fairness of `Step`; the operating system runs threads, every
  step is finite, and neither failures, kills nor new runs are included.
- `TransferSpec`: weak fairness of `satm`, of the handler and of the store's answers, separately. Both
  programs run; a read of a connection that is broken fails (`SourceFailed`), and requests to a store
  end, if only by their timeouts. Nothing makes connections break, keys change, parts fail or the user
  try again.

### Where the code does not do what its text says

- `locker_compact`: `Locker::write` drops all locks before `compact_close` renames files, so another
  request can open the file that is about to be replaced and lose its write.
- `locker_stale_key`: "we are certain nobody is using the key" (src/api/keys.rs:79): a
  handle that is being opened has read it already.
- `publish_repeat`: sending the same metadata file again deletes it.
- `upload_twice`: a deletion that names a package twice removes its entry, leaves its file,
  and reports it as not found.

Smaller ones, which no run needs to show:

- The comment at libsubatomic/pkg.rs:113 says that a versioned dependency must carry the epoch, as createrepo_c does; the field is skipped when it
  is 0 (:135). Both mean the same to a resolver, and `DependenciesSurvive` treats them so.
- `transform` (repodata/appstream.rs:79) leaves in the fragment what it wrote before a metainfo
  file failed to parse, so that one broken file makes the repository's appstream document malformed. The same happens with a file that ends
  too early, which quick-xml reads to its end without an error. `AppstreamWellFormed` claims nothing of such packages.
- `transform` drops a metainfo file's DOCTYPE (repodata/appstream.rs:39) and writes the references to the entities it
  declares on (:40): a file that is well-formed makes the repository's document malformed. `AppstreamWellFormed` says
  that this is the only way in which one can.
- "Close the env so the mmap is released" (cache.rs:498): `compact_close` gives up only its own `Arc`. If the closure's
  generation failed, producers may still have theirs, and the file is renamed under an open environment (`Drop`, `clones`).
- After a key was removed `satm` signs nothing, and rpms that an earlier, failed attempt signed keep their
  signature; `SignedByOneKey` speaks of uploads to a repository with a key. A key change leaves what is published with its
  old signature; `SettledIsCurrent` speaks of the end of an operation that succeeded, and no more once the key has changed.
- A `data.compact` that a killed run left makes every later compaction fail, in `kiritan` (`spare`) as in the
  server (`copying`).
- `satm` rewrites a local rpm in place (api_client.rs:144): killed then, it leaves a file that the
  next attempt may sign and upload. The models compare what was read with what
  arrived, and cannot tell.

## The proofs

`LockerProofs`, `CacheProofs`, `IndexProofs`, `KiritanProofs`, `TransferProofs`, `PublishProofs`, `GenerateProofs`
and `UploadProofs` prove, for all values of the constants that satisfy the named assumptions, what the runs
check on small ones:

- **Locker**: `TypeOK`, `HandleExact`, `InsideHasHandle`, `KeyStableUnderClosures`, and
  that Locker implements RepoAccess. Assumptions: `OpsAssumption`, `NoneAssumption` (that
  null values are no values). The inductive invariant is
  `LockerInv`: types; which places a request with a handle in its hands can be at
  (`OwnPlaces`); `HandleExact`; `InsideHasHandle`; and that a request in a write closure is alone
  in its repository's closures (`WriterAlone`), one that renames alone with its repository's data file
  (`RenamerAlone`). `HandleExact` is not inductive without `OwnPlaces`:
  inserting a handle must put one that exists in a place that is empty, and that the
  place is empty follows from `opened`, that is from heed's refusal to open an
  environment twice. The locks alone would not give it; that `opened` may outlast the handle, while producers have
  clones, only makes more opens fail. The refinement follows from
  `HandleExact`, `WriterAlone` and `RenamerAlone` (who renames has made the one `data.compact` there is), one step of RepoAccess or a stutter for each action. `LocksNeverDeadlock`:
  any finite number of requests never all wait for each other. The invariant `Lines` says that whoever waits has
  only others of its own line `ahead`, and with each of them those ahead of it. By that every finite line has
  a first (`LineHasFirst`, from the library's theorem that inclusion of finite sets is well-founded); where nobody is in a
  closure the first of an inner line can enter, and where nobody waits for an inner lock either, the outer lock is free.
- **Cache**: `TypeOK`, `KeysAgree`, `SameContent`, `BatchesAreExact`, from
  `CacheInv`, which says of the open transaction what holds of the committed state, and that
  the packages with a new mark are those received.
- **Index**: that it implements Cache, so that Cache's theorems hold in it, and `DocumentsJoin`. `GenInv` says that
  what a generation has counted and read is what the cache still says; with `CacheInv` (same
  keys, same content) the documents list the same packages under the same identities, whatever
  the rpms are. `FlagsKeepSense` is about a conversion, for any set of flags: an entry compares versions as
  its dependency does. It needs the arms of `RepodataFlags` to exclude each other, as those of the code
  do by their order; a TLA+ `CASE` does not order them.
- **Index**, what the documents say: `DependenciesAreKept` (`DependenciesSurvive`), for rpms that are `BuiltProperly`: no
  dependency that is both less and greater, no version that ends in a dash, a version without dashes, and a
  provide of the package itself under its version, as rpmbuild makes them. `AppstreamIsWellFormed`
  (`AppstreamWellFormed`): if a package's metainfo files are well-formed, what it adds to the document is so exactly when none
  of them refers to an entity of its own; for files whose events are those that a reader of XML returns (`ReadAsXml`). Both are
  about folds over sequences of any length. The library's induction theorems take an operator, so induction is done here over the
  set of the indices at which a claim fails, which has a least element (`LeastNatural`, `Induct`); `Recursion` shows
  from it that a recursive function on an interval exists and is the only one, `Flatten` that `FlattenSeq` is
  the concatenation its definition says. `ParseMeans` and `MeansParse` say that `ParseVersion` reads from a value the
  version that it means, and no other; `TransformBalanced` that `transform` keeps a file balanced and its references, from the stack of open elements after each
  event; `TransformLabelled` that the package's name follows each opened component.
- **Kiritan**: `TypeOK`, `MirrorsInput` and that it implements Cache, for any directory, any number of workers and any
  channel. The invariant says that each file of a run is in one place - not taken, skipped, on its way, received
  (`FilesApart`) - that the transaction's new marks are those received (`WriterKnows`), and that a request which
  says "cached" names a package of the committed cache (`CachedAreThere`), which stays true because only the
  writer commits. When the channel is closed and empty, what was received is all that was not
  skipped, and the purge leaves just that.
- **Transfer** with **Multipart**: `BytesInOrder`, `PartSizes`, that the writer implements AtomicPut through all files and
  attempts, and `SignedByOneKey`. `WriterInv` adds to the first two that a closing writer's
  buffer is empty and that the link is written once, with everything; `WriterPlace` that outside of a copy the
  writer has ended or is new, so that replacing it loses nothing. Two lemmas carry the sequences (`Extend`,
  `ExtendMany`: one piece more, a chain of pieces more), one the arithmetic (`Division`).
  `OldAssumption` says that what the link showed before is not a sequence of parts.
- **Transfer**, both ends: `Typing`, `AcknowledgedIsIntact` and `RefusedForCause`. What the two sides have hashed can
  only be compared through what is between them, and the connection may hold any number of pieces. So
  each piece `Leads` from one `Point` of the body to the next (after so many whole files, and so many bytes of
  this one), and a `Trail` is the points that the pieces on the way lead through. `WayInv`: while the handler
  reads, a trail begins where it is and ends where `satm` is. It grows at one end (`TrailGrows`), is consumed at the
  other (`TrailPasses`), and a byte that is changed on the way leaves it as it is (`TrailKeeps`). The piece with the
  checksum leads on only if it says how many bytes precede it; a handler that is in a place to compare
  is thus known to have hashed as many bytes as `satm` has. `SenderInv` and `ReceiverInv` say what either
  keeps: among other things that the temporary file lags behind the store only within a chunk, and that what was
  received so far is intact, which is what an acknowledgement then means of all files.
- **Publish**: `TypeOK` and `SettledIsCurrent` always, `CustomFilesExist` and
  `PublishedFilesExist` if no file is sent twice (`~MayRepeat`). The invariant
  `Progress` says what each place of a closure has achieved, `Fresh` that an entry's file is not the one that is
  to be deleted.
- **Generate**: `TypeOK`, `FilesComplete` and `NoStandstill`, for any number of repositories, Metans and fragments and
  any capacity. `GenerateInv` says that a producer's job is in the queue once or on a thread while it has not ended
  (`ProducersOnce`), so are store operations that are waited for (`StoresPending`), what a future's place says of its channel
  (`PlacesKnow`: one that left its loop has taken everything of a producer that ended well), and which futures a task has
  (`TasksKnow`). From it and `Threads > Cardinality(Files)` follows that something can always go on: only a
  producer with a full channel holds a thread without end, a file has one producer, and so there is always a thread
  that a store operation holds or that can take the next job (`StoresGetThreads`). This is freedom from deadlock; that generation
  also ends (`GenerateEnds`) is TLC's.
- **Upload**: `TypeOK`, `UploadSparesOthers`, `IndexedHasFile`, `QuietIsExact` and `UploadReplaces`, for any rpms, any contents,
  any number of clients and batches of any size. Four invariants, each with those before it. `NamesInv`: only names that the
  code accepts are received, listed or removed. `OwnInv`: what a request removes are other versions of what it
  has accepted (`Spares`), all of its own client's (`KeepsToItsOwn`). `FilesInv`: what is about to be indexed has its file, and what is
  about to lose it is not indexed (`FilesAround`); this needs that a request's work is disturbed by no
  other, hence `ClientsApart`. `ExactInv`, as long as nothing fails: store and cache
  differ only at the names some request has `Pending`; what it accepted is what the store holds (`Published`); the keys
  it read at the start are still right for its packages, so that it removes every other version (`Versions`).
  The theorems about it (`QuietIsExact`, `UploadReplaces`) need clients that send a package once per request (`Tidy`); `upload_twice` shows what happens otherwise.
  `WellNamed`, that the parts of a filename that the code compares tell packages apart, is not about the code but about
  names, and `BuildersNameWell` reduces it to what it means: `FilenamesParse` proves of `ParseFilename` that from a
  file called `name-version-release.arch.rpm` it reads back name and architecture, for all names with any dashes, dots and
  colons; so rpms that are called as builders call them are well-named. MCUpload assumes `ClientsApart`, which TLC
  evaluates, and its accepted names have that form.
- **Upload** implements **PackageStore** (`RequestsTakeEffectAtOnce`), from the same three hypotheses and whatever
  fails. It rests on the parts of `ExactInv` that need no `clean`: an upload's `removed` are, from the moment it has
  the lock to that at which it adds, all other versions that are listed of what it accepted (`Versions`, `Spares`). One
  lemma for each kind of step shows what it does to the abstract state: receiving changes nothing of it
  (`Works`), adding is `Apply` because the versions that become invisible are just those that it supersedes
  (`AddingApplies`), deleting them afterwards changes nothing that is seen, and a request that ends at any other place leaves the list
  as it was or shows again what it did not delete (`EndingsAnswer`). Only one upload is ever at that place
  (`OneDeletes`), which is what the write lock is for.

Only model-checked: the liveness properties (`EveryRequestEnds`, `GenerateEnds`, `ThreadsReturn`, `RunEnds`, `CloseEnds`,
`TransferEnds`), for liveness under fairness and ENABLED are out of the prover's reach. Every other property of a passing run
has a theorem. The proofs about sequences that are read or written at one end (`Transfer`'s trail, `Generate`'s queue,
`Upload`'s batches) need no induction over data: the invariant speaks of each position, and the
induction is the one over steps.

## Not modelled, and why

- Parsing rpm headers and the XML syntax: libraries'. Of the fragments, texts that no decision depends on
  (summaries, licences, sizes, times).
- Compression: stream adapters of libraries behind the interface of `Mochi`, whose hash is in Transfer.
- OpenPGP (`sig.rs`): the models keep who signed what.
- Of filenames, links and hierarchies, what nothing modelled uses: `Link::parent`, `iter_rpms` (its
  callers are commented out).
- `satm`'s other commands: one HTTP request each. What its local rpms contain besides signatures.
- HTTP routing, authentication, configuration and the checks of repository names: stateless.
- `kiritan`'s md mode and comps, which are `write_custom` and `del_custom` as in Publish, in one thread.
- The commented-out code of `repo.rs` (`add_replace`, `regenerate`).

## Order of the work, and what is left

Built in this order: Locker with RepoAccess, Cache, Publish, Upload, Kiritan, Multipart with
AtomicPut, Generate, Names, Transfer, Fragments, Index, PackageStore; then the proofs, of which those of what documents say, of
PackageStore and of the freedom from deadlock of Locker came last. Left:

- Transfer and Upload: that what `Received` publishes is what `Transfer` calls intact, so that the checksums in the cache are
  those of the rpms that clients sent.
- The hazards that `PROJECT.json` lists without a property; each has a note saying why.
