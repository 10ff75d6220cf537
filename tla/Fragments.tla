------------------------------- MODULE Fragments ------------------------------
(***************************************************************************)
(* What the Metans write about one rpm: the `compute` of primary, filelists,  *)
(* other and appstream (crates/libsubatomic/repodata/) and the conversions    *)
(* they use (crates/libsubatomic/pkg.rs).                                    *)
(*                                                                         *)
(* An rpm is a record with the fields of its header that the fragments are    *)
(* about, its files in the order of the archive, and `id`, which stands for    *)
(* all of its bytes.  A path or a version is a sequence of tokens: the         *)
(* separators the code looks for, and pieces without them; a token "bin" is    *)
(* whatever ends in these letters.  Texts that no decision depends on          *)
(* (summary, licence, times, sizes) are left out.                             *)
(***************************************************************************)
EXTENDS Naturals, Sequences, SequencesExt

CONSTANT Numbers \* the numbers that tokens spell

ASSUME NumbersAssumption ==
    /\ Numbers \in [DOMAIN Numbers -> Nat]
    /\ DOMAIN Numbers \subseteq STRING \ {":", "-"}

First(s, token) == SelectInSeq(s, LAMBDA x : x = token)

\* What passes Test, in order.  (SelectSeq, whose definition the provers cannot use.)
Filtered(s, Test(_)) == FlattenSeq([i \in DOMAIN s |-> IF Test(s[i]) THEN <<s[i]>> ELSE <<>>])

\* str::parse::<u64>
Number(token) == {Numbers[n] : n \in DOMAIN Numbers \intersect {token}}

-------------------------------------------------------------------------------
(* pkg.rs                                                                  *)

\* (Wrong variant: the epoch stays in the version.)
ParseWithoutEpoch(value) ==
    LET dash == First(value, "-")
    IN [epoch |-> 0,
        ver |-> IF dash = 0 THEN value ELSE SubSeq(value, 1, dash - 1),
        rel |-> IF dash = 0 THEN <<>> ELSE SubSeq(value, dash + 1, Len(value))]

\* Version::parse: [epoch:]ver[-rel], where what is before the colon is an epoch
\* only if it is a number.
ParseVersion(value) ==
    LET colon == First(value, ":")
        epoch == IF colon = 2 THEN Number(value[1]) ELSE {}
        rest  == IF epoch = {} THEN value ELSE SubSeq(value, colon + 1, Len(value))
        dash  == First(rest, "-")
    IN [epoch |-> IF epoch = {} THEN 0 ELSE CHOOSE e \in epoch : TRUE,
        ver |-> IF dash = 0 THEN rest ELSE SubSeq(rest, 1, dash - 1),
        rel |-> IF dash = 0 THEN <<>> ELSE SubSeq(rest, dash + 1, Len(rest))]

\* repodata_flags
RepodataFlags(flags) ==
    LET less    == "LESS" \in flags
        greater == "GREATER" \in flags
        equal   == "EQUAL" \in flags
    IN CASE less /\ equal                 -> "LE"
         [] ~less /\ greater /\ equal     -> "GE"
         [] less /\ ~equal                -> "LT"
         [] ~less /\ greater /\ ~equal    -> "GT"
         [] ~less /\ ~greater /\ equal    -> "EQ"
         [] OTHER                         -> ""

\* From<rpm::Dependency> for Entry: without a comparison there is no version.
Entry(dep) ==
    LET flags == RepodataFlags(dep.flags)
    IN [name |-> dep.name, flags |-> flags,
        version |-> IF flags = "" THEN {} ELSE {ParseVersion(dep.version)}]

Entries(deps) == [i \in DOMAIN deps |-> Entry(deps[i])]

\* Dependencies::from_requires
Requires(deps) == Entries(Filtered(deps, LAMBDA dep : "RPMLIB" \notin dep.flags))

\* From<rpm::FileEntry> for FileEntry
FileEntry(file) ==
    [path |-> file.path,
     type |-> IF file.ghost THEN "ghost" ELSE IF file.dir THEN "dir" ELSE "normal"]

FileEntries(files) == [i \in DOMAIN files |-> FileEntry(files[i])]

-------------------------------------------------------------------------------
(* primary, filelists and other                                            *)

\* inner_is_primary
IsPrimary(path) ==
    \/ IsStrictPrefix(<<"/", "etc", "/">>, path)
    \/ path = <<"/", "usr", "/", "lib", "/", "sendmail">>
    \/ \E i \in 2 .. Len(path) : path[i - 1] = "bin" /\ path[i] = "/"

HeaderVersion(rpm) ==
    [epoch |-> IF rpm.epoch = {} THEN 0 ELSE CHOOSE e \in rpm.epoch : TRUE,
     ver |-> rpm.ver, rel |-> rpm.rel]

\* The uploader's checksum, which check_csum has compared, or that of `digest`.
Checksum(rpm) == rpm.id

\* What all three say of a package.
Identity(rpm) == <<Checksum(rpm), rpm.name, rpm.arch, HeaderVersion(rpm)>>

\* PrimaryFormat; the six other kinds of dependencies are as `provides`.
PrimaryFormat(rpm) ==
    [requires |-> Requires(rpm.requires), provides |-> Entries(rpm.provides),
     files |-> FileEntries(Filtered(rpm.files, LAMBDA f : IsPrimary(f.path)))]

\* PrimaryMetan::compute
PrimaryFrag(rpm, link) ==
    [package |-> Identity(rpm), href |-> link, format |-> PrimaryFormat(rpm)]

\* FilelistsMetan::compute
FilelistsFrag(rpm) == [package |-> Identity(rpm), files |-> FileEntries(rpm.files)]

\* OtherMetan::compute
OtherFrag(rpm) == [package |-> Identity(rpm), changelogs |-> rpm.changelogs]

-------------------------------------------------------------------------------
(* appstream.  A metainfo file is a sequence of XML events [is, name] and the  *)
(* entities that its DOCTYPE declares.  An event "ref" refers to the entity    *)
(* `name`, in text or in an attribute of the event before; "error" ends the    *)
(* file.  References to characters are text.                                 *)

\* (Wrong variant: declarations are kept.)
WithDeclarations(pkgname, event) ==
    IF event.is = "start" /\ event.name = "component"
    THEN <<event, [is |-> "pkgname", name |-> pkgname]>> ELSE <<event>>

\* What transform writes for an event: no declarations, those of entities among
\* them, but every reference.
Transformed(pkgname, event) ==
    IF event.is = "start" /\ event.name = "component"
    THEN <<event, [is |-> "pkgname", name |-> pkgname]>>
    ELSE IF event.is \in {"decl", "pi", "doctype"} THEN <<>> ELSE <<event>>

\* transform: on an error it returns, and what it has written stays.
Transform(pkgname, events) ==
    LET error == SelectInSeq(events, LAMBDA e : e.is = "error")
        read  == IF error = 0 THEN events ELSE SubSeq(events, 1, error - 1)
    IN FlattenSeq([i \in DOMAIN read |-> Transformed(pkgname, read[i])])

\* is_appstream_file
IsAppstreamFile(path) ==
    /\ IsStrictPrefix(<<"/", "usr", "/", "share", "/", "metainfo", "/">>, path)
    /\ path[Len(path)] = "xml" /\ path[Len(path) - 1] = "." /\ path[Len(path) - 2] # "/"

\* appstream_frag.  Ghosts are not in the archive.
Metainfo(rpm) == Filtered(rpm.files, LAMBDA f : ~f.ghost /\ IsAppstreamFile(f.path))
AppstreamFrag(rpm) ==
    FlattenSeq([i \in DOMAIN Metainfo(rpm) |-> Transform(rpm.name, Metainfo(rpm)[i].events)])

\* AppstreamMetan::compute: an empty fragment is none.
HasComponents(rpm) == AppstreamFrag(rpm) # <<>>

-------------------------------------------------------------------------------
\* Cache::compute: every Metan gets the same input.
Compute(rpm, link) ==
    [primary |-> PrimaryFrag(rpm, link), filelists |-> FilelistsFrag(rpm),
     other |-> OtherFrag(rpm), appstream |-> AppstreamFrag(rpm)]
===============================================================================
