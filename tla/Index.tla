--------------------------------- MODULE Index --------------------------------
(***************************************************************************)
(* The package cache together with the generation of the documents that list  *)
(* it: Cache::write_all and the on_generate of primary, filelists, other and   *)
(* appstream, over the fragments that Fragments defines.                      *)
(*                                                                         *)
(* An on_generate reads the cache twice: the number of packages in one read    *)
(* transaction, the fragments, which its producer thread iterates, in another; *)
(* and the Metans run next to each other.  What keeps the documents together   *)
(* is that only a write closure changes the cache or generates (api/repos.rs,   *)
(* Locker), or the one thread of kiritan that is left.                        *)
(*                                                                         *)
(* A document is a function of the package filename: LMDB iterates every        *)
(* database in key order, so the same keys have the same positions.           *)
(***************************************************************************)
EXTENDS Cache, FiniteSets, Fragments

CONSTANT Rpm \* the rpm that each content is

\* A package has an appstream fragment iff its metainfo leaves something.
ASSUME IndexAssumption == AppVers = {v \in Vers : HasComponents(Rpm[v])}

Nothing == [m \in Metans |-> None]

VARIABLE gen \* the generation under way: what it has counted and read; or None

indexVars == <<db, txn, job, got, gen>>

IndexInit == Init /\ gen = None

Stored(m) == {k \in Pkgs : db.frag[m][k] # None}

-------------------------------------------------------------------------------
\* (Wrong variant: the files are written when the write closure is over.)
NoExclusion == TRUE

\* A batch and a deletion are in a write closure, and so is a generation.
Exclusive == gen = None

ChangeCache == Exclusive /\ Next /\ UNCHANGED gen

StartGenerate ==
    /\ gen = None /\ txn = None
    /\ gen' = [count |-> Nothing, body |-> Nothing]
    /\ UNCHANGED vars

\* on_generate writes the header; appstream's has no count.
Count(m) ==
    /\ gen # None
    /\ m # "appstream" /\ gen.count[m] = None
    /\ gen' = [gen EXCEPT !.count[m] = Cardinality(Stored(m))]
    /\ UNCHANGED vars

\* The producer's transaction, and what is written from it.
Collect(m) ==
    /\ gen # None
    /\ m = "appstream" \/ gen.count[m] # None
    /\ gen.body[m] = None
    /\ gen' = [gen EXCEPT !.body[m] = db.frag[m]]
    /\ UNCHANGED vars

\* All files are written and repomd.xml with them, or one could not be.
EndGenerate ==
    /\ gen # None
    /\ gen' = None
    /\ UNCHANGED vars

IndexNext ==
    \/ ChangeCache
    \/ StartGenerate
    \/ \E m \in Metans : Count(m) \/ Collect(m)
    \/ EndGenerate

IndexSpec == IndexInit /\ [][IndexNext]_indexVars

-------------------------------------------------------------------------------
(* Properties.                                                             *)

\* All three full documents are there.
Complete == gen # None /\ \A m \in Required : gen.body[m] # None

Listed(m) == {k \in Pkgs : gen.body[m][k] # None}

\* The package's fragment in document m.  Its link, under which clients download it,
\* is written as its filename.
Fragment(m, k) == Compute(Rpm[gen.body[m][k]], k)[m]

\* The `packages` attribute is the number of packages that follow, primary.xml,
\* filelists.xml and other.xml list the packages that the cache acknowledges, and
\* they say the same checksum, name, architecture and version of each: clients
\* join the documents by these.
DocumentsJoin ==
    Complete =>
        /\ \A m \in Required :
              Listed(m) = Present(db) /\ gen.count[m] = Cardinality(Listed(m))
        /\ \A k \in Present(db), m \in Required :
              Fragment(m, k).package = Fragment("primary", k).package

\* ver[-rel]
Text(version) == version.ver \o (IF version.rel = <<>> THEN <<>> ELSE <<"-">> \o version.rel)

\* Does a dependency's value mean the version that an entry says, as a resolver reads
\* it?  [epoch:]ver[-rel], where no epoch is the same as 0.
Means(value, version) ==
    \/ /\ ~(Len(value) >= 2 /\ value[1] \in DOMAIN Numbers /\ value[2] = ":")
       /\ version.epoch = 0 /\ value = Text(version)
    \/ \E n \in DOMAIN Numbers :
          version.epoch = Numbers[n] /\ value = <<n, ":">> \o Text(version)

Sense == [LT |-> {"LESS"}, LE |-> {"LESS", "EQUAL"}, EQ |-> {"EQUAL"},
          GE |-> {"GREATER", "EQUAL"}, GT |-> {"GREATER"}]

\* An entry asks for the same versions of the same package as the dependency.
SameDependency(entry, dep) ==
    /\ entry.name = dep.name
    /\ IF entry.flags = "" THEN {"LESS", "GREATER", "EQUAL"} \intersect dep.flags = {}
       ELSE /\ Sense[entry.flags] = dep.flags \intersect {"LESS", "GREATER", "EQUAL"}
            /\ \A version \in entry.version : Means(dep.version, version)

\* What a resolver is told of a listed package is what its header says: the same
\* dependencies in the same order but for those on rpm itself, under a version of
\* its own that satisfies what others say they need of it; and its files in
\* primary.xml are files of filelists.xml.
DependenciesSurvive ==
    gen # None /\ gen.body["primary"] # None =>
        \A k \in Listed("primary") :
            LET rpm    == Rpm[gen.body["primary"][k]]
                format == Fragment("primary", k).format
                kept   == Filtered(rpm.requires, LAMBDA dep : "RPMLIB" \notin dep.flags)
            IN /\ Len(format.requires) = Len(kept)
               /\ \A i \in DOMAIN kept : SameDependency(format.requires[i], kept[i])
               /\ \A i \in DOMAIN rpm.provides :
                     SameDependency(format.provides[i], rpm.provides[i])
               /\ \E entry \in Range(format.provides) :
                     entry.name = rpm.name /\ entry.version = {HeaderVersion(rpm)}
               /\ Range(format.files) \subseteq Range(FilelistsFrag(rpm).files)

\* The names of the open elements after an event; none if that is malformed.
Reads(open, event) ==
    CASE event.is = "start"                        -> {<<event.name>> \o names : names \in open}
      [] event.is = "end"                          -> {Tail(names) : names \in
                                                        {n \in open : n # <<>> /\ Head(n) = event.name}}
      [] event.is \in {"empty", "text", "ref", "pkgname"} -> open
      [] OTHER                                     -> {}

\* Elements are opened and closed as XML demands.
Balanced(events, ignored) ==
    LET open[i \in 0 .. Len(events)] ==
            IF i = 0 THEN {<<>>}
            ELSE IF events[i].is \in ignored THEN open[i - 1]
            ELSE Reads(open[i - 1], events[i])
    IN open[Len(events)] = {<<>>}

RefersTo(events) == {e.name : e \in {x \in Range(events) : x.is = "ref"}}

\* The entities that need no declaration.
Predefined == {"amp", "lt", "gt", "quot", "apos"}

\* XML without a DOCTYPE, as the appstream document is.
WellFormed(events) == Balanced(events, {}) /\ RefersTo(events) \subseteq Predefined

\* A file may also have declarations and the like, and refer to what it declares.
WellFormedFile(file) ==
    /\ Balanced(file.events, {"decl", "pi", "doctype"})
    /\ RefersTo(file.events) \subseteq Predefined \union file.entities

\* The appstream document is the packages' fragments one after the other.  What a
\* package with well-formed metainfo adds to it is well-formed if no metainfo file
\* refers to an entity of its own, and only then: transform leaves out the DOCTYPE
\* but not the references, and one such package makes the repository's document
\* malformed.  The fragment names the package of every component in any case.
AppstreamWellFormed ==
    gen # None /\ gen.body["appstream"] # None =>
        \A k \in Listed("appstream") :
            LET rpm    == Rpm[gen.body["appstream"][k]]
                events == Fragment("appstream", k)
                files  == Range(Metainfo(rpm))
            IN /\ (\A file \in files : WellFormedFile(file)) =>
                     (WellFormed(events) <=>
                          \A file \in files : RefersTo(file.events) \subseteq Predefined)
               /\ \A i \in DOMAIN events :
                     events[i].is = "start" /\ events[i].name = "component" =>
                         i < Len(events) /\ events[i + 1] = [is |-> "pkgname", name |-> rpm.name]
-------------------------------------------------------------------------------
(* What the theorems about the last two suppose of the rpms.                *)

Dependency == [name : STRING, flags : SUBSET STRING, version : Seq(STRING)]

\* Versions as rpmbuild writes them; it also makes every package provide itself.
BuiltProperly(rpm) ==
    /\ rpm.requires \in Seq(Dependency) /\ rpm.provides \in Seq(Dependency)
    /\ rpm.ver \in Seq(STRING) /\ rpm.rel \in Seq(STRING)
    /\ rpm.files \in Seq(Range(rpm.files))
    /\ \A dep \in Range(rpm.requires) \union Range(rpm.provides) :
          /\ ~({"LESS", "GREATER"} \subseteq dep.flags)
          /\ dep.version # <<>> => Last(dep.version) # "-"
    /\ "-" \notin Range(rpm.ver)
    /\ \E dep \in Range(rpm.provides) :
          dep.name = rpm.name /\ "EQUAL" \in dep.flags /\ Means(dep.version, HeaderVersion(rpm))

\* Events as a reader of XML returns them.
Event == [is : {"start", "end", "empty", "text", "ref", "decl", "pi", "doctype", "error"},
          name : STRING]
ReadAsXml(rpm) ==
    /\ rpm.files \in Seq(Range(rpm.files))
    /\ \A file \in Range(rpm.files) : file.events \in Seq(Event)
===============================================================================
