------------------------------ MODULE UploadProofs ------------------------------
(***************************************************************************)
(* Theorems about uploads and deletions (Upload), for any requests, rpms and   *)
(* contents.                                                               *)
(***************************************************************************)
EXTENDS Upload, FiniteSetTheorems, SequenceTheorems, WellFoundedInduction, TLAPS

Pkg(rpm) == PackageOf[rpm[1]]

-------------------------------------------------------------------------------
(* The invariants.                                                         *)

\* What a request knows of its rpms: their names have passed the checks that its
\* progress tells of.
Checked(q) ==
    /\ pc[q] = "idle" => kind[q] = "upload" /\ got[q] = <<>> /\ removed[q] = <<>>
    /\ pc[q] \in {"receive", "stream", "check"} => todo[q] \in Seq(Rpm) /\ kind[q] = "upload"
    /\ pc[q] = "unlink" => todo[q] \in Seq(Rpms)
    /\ pc[q] \in {"stream", "check"} =>
           todo[q] # <<>> /\ Receivable(FileName[Head(todo[q])[1]])
    /\ pc[q] = "check" => Parsed[Head(todo[q])[1]] # {}
    /\ \A rpm \in ToSet(got[q]) : RpmFilename(FileName[rpm[1]])
    /\ \A n \in ToSet(removed[q]) \union snap[q] : RpmFilename(FileName[n])
    /\ IsFiniteSet(snap[q])
    /\ kind[q] = "delete" => got[q] = <<>> /\ pc[q] # "add"

\* Only rpms with such names are listed.
ListedAreNamed == \A n \in Listed : RpmFilename(FileName[n])

NamesInv ==
    /\ TypeOK
    /\ IsFiniteSet(Listed)
    /\ ListedAreNamed
    /\ \A q \in Reqs : Checked(q)

\* The rpms that request q has received, and the one it is about to accept.
Accepted(q) == ToSet(got[q]) \union (IF pc[q] = "check" THEN {Head(todo[q])} ELSE {})

\* An upload removes other versions of what it has received, ...
Spares(q) ==
    kind[q] = "upload" =>
        \A n \in ToSet(removed[q]) : \E rpm \in Accepted(q) :
            n # rpm[1] /\ PackageOf[n] = Pkg(rpm)

\* ... and a request touches nothing but its client's packages.
KeepsToItsOwn(q) ==
    /\ pc[q] \in {"receive", "stream", "check"} => \A rpm \in ToSet(todo[q]) : Pkg(rpm) \in own[q]
    /\ \A rpm \in ToSet(got[q]) : Pkg(rpm) \in own[q]
    /\ \A n \in ToSet(removed[q]) : PackageOf[n] \in own[q]
    /\ pc[q] = "unlink" => \A n \in ToSet(todo[q]) : PackageOf[n] \in own[q]

OwnInv == NamesInv /\ \A q \in Reqs : Spares(q) /\ KeepsToItsOwn(q)

\* What is about to be indexed has its file, and what is about to lose its file is
\* not indexed.
FilesAround(q) ==
    /\ pc[q] \in {"receive", "stream", "check", "enter", "add"} =>
           \A rpm \in Accepted(q) : store[Link[rpm[1]]] # None
    /\ pc[q] = "unlink" => \A n \in ToSet(todo[q]) : index[n] = None

FilesInv == OwnInv /\ IndexedHasFile /\ \A q \in Reqs : FilesAround(q)

\* A tidy client's packages occur once: in the batch, and what is removed too.
Once(q) ==
    /\ \A i, j \in DOMAIN got[q] : i # j => Pkg(got[q][i]) # Pkg(got[q][j])
    /\ \A i, j \in DOMAIN removed[q] : i # j => removed[q][i] # removed[q][j]
    /\ pc[q] \in {"receive", "stream", "check"} =>
           /\ \A i, j \in DOMAIN todo[q] : i # j => Pkg(todo[q][i]) # Pkg(todo[q][j])
           /\ \A rpm \in ToSet(got[q]), next \in ToSet(todo[q]) : Pkg(rpm) # Pkg(next)

\* What has been accepted is what the store holds, until it is indexed.
Published(q) ==
    pc[q] \in {"receive", "stream", "check", "enter", "add"} =>
        \A rpm \in Accepted(q) : store[Link[rpm[1]]] = rpm[2]

\* The names at which the store and the cache may differ because of request q.
Pending(q, n) ==
    \/ pc[q] \in {"stream", "check"} /\ n = Head(todo[q])[1]
    \/ pc[q] \in {"receive", "stream", "check", "enter", "add"} /\ \E rpm \in ToSet(got[q]) : n = rpm[1]
    \/ pc[q] = "unlink" /\ n \in ToSet(todo[q]) /\ n \notin missing[q]

Exact ==
    clean => \A n \in Rpms : Receivable(FileName[n]) =>
        store[Link[n]] = index[n] \/ \E q \in Reqs : Pending(q, n)

\* The keys that an upload decides with are those of its packages, until it adds
\* its own; it removes every other version, and then they are gone.
Versions(q) ==
    /\ kind[q] = "upload" /\ pc[q] \in {"receive", "stream", "check", "enter", "add"} =>
           \A n \in Rpms : PackageOf[n] \in own[q] => (n \in snap[q] <=> index[n] # None)
    /\ \A rpm \in Accepted(q), n \in snap[q] :
           PackageOf[n] = Pkg(rpm) /\ n # rpm[1] => n \in ToSet(removed[q])
    /\ clean /\ pc[q] \in {"del", "unlink", "generate"} =>
           \A rpm \in ToSet(got[q]) :
               /\ index[rpm[1]] # None
               /\ \A n \in Listed : PackageOf[n] = Pkg(rpm) /\ n # rpm[1] =>
                      pc[q] = "del" /\ n \in ToSet(removed[q])

ExactInv ==
    /\ FilesInv
    /\ Exact
    /\ \A q \in Reqs : Once(q) /\ Published(q) /\ Versions(q)
-------------------------------------------------------------------------------
(* Sequences and sets.                                                     *)

\* The elements of a sequence with one more, ...
LEMMA SetOfAppend ==
    ASSUME NEW S, NEW s \in Seq(S), NEW x \in S
    PROVE Append(s, x) \in Seq(S) /\ ToSet(Append(s, x)) = ToSet(s) \union {x}
  <1>1. Append(s, x) \in Seq(S) /\ ToSet(Append(s, x)) \subseteq ToSet(s) \union {x}
    BY DEF ToSet
  <1>2. Len(s) + 1 \in DOMAIN Append(s, x) /\ Append(s, x)[Len(s) + 1] = x
    OBVIOUS
  <1>3. \A i \in DOMAIN s : i \in DOMAIN Append(s, x) /\ Append(s, x)[i] = s[i]
    OBVIOUS
  <1> QED
    BY <1>1, <1>2, <1>3 DEF ToSet

\* ... of its head and its tail, ...
LEMMA SetOfTail ==
    ASSUME NEW S, NEW s \in Seq(S), s # <<>>
    PROVE /\ Tail(s) \in Seq(S) /\ Head(s) \in S
          /\ ToSet(s) = {Head(s)} \union ToSet(Tail(s))
          /\ \A i \in DOMAIN Tail(s) : i + 1 \in DOMAIN s /\ i + 1 # 1 /\ Tail(s)[i] = s[i + 1]
          /\ 1 \in DOMAIN s /\ Head(s) = s[1]
  <1>1. /\ Tail(s) \in Seq(S) /\ Head(s) \in S
        /\ 1 \in DOMAIN s /\ Head(s) = s[1]
        /\ \A i \in DOMAIN Tail(s) : i + 1 \in DOMAIN s /\ i + 1 # 1 /\ Tail(s)[i] = s[i + 1]
    OBVIOUS
  <1>2. \A i \in DOMAIN s : i = 1 \/ (i - 1 \in DOMAIN Tail(s) /\ Tail(s)[i - 1] = s[i])
    OBVIOUS
  <1>3. ToSet(s) \subseteq {Head(s)} \union ToSet(Tail(s))
    BY <1>1, <1>2 DEF ToSet
  <1>4. {Head(s)} \union ToSet(Tail(s)) \subseteq ToSet(s)
    BY <1>1 DEF ToSet
  <1> QED
    BY <1>1, <1>3, <1>4

\* ... of two in a row.
LEMMA SetOfConcat ==
    ASSUME NEW S, NEW s \in Seq(S), NEW t \in Seq(S)
    PROVE s \o t \in Seq(S) /\ ToSet(s \o t) = ToSet(s) \union ToSet(t)
  <1>1. s \o t \in Seq(S) /\ ToSet(s \o t) \subseteq ToSet(s) \union ToSet(t)
    BY DEF ToSet
  <1>2. \A i \in DOMAIN s : i \in DOMAIN (s \o t) /\ (s \o t)[i] = s[i]
    OBVIOUS
  <1>3. \A i \in DOMAIN t : Len(s) + i \in DOMAIN (s \o t) /\ (s \o t)[Len(s) + i] = t[i]
    OBVIOUS
  <1>4. ToSet(s) \subseteq ToSet(s \o t)
    BY <1>2 DEF ToSet
  <1>5. ToSet(t) \subseteq ToSet(s \o t)
    BY <1>3 DEF ToSet
  <1> QED
    BY <1>1, <1>4, <1>5

\* What is in a sequence is in its set.
LEMMA SetOfSeq == ASSUME NEW S, NEW s \in Seq(S)
                  PROVE ToSet(s) \subseteq S /\ IsFiniteSet(ToSet(s))
  <1>1. ToSet(s) \subseteq S
    BY DEF ToSet
  <1>2. Len(s) \in Nat /\ DOMAIN s = 1 .. Len(s)
    OBVIOUS
  <1>3. IsFiniteSet(1 .. Len(s))
    BY <1>2, FS_Interval
  <1>4. s \in Surjection(1 .. Len(s), ToSet(s))
    BY <1>2 DEF Surjection, ToSet
  <1> QED
    BY <1>1, <1>3, <1>4, FS_Surjection

\* SetToSeq lists a finite set, each element once.
LEMMA Listing ==
    ASSUME NEW S, IsFiniteSet(S)
    PROVE /\ SetToSeq(S) \in Seq(S)
          /\ ToSet(SetToSeq(S)) = S
          /\ \A i, j \in DOMAIN SetToSeq(S) : i # j => SetToSeq(S)[i] # SetToSeq(S)[j]
  <1> DEFINE n == Cardinality(S)
             f == SetToSeq(S)
  <1>1. n \in Nat /\ IsFiniteSet(1 .. n) /\ Cardinality(1 .. n) = n /\ ExistsBijection(1 .. n, S)
    BY FS_CardinalityType, FS_Interval
  <1>2. \E g \in [1 .. n -> S] : IsInjective(g)
    BY <1>1 DEF ExistsBijection, Bijection, Injection
  <1>3. f \in [1 .. n -> S] /\ IsInjective(f)
    BY <1>2 DEF SetToSeq
  <1> HIDE DEF n, f
  <1>4. f \in Surjection(1 .. n, S)
    BY <1>1, <1>3, FS_Injection DEF Injection, n
  <1>5. f \in Seq(S) /\ DOMAIN f = 1 .. n
    BY <1>1, <1>3
  <1>6. ToSet(f) = S
    BY <1>4, <1>5 DEF ToSet, Surjection
  <1>7. \A i, j \in DOMAIN f : i # j => f[i] # f[j]
    BY <1>3 DEF IsInjective
  <1> QED
    BY <1>5, <1>6, <1>7 DEF f
-------------------------------------------------------------------------------
(* Names and links.                                                        *)

\* The last place of some places in a sequence.
LEMMA LastPlace ==
    ASSUME NEW n \in Nat, NEW I, I \subseteq 1 .. n, I # {}
    PROVE Max(I) \in I /\ \A i \in I : Max(I) >= i
  <1> DEFINE R == OpToRel(<, Nat)
             T == {n - i : i \in I}
  <1>1. T \subseteq Nat /\ T # {}
    OBVIOUS
  <1>2. PICK d \in T : \A e \in T : ~(<<e, d>> \in R)
    <2> HIDE DEF T, R
    <2>1. IsWellFoundedOn(R, Nat)
      BY NatLessThanWellFounded DEF R
    <2> QED
      BY <1>1, <2>1, WFMin
  <1>3. \A e \in T : ~(e < d)
    BY <1>1, <1>2 DEF OpToRel
  <1>4. PICK i \in I : d = n - i
    OBVIOUS
  <1>5. \A j \in I : i >= j
    <2> SUFFICES ASSUME NEW j \in I PROVE i >= j
      OBVIOUS
    <2>1. n - j \in T /\ ~(n - j < n - i)
      BY <1>3, <1>4
    <2>2. i \in Int /\ j \in Int
      OBVIOUS
    <2> QED
      BY <2>1, <2>2
  <1>6. \E x \in I : \A y \in I : x >= y
    BY <1>5
  <1> QED
    BY <1>6 DEF Max

\* What two sequences end with, if they are equal and begin with as much.
LEMMA SameEnd ==
    ASSUME NEW S, NEW p \in Seq(S), NEW q \in Seq(S), NEW s \in Seq(S), NEW t \in Seq(S),
           Len(p) = Len(q), p \o s = q \o t
    PROVE s = t
  <1>1. /\ Len(p \o s) = Len(p) + Len(s) /\ Len(q \o t) = Len(q) + Len(t)
        /\ \A i \in 1 .. Len(p) + Len(s) : i > Len(p) => (p \o s)[i] = s[i - Len(p)]
        /\ \A i \in 1 .. Len(q) + Len(t) : i > Len(q) => (q \o t)[i] = t[i - Len(q)]
    BY ConcatProperties
  <1>2. Len(p) \in Nat /\ Len(s) \in Nat /\ Len(t) \in Nat
    BY LenProperties
  <1>3. Len(s) = Len(t)
    BY <1>1, <1>2
  <1>4. ASSUME NEW i \in 1 .. Len(s) PROVE s[i] = t[i]
    <2>1. Len(p) + i \in 1 .. Len(p) + Len(s) /\ Len(p) + i > Len(p) /\ (Len(p) + i) - Len(p) = i
      BY <1>2
    <2> QED
      BY <1>1, <1>3, <2>1
  <1> QED
    BY <1>3, <1>4, SeqEqual

\* No two rpms have the same link.
LEMMA LinksApart == \A n, k \in Rpms : Link[n] = Link[k] => n = k
  <1> SUFFICES ASSUME NEW n \in Rpms, NEW k \in Rpms, Link[n] = Link[k] PROVE n = k
    OBVIOUS
  <1> DEFINE S == STRING \union {"Packages", "/", FileName[n][1], FileName[k][1]}
             dir == SubSeq(Base, 1, SelectLastInSeq(Base, LAMBDA x : x # "/"))
             head(m) == IF Hier = "Fedora" THEN <<"Packages", "/", FileName[m][1], "/">> ELSE <<>>
  <1>1. FileName[n] \in Seq(S) /\ FileName[k] \in Seq(S) /\ Base \in Seq(S)
    BY UploadAssumption
  <1>2. dir \in Seq(S)
    <2> DEFINE I == {i \in 1 .. Len(Base) : Base[i] # "/"}
    <2>1. Len(Base) \in Nat /\ I \subseteq 1 .. Len(Base)
      BY UploadAssumption
    <2>2. I # {} => Max(I) \in 1 .. Len(Base)
      <3> HIDE DEF I
      <3> QED
        BY <2>1, LastPlace
    <2>3. SelectLastInSeq(Base, LAMBDA x : x # "/") \in 0 .. Len(Base)
      BY <2>1, <2>2 DEF SelectLastInSeq
    <2> HIDE DEF S
    <2> QED
      BY <1>1, <2>1, <2>3
  <1>0. "/" \in S /\ "Packages" \in S /\ FileName[n][1] \in S /\ FileName[k][1] \in S
    OBVIOUS
  <1> HIDE DEF S, dir
  <1>3. head(n) \in Seq(S) /\ head(k) \in Seq(S) /\ Len(head(n)) = Len(head(k))
    <2> DEFINE h(x) == <<"Packages", "/", x, "/">>
    <2>1. \A x \in S : h(x) \in Seq(S) /\ Len(h(x)) = 4
      BY <1>0
    <2>2. <<>> \in Seq(S)
      OBVIOUS
    <2> QED
      BY <1>0, <2>1, <2>2
  <1>4. <<"/">> \in Seq(S)
    BY <1>0
  <1>5. \A m \in {n, k} : Link[m] = dir \o <<"/">> \o (head(m) \o FileName[m])
    <2> SUFFICES ASSUME NEW m \in {n, k}
                 PROVE Link[m] = dir \o <<"/">> \o (head(m) \o FileName[m])
      OBVIOUS
    <2>1. FileName[m] = <<>> \o FileName[m]
      BY <1>1
    <2> QED
      BY <2>1 DEF Link, Join, LocateRelative, dir
  <1> HIDE DEF head
  <1>6. (dir \o <<"/">>) \in Seq(S) /\ head(n) \o FileName[n] \in Seq(S) /\ head(k) \o FileName[k] \in Seq(S)
    BY <1>1, <1>2, <1>3, <1>4
  <1>7. head(n) \o FileName[n] = head(k) \o FileName[k]
    BY <1>5, <1>6, SameEnd
  <1>8. FileName[n] = FileName[k]
    BY <1>1, <1>3, <1>7, SameEnd
  <1> QED
    BY <1>8, UploadAssumption

-------------------------------------------------------------------------------
(* Types and names.                                                        *)

\* What a client sends is a sequence.
LEMMA Batches == \A S : \A n \in Nat : SeqOf(S, n) \subseteq Seq(S)
  <1> SUFFICES ASSUME NEW S, NEW n \in Nat, NEW s \in SeqOf(S, n) PROVE s \in Seq(S)
    OBVIOUS
  <1>1. PICK m \in 0 .. n : s \in [1 .. m -> S]
    BY DEF SeqOf
  <1> QED
    BY <1>1

\* A step changes nothing that belongs to another request.
LEMMA OneAtATime ==
    ASSUME TypeOK, NEW q \in Reqs, Step(q), NEW p \in Reqs, p # q
    PROVE UNCHANGED <<own, pc[p], kind[p], todo[p], snap[p], got[p], removed[p], missing[p]>>
  <1>1. /\ DOMAIN pc = Reqs /\ DOMAIN kind = Reqs /\ DOMAIN todo = Reqs /\ DOMAIN snap = Reqs
        /\ DOMAIN got = Reqs /\ DOMAIN removed = Reqs /\ DOMAIN missing = Reqs
    BY DEF TypeOK
  <1> QED
    BY <1>1 DEF Step, Goto, StartUpload, StartDelete, OpenWriter, Received, Refuse, Check, EndOfBody,
       Enter, AddFrags, DeletePkgs, Unlink, AllUnlinked, Generate, Fail, End

\* The requests in a write closure.
InClosure == {"add", "del", "unlink", "generate"}

\* How the lock and a request's place go together: it takes the lock when it enters
\* its closure and gives it back when it is over.
LEMMA LockStep ==
    ASSUME TypeOK, NEW q \in Reqs, Step(q)
    PROVE /\ lock' \in Reqs \union {None}
          /\ \A p \in Reqs : lock' = p <=> pc'[p] \in InClosure
  <1>1. /\ DOMAIN pc = Reqs /\ lock \in Reqs \union {None} /\ None \notin Reqs
        /\ \A p \in Reqs : lock = p <=> pc[p] \in InClosure
    BY UploadAssumption DEF TypeOK, InClosure
  <1>2. \A p \in Reqs : p # q => pc'[p] = pc[p]
    BY OneAtATime
  <1>3. CASE Enter(q)
    BY <1>1, <1>2, <1>3 DEF Enter, Goto, InClosure
  <1>4. CASE Refuse(q) \/ Generate(q) \/ Fail(q)
    <2>1. End(q)
      BY <1>4 DEF Refuse, Generate, Fail
    <2>2. pc'[q] = "idle" /\ lock' = IF lock = q THEN None ELSE lock
      BY <1>1, <2>1 DEF End, Goto
    <2> QED
      BY <1>1, <1>2, <2>2 DEF InClosure
  <1>5. CASE \/ (\E batch \in SeqOf(Rpm, MaxBatch) : batch # <<>> /\ StartUpload(q, batch))
             \/ (\E names \in SeqOf(Rpms, MaxBatch) : names # <<>> /\ StartDelete(q, names))
             \/ OpenWriter(q) \/ Received(q) \/ Check(q) \/ EndOfBody(q)
    <2>1. lock' = lock /\ pc[q] \notin InClosure /\ pc'[q] \notin InClosure
      BY <1>1, <1>5 DEF StartUpload, StartDelete, OpenWriter, Received, Check, EndOfBody, Goto, InClosure
    <2> QED
      BY <1>1, <1>2, <2>1
  <1>6. CASE AddFrags(q) \/ DeletePkgs(q) \/ Unlink(q) \/ AllUnlinked(q)
    <2>1. lock' = lock /\ pc[q] \in InClosure /\ pc'[q] \in InClosure
      BY <1>1, <1>6 DEF AddFrags, DeletePkgs, Unlink, AllUnlinked, Goto, InClosure
    <2> QED
      BY <1>1, <1>2, <2>1
  <1> QED
    BY <1>3, <1>4, <1>5, <1>6 DEF Step

\* Before a step: what the request's own variables are.
LEMMA Request ==
    ASSUME NamesInv, NEW q \in Reqs
    PROVE /\ todo[q] \in Seq(Rpm) \union Seq(Rpms) /\ got[q] \in Seq(Rpm) /\ removed[q] \in Seq(Rpms)
          /\ snap[q] \subseteq Rpms /\ kind[q] \in {"upload", "delete"}
          /\ pc[q] \in {"stream", "check"} =>
                 /\ Head(todo[q]) \in Rpm /\ Tail(todo[q]) \in Seq(Rpm)
                 /\ Head(todo[q])[1] \in Rpms /\ Head(todo[q])[2] \in Bytes
                 /\ Link[Head(todo[q])[1]] \in Links
          /\ pc[q] = "receive" /\ todo[q] # <<>> =>
                 Head(todo[q]) \in Rpm /\ Head(todo[q])[1] \in Rpms /\ Tail(todo[q]) \in Seq(Rpm)
  <1>1. /\ todo[q] \in Seq(Rpm) \union Seq(Rpms) /\ got[q] \in Seq(Rpm) /\ removed[q] \in Seq(Rpms)
        /\ snap[q] \subseteq Rpms /\ kind[q] \in {"upload", "delete"}
    BY DEF NamesInv, TypeOK
  <1>2. pc[q] \in {"receive", "stream", "check"} /\ todo[q] # <<>> =>
            /\ Head(todo[q]) \in Rpm /\ Tail(todo[q]) \in Seq(Rpm)
            /\ Head(todo[q])[1] \in Rpms /\ Head(todo[q])[2] \in Bytes
    <2> SUFFICES ASSUME todo[q] \in Seq(Rpm), todo[q] # <<>>
                 PROVE /\ Head(todo[q]) \in Rpm /\ Tail(todo[q]) \in Seq(Rpm)
                       /\ Head(todo[q])[1] \in Rpms /\ Head(todo[q])[2] \in Bytes
      BY DEF NamesInv, Checked
    <2>1. Head(todo[q]) \in Rpm /\ Tail(todo[q]) \in Seq(Rpm)
      OBVIOUS
    <2> QED
      BY <2>1 DEF Rpm
  <1>3. pc[q] \in {"stream", "check"} => todo[q] # <<>> /\ Receivable(FileName[Head(todo[q])[1]])
    BY DEF NamesInv, Checked
  <1> QED
    BY <1>1, <1>2, <1>3 DEF Links


\* The previous versions of an rpm, listed.
LEMMA Previous ==
    ASSUME NamesInv, NEW q \in Reqs, NEW n \in Rpms
    PROVE LET list == SetToSeq(PreviousVersions(q, n)) IN
              /\ list \in Seq(Rpms)
              /\ ToSet(list) = PreviousVersions(q, n)
              /\ \A i, j \in DOMAIN list : i # j => list[i] # list[j]
              /\ removed[q] \o list \in Seq(Rpms)
              /\ ToSet(removed[q] \o list) = ToSet(removed[q]) \union PreviousVersions(q, n)
  <1> DEFINE list == SetToSeq(PreviousVersions(q, n))
  <1>1. PreviousVersions(q, n) \subseteq snap[q] /\ IsFiniteSet(snap[q]) /\ snap[q] \subseteq Rpms
    BY DEF PreviousVersions, NamesInv, Checked, TypeOK
  <1>2. IsFiniteSet(PreviousVersions(q, n))
    BY <1>1, FS_Subset
  <1>3. list \in Seq(PreviousVersions(q, n)) /\ ToSet(list) = PreviousVersions(q, n)
        /\ \A i, j \in DOMAIN list : i # j => list[i] # list[j]
    BY <1>2, Listing
  <1>4. list \in Seq(Rpms)
    BY <1>1, <1>3, SeqMonotonic
  <1>5. removed[q] \in Seq(Rpms)
    BY Request
  <1> HIDE DEF list
  <1>6. removed[q] \o list \in Seq(Rpms) /\ ToSet(removed[q] \o list) = ToSet(removed[q]) \union ToSet(list)
    BY <1>4, <1>5, SetOfConcat
  <1> QED
    BY <1>3, <1>4, <1>6 DEF list

\* The part of TypeOK that is about one variable each.
Typed ==
    /\ store \in [Links -> Bytes \union {Partial, None}]
    /\ index \in [Rpms -> Bytes \union {None}]
    /\ pc \in [Reqs -> {"idle", "receive", "stream", "check", "enter", "add", "del",
                        "unlink", "generate"}]
    /\ kind \in [Reqs -> {"upload", "delete"}]
    /\ todo \in [Reqs -> Seq(Rpm) \union Seq(Rpms)]
    /\ snap \in [Reqs -> SUBSET Rpms] /\ got \in [Reqs -> Seq(Rpm)]
    /\ removed \in [Reqs -> Seq(Rpms)] /\ missing \in [Reqs -> SUBSET Rpms]
    /\ clean \in BOOLEAN

\* What a request writes has its types.
LEMMA TypeStep == ASSUME NamesInv, NEW q \in Reqs, Step(q) PROVE TypeOK'
  <1>1. own' = own /\ own \in Owners /\ Typed
    BY DEF NamesInv, TypeOK, Typed, Step, StartUpload, StartDelete, OpenWriter, Received, Refuse, Check,
       EndOfBody, Enter, AddFrags, DeletePkgs, Unlink, AllUnlinked, Generate, Fail, End
  <1>2. /\ lock' \in Reqs \union {None}
        /\ \A p \in Reqs : lock' = p <=> pc'[p] \in {"add", "del", "unlink", "generate"}
    BY LockStep DEF NamesInv, InClosure
  <1>3. /\ todo[q] \in Seq(Rpm) \union Seq(Rpms) /\ got[q] \in Seq(Rpm) /\ removed[q] \in Seq(Rpms)
        /\ <<>> \in Seq(Rpm) /\ <<>> \in Seq(Rpms)
        /\ pc[q] \in {"stream", "check"} =>
                 /\ Head(todo[q]) \in Rpm /\ Tail(todo[q]) \in Seq(Rpm)
                 /\ Head(todo[q])[1] \in Rpms /\ Head(todo[q])[2] \in Bytes
                 /\ Link[Head(todo[q])[1]] \in Links
    BY Request
  <1> SUFFICES Typed'
    BY <1>1, <1>2 DEF TypeOK, Typed
  <1>4. ASSUME NEW batch \in SeqOf(Rpm, MaxBatch), StartUpload(q, batch) PROVE Typed'
    <2>1. batch \in Seq(Rpm) /\ Listed \subseteq Rpms
      BY Batches, UploadAssumption DEF Listed
    <2> QED
      BY <1>1, <1>4, <2>1 DEF StartUpload, Goto, Typed
  <1>5. ASSUME NEW names \in SeqOf(Rpms, MaxBatch), StartDelete(q, names) PROVE Typed'
    <2>1. names \in Seq(Rpms)
      BY Batches, UploadAssumption
    <2> QED
      BY <1>1, <1>5, <2>1 DEF StartDelete, Goto, Typed
  <1>6. CASE OpenWriter(q)
    BY <1>1, <1>6 DEF OpenWriter, Goto, Typed
  <1>7. CASE Received(q)
    <2> DEFINE rpm == Head(todo[q])
    <2>1. pc[q] = "stream" /\ rpm[1] \in Rpms /\ rpm[2] \in Bytes
      BY <1>3, <1>7 DEF Received
    <2>2. removed[q] \o SetToSeq(PreviousVersions(q, rpm[1])) \in Seq(Rpms)
      BY <2>1, Previous
    <2> QED
      BY <1>1, <1>7, <2>1, <2>2 DEF Received, Goto, Typed
  <1>8. CASE Refuse(q)
    BY <1>1, <1>3, <1>8 DEF Refuse, End, Goto, Typed
  <1>9. CASE Check(q)
    <2>1. Append(got[q], Head(todo[q])) \in Seq(Rpm) /\ Tail(todo[q]) \in Seq(Rpm)
      BY <1>3, <1>9 DEF Check
    <2> QED
      BY <1>1, <1>9, <2>1 DEF Check, Goto, Typed
  <1>10. CASE EndOfBody(q) \/ Enter(q) \/ AllUnlinked(q)
    BY <1>1, <1>10 DEF EndOfBody, Enter, AllUnlinked, Goto, Typed
  <1>11. CASE AddFrags(q)
    BY <1>1, <1>11 DEF AddFrags, Goto, Typed
  <1>12. CASE DeletePkgs(q)
    <2>1. NotFound(removed[q]) \subseteq Rpms
      BY <1>3 DEF NotFound
    <2> QED
      BY <1>1, <1>3, <1>12, <2>1 DEF DeletePkgs, Goto, Typed
  <1>13. CASE Unlink(q)
    <2>1. Tail(todo[q]) \in Seq(Rpm) \union Seq(Rpms)
      BY <1>3, <1>13 DEF Unlink
    <2> QED
      BY <1>1, <1>13, <2>1 DEF Unlink, Typed
  <1>14. CASE Generate(q) \/ Fail(q)
    <2>1. End(q) /\ UNCHANGED <<store, index>> /\ clean' \in {clean, FALSE}
      BY <1>14 DEF Generate, Fail
    <2> QED
      BY <1>1, <1>3, <2>1 DEF End, Goto, Typed
  <1> QED
    BY <1>4, <1>5, <1>6, <1>7, <1>8, <1>9, <1>10, <1>11, <1>12, <1>13, <1>14 DEF Step

\* Only rpms with accepted names are listed, and finitely many.
LEMMA ListedStep ==
    ASSUME NamesInv, NEW q \in Reqs, Step(q)
    PROVE IsFiniteSet(Listed') /\ ListedAreNamed'
  <1>1. IsFiniteSet(Listed) /\ ListedAreNamed /\ got[q] \in Seq(Rpm) /\ Checked(q)
    BY Request DEF NamesInv
  <1>2. CASE AddFrags(q)
    <2> DEFINE new == {rpm[1] : rpm \in ToSet(got[q])}
    <2>1. IsFiniteSet(ToSet(got[q]))
      BY <1>1, SetOfSeq
    <2>2. IsFiniteSet(new)
      <3> DEFINE f == [rpm \in ToSet(got[q]) |-> rpm[1]]
      <3>1. f \in Surjection(ToSet(got[q]), new)
        BY DEF Surjection
      <3> QED
        BY <2>1, <3>1, FS_Surjection
    <2>3. IsFiniteSet(Listed \union new)
      BY <1>1, <2>2, FS_Union
    <2>4. Listed' \subseteq Listed \union new
      <3> SUFFICES ASSUME NEW n \in Rpms, index'[n] # None, index[n] = None PROVE n \in new
        BY DEF Listed
      <3>1. \E b \in Bytes : <<n, b>> \in ToSet(got[q])
        BY <1>2 DEF AddFrags
      <3> QED
        BY <3>1
    <2>5. \A n \in new : RpmFilename(FileName[n])
      BY <1>1 DEF Checked
    <2> QED
      BY <1>1, <2>3, <2>4, <2>5, FS_Subset DEF ListedAreNamed
  <1>3. CASE ~AddFrags(q)
    <2>1. \A n \in Rpms : index'[n] \in {index[n], None}
      BY <1>3 DEF Step, StartUpload, StartDelete, OpenWriter, Received, Refuse, Check, EndOfBody,
         Enter, DeletePkgs, Unlink, AllUnlinked, Generate, Fail, End
    <2>2. Listed' \subseteq Listed
      BY <2>1 DEF Listed
    <2> QED
      BY <1>1, <2>2, FS_Subset DEF ListedAreNamed
  <1> QED
    BY <1>2, <1>3

\* A request that is over knows nothing.
LEMMA Over ==
    ASSUME TypeOK, NEW q \in Reqs, End(q)
    PROVE /\ pc'[q] = "idle" /\ kind'[q] = "upload" /\ snap'[q] = {}
          /\ todo'[q] = <<>> /\ got'[q] = <<>> /\ removed'[q] = <<>>
          /\ ToSet(got'[q]) = {} /\ ToSet(removed'[q]) = {}
  <1>1. /\ DOMAIN pc = Reqs /\ DOMAIN kind = Reqs /\ DOMAIN todo = Reqs /\ DOMAIN snap = Reqs
        /\ DOMAIN got = Reqs /\ DOMAIN removed = Reqs
    BY DEF TypeOK
  <1>2. ToSet(<<>>) = {}
    BY DEF ToSet
  <1> QED
    BY <1>1, <1>2 DEF End, Goto

\* The steps that end a request.
LEMMA Ends ==
    ASSUME NEW q \in Reqs
    PROVE Refuse(q) \/ Generate(q) \/ Fail(q) => End(q)
  BY DEF Refuse, Generate, Fail

\* A request goes on with checked names.
LEMMA CheckedStep == ASSUME NamesInv, NEW q \in Reqs, Step(q) PROVE Checked(q)'
  <1>1. /\ pc \in [Reqs -> {"idle", "receive", "stream", "check", "enter", "add", "del",
                            "unlink", "generate"}]
        /\ kind \in [Reqs -> {"upload", "delete"}]
        /\ DOMAIN todo = Reqs /\ DOMAIN snap = Reqs /\ DOMAIN got = Reqs /\ DOMAIN removed = Reqs
    BY DEF NamesInv, TypeOK
  <1>2. /\ got[q] \in Seq(Rpm) /\ removed[q] \in Seq(Rpms) /\ kind[q] \in {"upload", "delete"}
        /\ pc[q] \in {"stream", "check"} =>
                 /\ Head(todo[q]) \in Rpm /\ Tail(todo[q]) \in Seq(Rpm)
                 /\ Head(todo[q])[1] \in Rpms
    BY Request
  <1>3. Checked(q) /\ IsFiniteSet(Listed) /\ ListedAreNamed
    BY DEF NamesInv
  <1>4. ASSUME NEW batch \in SeqOf(Rpm, MaxBatch), StartUpload(q, batch) PROVE Checked(q)'
    <2>1. batch \in Seq(Rpm)
      BY Batches, UploadAssumption
    <2>2. /\ pc[q] = "idle" /\ pc'[q] = "receive" /\ todo'[q] = batch /\ snap'[q] = Listed
          /\ UNCHANGED <<kind, got, removed>>
      BY <1>1, <1>4 DEF StartUpload, Goto
    <2> QED
      BY <1>2, <1>3, <2>1, <2>2 DEF Checked, ListedAreNamed
  <1>5. ASSUME NEW names \in SeqOf(Rpms, MaxBatch), StartDelete(q, names) PROVE Checked(q)'
    <2>1. names \in Seq(Rpms)
      BY Batches, UploadAssumption
    <2>2. /\ pc[q] = "idle" /\ pc'[q] = "enter" /\ kind'[q] = "delete" /\ removed'[q] = names
          /\ UNCHANGED <<todo, snap, got>>
          /\ \A i \in DOMAIN names : RpmFilename(FileName[names[i]])
      BY <1>1, <1>5 DEF StartDelete, Goto
    <2> QED
      BY <1>3, <2>1, <2>2 DEF Checked, ToSet
  <1>6. CASE Refuse(q) \/ Generate(q) \/ Fail(q)
    <2>1. End(q)
      BY <1>6, Ends
    <2>2. /\ pc'[q] = "idle" /\ kind'[q] = "upload" /\ snap'[q] = {}
          /\ got'[q] = <<>> /\ removed'[q] = <<>>
          /\ ToSet(got'[q]) = {} /\ ToSet(removed'[q]) = {}
      BY <2>1, Over DEF NamesInv
    <2> QED
      BY <2>2, FS_EmptySet DEF Checked
  <1>7. CASE OpenWriter(q)
    <2>1. /\ pc[q] = "receive" /\ pc'[q] = "stream" /\ todo[q] # <<>>
          /\ Receivable(FileName[Head(todo[q])[1]])
          /\ UNCHANGED <<kind, todo, snap, got, removed>>
      BY <1>1, <1>7 DEF OpenWriter, Goto
    <2> QED
      BY <1>3, <2>1 DEF Checked
  <1>8. CASE Received(q)
    <2> DEFINE n == Head(todo[q])[1]
    <2>1. /\ pc[q] = "stream" /\ pc'[q] = "check" /\ n \in Rpms
          /\ Parsed[n] # {}
          /\ removed'[q] = removed[q] \o SetToSeq(PreviousVersions(q, n))
          /\ UNCHANGED <<kind, todo, snap, got>>
      BY <1>1, <1>2, <1>8 DEF Received, Goto
    <2>2. ToSet(removed'[q]) = ToSet(removed[q]) \union PreviousVersions(q, n)
      BY <2>1, Previous
    <2>3. PreviousVersions(q, n) \subseteq snap[q]
      BY DEF PreviousVersions
    <2> QED
      BY <1>3, <2>1, <2>2, <2>3 DEF Checked
  <1>9. CASE Check(q)
    <2> DEFINE rpm == Head(todo[q])
    <2>1. /\ pc[q] = "check" /\ pc'[q] = "receive" /\ todo'[q] = Tail(todo[q])
          /\ got'[q] = Append(got[q], rpm)
          /\ UNCHANGED <<kind, snap, removed>>
      BY <1>1, <1>9 DEF Check, Goto
    <2>2. /\ ToSet(got'[q]) = ToSet(got[q]) \union {rpm} /\ todo'[q] \in Seq(Rpm)
          /\ rpm[1] \in Rpms /\ kind[q] = "upload"
      BY <1>2, <1>3, <2>1, SetOfAppend DEF Checked
    <2>3. RpmFilename(FileName[rpm[1]])
      BY <1>3, <2>1, <2>2 DEF Checked, RpmFilename, Parsed
    <2> QED
      BY <1>3, <2>1, <2>2, <2>3 DEF Checked
  <1>10. CASE DeletePkgs(q)
    <2>1. /\ pc[q] = "del" /\ pc'[q] = "unlink" /\ todo'[q] = removed[q]
          /\ UNCHANGED <<kind, snap, got, removed>>
      BY <1>1, <1>10 DEF DeletePkgs, Goto
    <2> QED
      BY <1>2, <1>3, <2>1 DEF Checked
  <1>11. CASE Unlink(q)
    <2>1. /\ pc[q] = "unlink" /\ pc' = pc /\ todo'[q] = Tail(todo[q]) /\ todo[q] # <<>>
          /\ UNCHANGED <<kind, snap, got, removed>>
      BY <1>1, <1>11 DEF Unlink
    <2>2. todo'[q] \in Seq(Rpms)
      BY <1>3, <2>1 DEF Checked
    <2> QED
      BY <1>3, <2>1, <2>2 DEF Checked
  <1>12. CASE EndOfBody(q) \/ Enter(q) \/ AddFrags(q) \/ AllUnlinked(q)
    <2>1. /\ pc'[q] \in {"enter", "add", "del", "generate"}
          /\ pc'[q] = "add" => kind[q] = "upload"
          /\ UNCHANGED <<kind, todo, snap, got, removed>>
      BY <1>1, <1>12 DEF EndOfBody, Enter, AddFrags, AllUnlinked, Goto
    <2> QED
      BY <1>3, <2>1 DEF Checked
  <1> QED
    BY <1>4, <1>5, <1>6, <1>7, <1>8, <1>9, <1>10, <1>11, <1>12 DEF Step

\* NamesInv is inductive.
LEMMA NamesStep == NamesInv /\ [Next]_vars => NamesInv'
  <1>1. ASSUME NamesInv, NEW q \in Reqs, Step(q) PROVE NamesInv'
    <2>1. ASSUME NEW p \in Reqs PROVE Checked(p)'
      <3>1. CASE p = q
        BY <1>1, <3>1, CheckedStep
      <3>2. CASE p # q
        <4>1. UNCHANGED <<pc[p], kind[p], todo[p], snap[p], got[p], removed[p]>>
          BY <1>1, <3>2, OneAtATime DEF NamesInv
        <4> QED
          BY <1>1, <4>1 DEF NamesInv, Checked
      <3> QED
        BY <3>1, <3>2
    <2>2. TypeOK' /\ IsFiniteSet(Listed') /\ ListedAreNamed'
      BY <1>1, TypeStep, ListedStep
    <2> QED
      BY <2>1, <2>2 DEF NamesInv
  <1>2. ASSUME NamesInv, UNCHANGED vars PROVE NamesInv'
    BY <1>2 DEF vars, NamesInv, TypeOK, ListedAreNamed, Listed, Checked
  <1> QED
    BY <1>1, <1>2 DEF Next

\* It holds at the start ...
LEMMA NamesInit == Init => NamesInv
  <1> SUFFICES ASSUME Init PROVE NamesInv
    OBVIOUS
  <1>1. TypeOK
    <2>1. <<>> \in Seq(Rpm) /\ <<>> \in Seq(Rpms) /\ None \notin Reqs
      BY UploadAssumption
    <2> QED
      BY <2>1 DEF Init, TypeOK
  <1>2. Listed = {} /\ IsFiniteSet({})
    BY FS_EmptySet DEF Init, Listed
  <1>3. ASSUME NEW q \in Reqs PROVE Checked(q)
    <2>1. ToSet(<<>>) = {}
      BY DEF ToSet
    <2> QED
      BY <2>1, FS_EmptySet DEF Init, Checked
  <1> QED
    BY <1>1, <1>2, <1>3 DEF NamesInv, ListedAreNamed

\* ... and throughout.
LEMMA NamesInvariant == Spec => []NamesInv
  BY NamesInit, NamesStep, PTL DEF Spec

\* TypeOK, with the lock: it is held by the request that is in its write closure,
\* of which there is one at most.
THEOREM UploadTypeCorrect == Spec => []TypeOK
  <1>1. NamesInv => TypeOK
    BY DEF NamesInv
  <1> QED
    BY <1>1, NamesInvariant, PTL

-------------------------------------------------------------------------------
(* Whose packages.                                                         *)

\* The variables whose domains are the requests.
LEMMA Domains ==
    ASSUME NamesInv
    PROVE /\ DOMAIN pc = Reqs /\ DOMAIN kind = Reqs /\ DOMAIN todo = Reqs /\ DOMAIN snap = Reqs
          /\ DOMAIN got = Reqs /\ DOMAIN removed = Reqs /\ DOMAIN missing = Reqs
  BY DEF NamesInv, TypeOK

\* The previous versions of an rpm with a good name are versions of its package.
LEMMA SamePackage ==
    ASSUME WellNamed, NamesInv, NEW q \in Reqs, NEW n \in Rpms, RpmFilename(FileName[n])
    PROVE PreviousVersions(q, n) = {k \in snap[q] : PackageOf[k] = PackageOf[n] /\ k # n}
  <1>1. \A k \in snap[q] : k \in Rpms /\ RpmFilename(FileName[k])
    BY DEF NamesInv, TypeOK, Checked
  <1> QED
    BY <1>1 DEF WellNamed, PreviousVersions

\* What is received next has passed the checks.
LEMMA NextIsNamed ==
    ASSUME NamesInv, NEW q \in Reqs, pc[q] \in {"stream", "check"},
           Parsed[Head(todo[q])[1]] # {}
    PROVE /\ Head(todo[q]) \in Rpm /\ Head(todo[q])[1] \in Rpms
          /\ RpmFilename(FileName[Head(todo[q])[1]])
  <1>1. Head(todo[q]) \in Rpm /\ Head(todo[q])[1] \in Rpms
    BY Request
  <1> QED
    BY <1>1 DEF NamesInv, Checked, RpmFilename, Parsed

\* A step of a request keeps to its packages and removes other versions only.
LEMMA OwnStepOfOne ==
    ASSUME WellNamed, OwnInv, NEW q \in Reqs, Step(q)
    PROVE Spares(q)' /\ KeepsToItsOwn(q)'
  <1>1. NamesInv /\ Checked(q) /\ Spares(q) /\ KeepsToItsOwn(q) /\ ToSet(<<>>) = {}
    BY DEF OwnInv, NamesInv, ToSet
  <1>2. /\ DOMAIN pc = Reqs /\ DOMAIN kind = Reqs /\ DOMAIN todo = Reqs /\ DOMAIN snap = Reqs
        /\ DOMAIN got = Reqs /\ DOMAIN removed = Reqs
    BY <1>1, Domains
  <1>3. own' = own
    BY DEF Step, StartUpload, StartDelete, OpenWriter, Received, Refuse, Check, EndOfBody, Enter,
       AddFrags, DeletePkgs, Unlink, AllUnlinked, Generate, Fail, End
  <1>4. ASSUME NEW batch \in SeqOf(Rpm, MaxBatch), StartUpload(q, batch)
        PROVE Spares(q)' /\ KeepsToItsOwn(q)'
    <2>1. /\ pc[q] = "idle" /\ pc'[q] = "receive" /\ todo'[q] = batch
          /\ UNCHANGED <<kind, got, removed>>
          /\ May(q, [i \in DOMAIN batch |-> batch[i][1]])
      BY <1>2, <1>4 DEF StartUpload, Goto
    <2>2. \A rpm \in ToSet(batch) : Pkg(rpm) \in own[q]
      BY <2>1 DEF May, ToSet, Pkg
    <2>3. got[q] = <<>> /\ removed[q] = <<>>
      BY <1>1, <2>1 DEF Checked
    <2> QED
      BY <1>1, <1>3, <2>1, <2>2, <2>3 DEF Spares, KeepsToItsOwn
  <1>5. ASSUME NEW names \in SeqOf(Rpms, MaxBatch), StartDelete(q, names)
        PROVE Spares(q)' /\ KeepsToItsOwn(q)'
    <2>1. /\ pc[q] = "idle" /\ pc'[q] = "enter" /\ kind'[q] = "delete" /\ removed'[q] = names
          /\ UNCHANGED <<todo, got>> /\ May(q, names)
      BY <1>2, <1>5 DEF StartDelete, Goto
    <2>2. \A n \in ToSet(names) : PackageOf[n] \in own[q]
      BY <2>1 DEF May, ToSet
    <2> QED
      BY <1>1, <1>3, <2>1, <2>2 DEF Spares, KeepsToItsOwn
  <1>6. CASE Refuse(q) \/ Generate(q) \/ Fail(q)
    <2>1. /\ pc'[q] = "idle" /\ ToSet(got'[q]) = {} /\ ToSet(removed'[q]) = {}
      BY <1>1, <1>6, Ends, Over DEF NamesInv
    <2> QED
      BY <2>1 DEF Spares, KeepsToItsOwn
  <1>7. CASE Received(q)
    <2> DEFINE rpm == Head(todo[q])
    <2>1. /\ pc[q] = "stream" /\ pc'[q] = "check" /\ Parsed[rpm[1]] # {} /\ todo[q] # <<>>
          /\ todo[q] \in Seq(Rpm)
          /\ removed'[q] = removed[q] \o SetToSeq(PreviousVersions(q, rpm[1]))
          /\ UNCHANGED <<kind, todo, got>>
      BY <1>1, <1>2, <1>7 DEF Received, Goto, Checked
    <2>2. rpm[1] \in Rpms /\ RpmFilename(FileName[rpm[1]])
      BY <1>1, <2>1, NextIsNamed
    <2>3. ToSet(removed'[q]) = ToSet(removed[q])
                                 \union {k \in snap[q] : PackageOf[k] = PackageOf[rpm[1]] /\ k # rpm[1]}
      BY <1>1, <2>1, <2>2, Previous, SamePackage
    <2>4. rpm \in ToSet(todo[q]) /\ Pkg(rpm) \in own[q]
      BY <1>1, <2>1, SetOfTail DEF KeepsToItsOwn
    <2>5. Accepted(q) = ToSet(got[q]) /\ Accepted(q)' = ToSet(got[q]) \union {rpm}
      BY <2>1 DEF Accepted
    <2>6. Spares(q)'
      BY <1>1, <2>1, <2>3, <2>5 DEF Spares, Pkg
    <2>7. KeepsToItsOwn(q)'
      BY <1>1, <1>3, <2>1, <2>3, <2>4 DEF KeepsToItsOwn, Pkg
    <2> QED
      BY <2>6, <2>7
  <1>8. CASE Check(q)
    <2> DEFINE rpm == Head(todo[q])
    <2>1. /\ pc[q] = "check" /\ pc'[q] = "receive" /\ todo'[q] = Tail(todo[q])
          /\ got'[q] = Append(got[q], rpm) /\ UNCHANGED <<kind, removed>>
          /\ todo[q] \in Seq(Rpm) /\ todo[q] # <<>>
      BY <1>1, <1>2, <1>8 DEF Check, Goto, Checked
    <2>2. ToSet(todo[q]) = {rpm} \union ToSet(todo'[q]) /\ rpm \in Rpm
      BY <2>1, SetOfTail
    <2>3. ToSet(got'[q]) = ToSet(got[q]) \union {rpm}
      BY <1>1, <2>1, <2>2, SetOfAppend, Request
    <2>4. Accepted(q)' = Accepted(q)
      BY <2>1, <2>3 DEF Accepted
    <2>5. Spares(q)'
      BY <1>1, <2>1, <2>4 DEF Spares
    <2>6. KeepsToItsOwn(q)'
      BY <1>1, <1>3, <2>1, <2>2, <2>3 DEF KeepsToItsOwn
    <2> QED
      BY <2>5, <2>6
  <1>9. CASE DeletePkgs(q)
    <2>1. /\ pc[q] = "del" /\ pc'[q] = "unlink" /\ todo'[q] = removed[q]
          /\ UNCHANGED <<kind, got, removed>>
      BY <1>2, <1>9 DEF DeletePkgs, Goto
    <2> QED
      BY <1>1, <1>3, <2>1 DEF Spares, KeepsToItsOwn, Accepted
  <1>10. CASE Unlink(q)
    <2>1. /\ pc[q] = "unlink" /\ pc' = pc /\ todo'[q] = Tail(todo[q]) /\ todo[q] # <<>>
          /\ UNCHANGED <<kind, got, removed>> /\ todo[q] \in Seq(Rpms)
      BY <1>1, <1>2, <1>10 DEF Unlink, Checked
    <2>2. ToSet(todo'[q]) \subseteq ToSet(todo[q])
      BY <2>1, SetOfTail
    <2> QED
      BY <1>1, <1>3, <2>1, <2>2 DEF Spares, KeepsToItsOwn, Accepted
  <1>11. CASE OpenWriter(q) \/ EndOfBody(q) \/ Enter(q) \/ AddFrags(q) \/ AllUnlinked(q)
    <2>1. /\ UNCHANGED <<kind, todo, got, removed>>
          /\ pc'[q] = "stream" => pc[q] = "receive"
          /\ pc'[q] \in {"stream", "enter", "add", "del", "generate"}
          /\ pc[q] # "check"
      BY <1>2, <1>11 DEF OpenWriter, EndOfBody, Enter, AddFrags, AllUnlinked, Goto
    <2> QED
      BY <1>1, <1>3, <2>1 DEF Spares, KeepsToItsOwn, Accepted
  <1> QED
    BY <1>4, <1>5, <1>6, <1>7, <1>8, <1>9, <1>10, <1>11 DEF Step

\* OwnInv is inductive.
LEMMA OwnStep == ASSUME WellNamed PROVE OwnInv /\ [Next]_vars => OwnInv'
  <1>1. ASSUME OwnInv, NEW q \in Reqs, Step(q) PROVE OwnInv'
    <2>1. NamesInv'
      BY <1>1, NamesStep DEF OwnInv, Next
    <2>2. ASSUME NEW p \in Reqs PROVE Spares(p)' /\ KeepsToItsOwn(p)'
      <3>1. CASE p = q
        BY <1>1, <3>1, OwnStepOfOne
      <3>2. CASE p # q
        <4>1. UNCHANGED <<own, pc[p], kind[p], todo[p], got[p], removed[p]>>
          BY <1>1, <3>2, OneAtATime DEF OwnInv, NamesInv
        <4>2. Spares(p) /\ KeepsToItsOwn(p)
          BY <1>1 DEF OwnInv
        <4> QED
          BY <4>1, <4>2 DEF Spares, KeepsToItsOwn, Accepted
      <3> QED
        BY <3>1, <3>2
    <2> QED
      BY <2>1, <2>2 DEF OwnInv
  <1>2. ASSUME OwnInv, UNCHANGED vars PROVE OwnInv'
    <2>1. NamesInv'
      BY <1>2, NamesStep DEF OwnInv
    <2> QED
      BY <1>2, <2>1 DEF vars, OwnInv, Spares, KeepsToItsOwn, Accepted
  <1> QED
    BY <1>1, <1>2 DEF Next

\* It holds at the start ...
LEMMA OwnInit == Init => OwnInv
  <1> SUFFICES ASSUME Init PROVE OwnInv
    OBVIOUS
  <1>1. ToSet(<<>>) = {}
    BY DEF ToSet
  <1> QED
    BY <1>1, NamesInit DEF Init, OwnInv, Spares, KeepsToItsOwn

\* ... and throughout.
LEMMA OwnInvariant == ASSUME WellNamed PROVE Spec => []OwnInv
  BY OwnInit, OwnStep, PTL DEF Spec

\* However names are taken apart: if the accepted names tell packages apart, what an
\* upload is about to delete are other versions of packages that it received.
THEOREM UploadsSpareOthers == ASSUME WellNamed PROVE Spec => []UploadSparesOthers
  <1>1. OwnInv => UploadSparesOthers
    BY DEF OwnInv, Spares, Accepted, UploadSparesOthers, Pkg
  <1> QED
    BY <1>1, OwnInvariant, PTL

-------------------------------------------------------------------------------
(* Files.                                                                  *)

\* What a request has accepted are rpms of its client with checked names.
LEMMA AcceptedAreOwn ==
    ASSUME OwnInv, NEW q \in Reqs, NEW rpm \in Accepted(q)
    PROVE /\ rpm \in Rpm /\ rpm[1] \in Rpms /\ rpm[2] \in Bytes
          /\ RpmFilename(FileName[rpm[1]]) /\ Pkg(rpm) \in own[q]
  <1>1. NamesInv /\ Checked(q) /\ KeepsToItsOwn(q)
    BY DEF OwnInv, NamesInv
  <1>2. CASE rpm \in ToSet(got[q])
    <2>1. ToSet(got[q]) \subseteq Rpm
      BY <1>1, Request, SetOfSeq
    <2> QED
      BY <1>1, <1>2, <2>1 DEF Checked, KeepsToItsOwn, Rpm
  <1>3. CASE pc[q] = "check" /\ rpm = Head(todo[q])
    <2>1. todo[q] \in Seq(Rpm) /\ todo[q] # <<>> /\ Parsed[rpm[1]] # {}
      BY <1>1, <1>3 DEF Checked
    <2>2. rpm \in ToSet(todo[q])
      BY <1>3, <2>1, SetOfTail
    <2> QED
      BY <1>1, <1>3, <2>1, <2>2, NextIsNamed DEF KeepsToItsOwn, Rpm
  <1> QED
    BY <1>2, <1>3 DEF Accepted

\* No package belongs to two requests.
LEMMA Apart ==
    ASSUME ClientsApart, NamesInv, NEW q \in Reqs, NEW p \in Reqs, q # p, NEW k \in own[q]
    PROVE k \notin own[p]
  BY DEF ClientsApart, NamesInv, TypeOK

\* How a step changes the store: it writes what it streams and unlinks what it
\* deletes.
LEMMA StoreMoves ==
    ASSUME NamesInv, NEW q \in Reqs, Step(q), NEW n \in Rpms, Receivable(FileName[n])
    PROVE \/ store'[Link[n]] = store[Link[n]]
          \/ /\ pc[q] \in {"receive", "stream"} /\ todo[q] # <<>> /\ n = Head(todo[q])[1]
             /\ store'[Link[n]] # None
          \/ Unlink(q) /\ n = Head(todo[q]) /\ n \notin missing[q]
  <1>1. Link[n] \in Links /\ DOMAIN store = Links /\ None \notin Bytes \union {Partial}
    BY UploadAssumption DEF Links, NamesInv, TypeOK
  <1>2. CASE OpenWriter(q)
    <2>1. Head(todo[q])[1] \in Rpms
      BY <1>2, Request DEF OpenWriter
    <2> QED
      BY <1>1, <1>2, <2>1, LinksApart DEF OpenWriter
  <1>3. CASE Received(q) \/ (Refuse(q) /\ pc[q] = "stream")
    <2>1. Head(todo[q])[1] \in Rpms /\ Head(todo[q])[2] \in Bytes /\ pc[q] = "stream" /\ todo[q] # <<>>
      BY <1>3, Request DEF Received, NamesInv, Checked
    <2>2. store' = [store EXCEPT ![Link[Head(todo[q])[1]]] = Head(todo[q])[2]]
      BY <1>3 DEF Received, Refuse
    <2> QED
      BY <1>1, <2>1, <2>2, LinksApart
  <1>4. CASE Unlink(q)
    <2>1. Head(todo[q]) \in Rpms
      <3>1. todo[q] \in Seq(Rpms) /\ todo[q] # <<>>
        BY <1>4 DEF Unlink, NamesInv, Checked
      <3> QED
        BY <3>1
    <2> QED
      BY <1>1, <1>4, <2>1, LinksApart DEF Unlink
  <1>5. CASE ~OpenWriter(q) /\ ~Received(q) /\ ~(Refuse(q) /\ pc[q] = "stream") /\ ~Unlink(q)
    <2>1. store' = store
      BY <1>5 DEF Step, StartUpload, StartDelete, Refuse, Check, EndOfBody, Enter,
         AddFrags, DeletePkgs, AllUnlinked, Generate, Fail, End
    <2> QED
      BY <2>1
  <1> QED
    BY <1>2, <1>3, <1>4, <1>5

\* How a step changes the cache: it adds what it received and removes what it
\* deletes.
LEMMA IndexMoves ==
    ASSUME NamesInv, NEW q \in Reqs, Step(q), NEW n \in Rpms
    PROVE \/ index'[n] = index[n]
          \/ AddFrags(q) /\ \E rpm \in ToSet(got[q]) : n = rpm[1]
          \/ DeletePkgs(q) /\ n \in ToSet(removed[q]) /\ index'[n] = None
  <1>1. CASE AddFrags(q)
    BY <1>1 DEF AddFrags
  <1>2. CASE DeletePkgs(q)
    BY <1>2 DEF DeletePkgs
  <1>3. CASE ~AddFrags(q) /\ ~DeletePkgs(q)
    BY <1>3 DEF Step, StartUpload, StartDelete, OpenWriter, Received, Refuse, Check, EndOfBody,
       Enter, Unlink, AllUnlinked, Generate, Fail, End
  <1> QED
    BY <1>1, <1>2, <1>3

\* What a request is about to unlink belongs to its client.
LEMMA HeadIsOwn ==
    ASSUME OwnInv, NEW q \in Reqs, Unlink(q)
    PROVE /\ pc[q] = "unlink" /\ Head(todo[q]) \in ToSet(todo[q])
          /\ PackageOf[Head(todo[q])] \in own[q]
  <1>1. pc[q] = "unlink" /\ todo[q] \in Seq(Rpms) /\ todo[q] # <<>> /\ KeepsToItsOwn(q)
    BY DEF Unlink, OwnInv, NamesInv, Checked
  <1> QED
    BY <1>1, SetOfTail DEF KeepsToItsOwn

\* A request's files are there when it needs them.
LEMMA FilesStepOfOne ==
    ASSUME FilesInv, NEW q \in Reqs, Step(q)
    PROVE FilesAround(q)'
  <1>1. OwnInv /\ NamesInv /\ Checked(q) /\ FilesAround(q) /\ ToSet(<<>>) = {}
    BY DEF FilesInv, OwnInv, NamesInv, ToSet
  <1>2. /\ DOMAIN pc = Reqs /\ DOMAIN kind = Reqs /\ DOMAIN todo = Reqs /\ DOMAIN got = Reqs
    BY <1>1, Domains
  <1>3. CASE \E batch \in SeqOf(Rpm, MaxBatch) : StartUpload(q, batch)
    <2>1. pc[q] = "idle" /\ pc'[q] = "receive" /\ got' = got
      BY <1>2, <1>3 DEF StartUpload, Goto
    <2> QED
      BY <1>1, <2>1 DEF FilesAround, Accepted, Checked
  <1>4. CASE \E names \in SeqOf(Rpms, MaxBatch) : StartDelete(q, names)
    <2>1. pc[q] = "idle" /\ pc'[q] = "enter" /\ got' = got
      BY <1>2, <1>4 DEF StartDelete, Goto
    <2> QED
      BY <1>1, <2>1 DEF FilesAround, Accepted, Checked
  <1>5. CASE Refuse(q) \/ Generate(q) \/ Fail(q)
    <2>1. pc'[q] = "idle"
      BY <1>1, <1>5, Ends, Over DEF NamesInv
    <2> QED
      BY <2>1 DEF FilesAround
  <1>6. CASE OpenWriter(q) \/ EndOfBody(q) \/ Enter(q)
    <2>1. /\ pc[q] \in {"receive", "enter"} /\ pc'[q] \in {"stream", "enter", "add", "del"}
          /\ UNCHANGED <<got, todo>>
      BY <1>2, <1>6 DEF OpenWriter, EndOfBody, Enter, Goto
    <2>2. Accepted(q)' = Accepted(q)
      BY <2>1 DEF Accepted
    <2>3. ASSUME NEW rpm \in Accepted(q) PROVE store'[Link[rpm[1]]] # None
      <3>1. rpm[1] \in Rpms /\ Receivable(FileName[rpm[1]])
        BY <1>1, AcceptedAreOwn DEF RpmFilename
      <3>2. store[Link[rpm[1]]] # None
        BY <1>1, <2>1 DEF FilesAround
      <3> QED
        BY <1>1, <2>1, <3>1, <3>2, StoreMoves DEF Unlink
    <2> QED
      BY <2>1, <2>2, <2>3 DEF FilesAround
  <1>7. CASE Received(q)
    <2> DEFINE rpm == Head(todo[q])
    <2>1. /\ pc[q] = "stream" /\ pc'[q] = "check" /\ UNCHANGED <<todo, got>>
          /\ store' = [store EXCEPT ![Link[rpm[1]]] = rpm[2]]
      BY <1>2, <1>7 DEF Received, Goto
    <2>2. Accepted(q) = ToSet(got[q]) /\ Accepted(q)' = Accepted(q) \union {rpm}
      BY <2>1 DEF Accepted
    <2>3. Link[rpm[1]] \in DOMAIN store /\ rpm[2] # None
      BY <1>1, <2>1, Request, UploadAssumption DEF NamesInv, TypeOK
    <2>4. ASSUME NEW r \in Accepted(q) PROVE store'[Link[r[1]]] # None
      <3>1. store[Link[r[1]]] # None
        BY <1>1, <2>1 DEF FilesAround
      <3> QED
        BY <2>1, <2>3, <3>1
    <2> QED
      BY <2>1, <2>2, <2>3, <2>4 DEF FilesAround
  <1>8. CASE Check(q)
    <2>1. /\ pc[q] = "check" /\ pc'[q] = "receive" /\ got'[q] = Append(got[q], Head(todo[q]))
          /\ store' = store
      BY <1>2, <1>8 DEF Check, Goto
    <2>2. Accepted(q)' = Accepted(q)
      BY <1>1, <2>1, SetOfAppend, Request DEF Accepted
    <2> QED
      BY <1>1, <2>1, <2>2 DEF FilesAround
  <1>9. CASE AddFrags(q) \/ AllUnlinked(q)
    <2>1. pc'[q] \in {"generate", "del"}
      BY <1>2, <1>9 DEF AddFrags, AllUnlinked, Goto
    <2> QED
      BY <2>1 DEF FilesAround
  <1>10. CASE DeletePkgs(q)
    <2>1. /\ pc'[q] = "unlink" /\ todo'[q] = removed[q] /\ ToSet(removed[q]) \subseteq Rpms
          /\ \A n \in ToSet(removed[q]) \cap Rpms : index'[n] = None
      BY <1>1, <1>2, <1>10, SetOfSeq, Request DEF DeletePkgs, Goto
    <2> QED
      BY <2>1 DEF FilesAround
  <1>11. CASE Unlink(q)
    <2>1. /\ pc[q] = "unlink" /\ pc' = pc /\ index' = index /\ todo'[q] = Tail(todo[q])
          /\ todo[q] # <<>> /\ todo[q] \in Seq(Rpms)
      BY <1>1, <1>2, <1>11 DEF Unlink, Checked
    <2>2. ToSet(todo'[q]) \subseteq ToSet(todo[q])
      BY <2>1, SetOfTail
    <2> QED
      BY <1>1, <2>1, <2>2 DEF FilesAround
  <1> QED
    BY <1>3, <1>4, <1>5, <1>6, <1>7, <1>8, <1>9, <1>10, <1>11 DEF Step

\* FilesInv is inductive: a step touches no file or entry that another request's
\* client works on.
LEMMA FilesStep == ASSUME WellNamed, ClientsApart PROVE FilesInv /\ [Next]_vars => FilesInv'
  <1>1. ASSUME FilesInv, NEW q \in Reqs, Step(q) PROVE FilesInv'
    <2>1. OwnInv /\ OwnInv' /\ NamesInv
      BY <1>1, OwnStep DEF FilesInv, OwnInv, Next
    <2>2. IndexedHasFile'
      <3> SUFFICES ASSUME NEW n \in Rpms, index'[n] # None PROVE store'[Link[n]] # None
        BY DEF IndexedHasFile
      <3>1. CASE AddFrags(q) /\ \E rpm \in ToSet(got[q]) : n = rpm[1]
        <4>1. pc[q] = "add" /\ store' = store /\ \E rpm \in Accepted(q) : n = rpm[1]
          BY <3>1 DEF AddFrags, Accepted
        <4> QED
          BY <1>1, <4>1 DEF FilesInv, FilesAround
      <3>2. CASE index'[n] = index[n]
        <4>1. store[Link[n]] # None /\ Receivable(FileName[n])
          BY <1>1, <2>1, <3>2 DEF FilesInv, IndexedHasFile, NamesInv, ListedAreNamed, Listed,
             RpmFilename
        <4>2. CASE Unlink(q) /\ n = Head(todo[q])
          <5>1. index[n] = None
            BY <1>1, <2>1, <4>2, HeadIsOwn DEF FilesInv, FilesAround
          <5> QED
            BY <3>2, <5>1
        <4> QED
          BY <1>1, <2>1, <4>1, <4>2, StoreMoves
      <3> QED
        BY <1>1, <2>1, <3>1, <3>2, IndexMoves
    <2>3. ASSUME NEW p \in Reqs, p # q PROVE FilesAround(p)'
      <3>1. UNCHANGED <<own, pc[p], todo[p], got[p]>>
        BY <1>1, <2>1, <2>3, OneAtATime DEF NamesInv
      <3>2. Accepted(p)' = Accepted(p) /\ FilesAround(p) /\ KeepsToItsOwn(p) /\ Checked(p)
        BY <1>1, <2>1, <3>1 DEF Accepted, FilesInv, OwnInv, NamesInv
      <3>3. ASSUME NEW rpm \in Accepted(p), store[Link[rpm[1]]] # None
            PROVE store'[Link[rpm[1]]] # None
        <4>1. rpm[1] \in Rpms /\ Receivable(FileName[rpm[1]]) /\ PackageOf[rpm[1]] \in own[p]
          BY <2>1, AcceptedAreOwn DEF RpmFilename, Pkg
        <4>2. ~(Unlink(q) /\ rpm[1] = Head(todo[q]))
          BY <2>1, <2>3, <4>1, HeadIsOwn, Apart
        <4> QED
          BY <1>1, <2>1, <3>3, <4>1, <4>2, StoreMoves
      <3>4. ASSUME pc[p] = "unlink", NEW n \in ToSet(todo[p]) PROVE index'[n] = None
        <4>1. n \in Rpms /\ PackageOf[n] \in own[p] /\ index[n] = None
          BY <3>2, <3>4, SetOfSeq DEF Checked, KeepsToItsOwn, FilesAround
        <4>2. ASSUME NEW rpm \in ToSet(got[q]) PROVE n # rpm[1]
          <5>1. PackageOf[rpm[1]] \in own[q]
            BY <2>1, AcceptedAreOwn DEF Accepted, Pkg
          <5> QED
            BY <2>1, <2>3, <4>1, <5>1, Apart
        <4> QED
          BY <1>1, <2>1, <4>1, <4>2, IndexMoves
      <3> QED
        BY <3>1, <3>2, <3>3, <3>4 DEF FilesAround
    <2>4. FilesAround(q)'
      BY <1>1, FilesStepOfOne
    <2> QED
      BY <2>1, <2>2, <2>3, <2>4 DEF FilesInv
  <1>2. ASSUME FilesInv, UNCHANGED vars PROVE FilesInv'
    <2>1. OwnInv'
      BY <1>2, OwnStep DEF FilesInv
    <2> QED
      BY <1>2, <2>1 DEF vars, FilesInv, IndexedHasFile, FilesAround, Accepted
  <1> QED
    BY <1>1, <1>2 DEF Next

\* It holds at the start ...
LEMMA FilesInit == Init => FilesInv
  BY OwnInit DEF Init, FilesInv, IndexedHasFile, FilesAround

\* ... and throughout.
LEMMA FilesInvariant == ASSUME WellNamed, ClientsApart PROVE Spec => []FilesInv
  BY FilesInit, FilesStep, PTL DEF Spec

\* Whatever fails, and however requests for different packages interleave: every rpm
\* the cache lists has its file in the store.
THEOREM ListedRpmsHaveFiles ==
    ASSUME WellNamed, ClientsApart PROVE Spec => []IndexedHasFile
  <1>1. FilesInv => IndexedHasFile
    BY DEF FilesInv
  <1> QED
    BY <1>1, FilesInvariant, PTL

-------------------------------------------------------------------------------
(* Once each.                                                              *)

\* Two sequences without repetitions and without common elements, in a row.
LEMMA DistinctConcat ==
    ASSUME NEW S, NEW s \in Seq(S), NEW t \in Seq(S),
           \A i, j \in DOMAIN s : i # j => s[i] # s[j],
           \A i, j \in DOMAIN t : i # j => t[i] # t[j],
           \A x \in ToSet(s) : x \notin ToSet(t)
    PROVE \A i, j \in DOMAIN (s \o t) : i # j => (s \o t)[i] # (s \o t)[j]
  <1>1. /\ Len(s \o t) = Len(s) + Len(t) /\ DOMAIN (s \o t) = 1 .. Len(s \o t)
        /\ \A i \in 1 .. Len(s) + Len(t) :
               (s \o t)[i] = IF i <= Len(s) THEN s[i] ELSE t[i - Len(s)]
        /\ Len(s) \in Nat /\ Len(t) \in Nat /\ DOMAIN s = 1 .. Len(s) /\ DOMAIN t = 1 .. Len(t)
    BY ConcatProperties, LenProperties
  <1>2. \A i \in 1 .. Len(s), j \in 1 .. Len(t) : s[i] # t[j]
    BY <1>1 DEF ToSet
  <1> SUFFICES ASSUME NEW i \in 1 .. Len(s) + Len(t), NEW j \in 1 .. Len(s) + Len(t), i # j
               PROVE (s \o t)[i] # (s \o t)[j]
    BY <1>1
  <1>3. CASE i <= Len(s) /\ j <= Len(s)
    BY <1>1, <1>3
  <1>4. CASE i <= Len(s) /\ ~(j <= Len(s))
    <2>1. i \in 1 .. Len(s) /\ j - Len(s) \in 1 .. Len(t)
      BY <1>1, <1>4
    <2> QED
      BY <1>1, <1>2, <1>4, <2>1
  <1>5. CASE ~(i <= Len(s)) /\ j <= Len(s)
    <2>1. j \in 1 .. Len(s) /\ i - Len(s) \in 1 .. Len(t)
      BY <1>1, <1>5
    <2>2. s[j] # t[i - Len(s)]
      BY <1>2, <2>1
    <2> QED
      BY <1>1, <1>5, <2>1, <2>2
  <1>6. CASE ~(i <= Len(s)) /\ ~(j <= Len(s))
    <2>1. /\ i - Len(s) \in 1 .. Len(t) /\ j - Len(s) \in 1 .. Len(t)
          /\ i - Len(s) # j - Len(s)
      BY <1>1, <1>6
    <2> QED
      BY <1>1, <1>6, <2>1
  <1> QED
    BY <1>3, <1>4, <1>5, <1>6

\* A request names nothing twice, if its client does not.
LEMMA OnceStepOfOne ==
    ASSUME Tidy, WellNamed, OwnInv, NEW q \in Reqs, Once(q), Step(q)
    PROVE Once(q)'
  <1>1. NamesInv /\ Checked(q) /\ Spares(q) /\ ToSet(<<>>) = {}
    BY DEF OwnInv, NamesInv, ToSet
  <1>2. /\ DOMAIN pc = Reqs /\ DOMAIN kind = Reqs /\ DOMAIN todo = Reqs /\ DOMAIN got = Reqs
        /\ DOMAIN removed = Reqs
    BY <1>1, Domains
  <1>3. ASSUME NEW batch \in SeqOf(Rpm, MaxBatch), StartUpload(q, batch) PROVE Once(q)'
    <2>1. /\ pc[q] = "idle" /\ pc'[q] = "receive" /\ todo'[q] = batch
          /\ UNCHANGED <<got, removed>> /\ May(q, [i \in DOMAIN batch |-> batch[i][1]])
      BY <1>2, <1>3 DEF StartUpload, Goto
    <2>2. got[q] = <<>>
      BY <1>1, <2>1 DEF Checked
    <2>3. \A i, j \in DOMAIN batch : i # j => Pkg(batch[i]) # Pkg(batch[j])
      BY <2>1 DEF May, Pkg
    <2> QED
      BY <1>1, <2>1, <2>2, <2>3 DEF Once
  <1>4. ASSUME NEW names \in SeqOf(Rpms, MaxBatch), StartDelete(q, names) PROVE Once(q)'
    <2>1. pc'[q] = "enter" /\ removed'[q] = names /\ got' = got /\ May(q, names)
      BY <1>2, <1>4 DEF StartDelete, Goto
    <2>2. \A i, j \in DOMAIN names : i # j => names[i] # names[j]
      BY <2>1 DEF May
    <2> QED
      BY <2>1, <2>2 DEF Once
  <1>5. CASE Refuse(q) \/ Generate(q) \/ Fail(q)
    <2>1. pc'[q] = "idle" /\ got'[q] = <<>> /\ removed'[q] = <<>>
      BY <1>1, <1>5, Ends, Over DEF NamesInv
    <2> QED
      BY <2>1 DEF Once
  <1>6. CASE Received(q)
    <2> DEFINE rpm == Head(todo[q])
               list == SetToSeq(PreviousVersions(q, rpm[1]))
    <2>1. /\ pc[q] = "stream" /\ pc'[q] = "check" /\ Parsed[rpm[1]] # {}
          /\ removed'[q] = removed[q] \o list
          /\ UNCHANGED <<todo, got>> /\ kind[q] = "upload"
          /\ todo[q] \in Seq(Rpm) /\ todo[q] # <<>>
      BY <1>1, <1>2, <1>6 DEF Received, Goto, Checked
    <2>2. rpm[1] \in Rpms /\ RpmFilename(FileName[rpm[1]]) /\ rpm \in ToSet(todo[q])
      BY <1>1, <2>1, NextIsNamed, SetOfTail
    <2>3. /\ list \in Seq(Rpms) /\ removed[q] \in Seq(Rpms)
          /\ \A k \in ToSet(list) : PackageOf[k] = Pkg(rpm)
          /\ \A i, j \in DOMAIN list : i # j => list[i] # list[j]
      BY <1>1, <2>2, Previous, SamePackage, Request DEF Pkg
    <2>4. \A k \in ToSet(removed[q]) : PackageOf[k] # Pkg(rpm)
      BY <1>1, <2>1, <2>2 DEF Spares, Accepted, Once
    <2> HIDE DEF list
    <2>5. \A k \in ToSet(removed[q]) : k \notin ToSet(list)
      BY <2>3, <2>4
    <2>6. \A i, j \in DOMAIN removed'[q] : i # j => removed'[q][i] # removed'[q][j]
      <3> DEFINE all == removed[q] \o list
      <3>1. \A i, j \in DOMAIN removed[q] : i # j => removed[q][i] # removed[q][j]
        BY DEF Once
      <3>2. \A i, j \in DOMAIN all : i # j => all[i] # all[j]
        BY <2>3, <2>5, <3>1, DistinctConcat
      <3> HIDE DEF all
      <3> QED
        BY <2>1, <3>2 DEF all
    <2> QED
      BY <2>1, <2>6 DEF Once
  <1>7. CASE Check(q)
    <2> DEFINE rpm == Head(todo[q])
    <2>1. /\ pc[q] = "check" /\ pc'[q] = "receive" /\ todo'[q] = Tail(todo[q])
          /\ got'[q] = Append(got[q], rpm) /\ removed' = removed
          /\ todo[q] \in Seq(Rpm) /\ todo[q] # <<>> /\ got[q] \in Seq(Rpm)
      BY <1>1, <1>2, <1>7, Request DEF Check, Goto, Checked
    <2>2. /\ rpm \in Rpm /\ ToSet(todo[q]) = {rpm} \union ToSet(todo'[q])
          /\ \A i \in DOMAIN todo'[q] : i + 1 \in DOMAIN todo[q] /\ i + 1 # 1
                                          /\ todo'[q][i] = todo[q][i + 1]
          /\ 1 \in DOMAIN todo[q] /\ rpm = todo[q][1]
          /\ todo'[q] \in Seq(Rpm)
      BY <2>1, SetOfTail
    <2>3. ToSet(got'[q]) = ToSet(got[q]) \union {rpm}
      BY <2>1, <2>2, SetOfAppend
    <2>4. \A i, j \in DOMAIN todo'[q] : i # j => Pkg(todo'[q][i]) # Pkg(todo'[q][j])
      <3>1. \A i, j \in DOMAIN todo'[q] : i # j => i + 1 # j + 1
        BY <2>2
      <3> QED
        BY <2>1, <2>2, <3>1 DEF Once
    <2>5. \A next \in ToSet(todo'[q]) : Pkg(rpm) # Pkg(next)
      BY <2>1, <2>2 DEF Once, ToSet
    <2>6. \A i, j \in DOMAIN got'[q] : i # j => Pkg(got'[q][i]) # Pkg(got'[q][j])
      <3>1. /\ \A i \in DOMAIN got'[q] : i = Len(got[q]) + 1 \/ i \in DOMAIN got[q]
            /\ \A i \in DOMAIN got[q] : got'[q][i] = got[q][i]
            /\ got'[q][Len(got[q]) + 1] = rpm
        BY <2>1, <2>2
      <3>2. \A i \in DOMAIN got[q] : Pkg(got[q][i]) # Pkg(rpm)
        BY <2>1, <2>2 DEF Once, ToSet
      <3> QED
        BY <3>1, <3>2 DEF Once
    <2>7. \A r \in ToSet(got'[q]), next \in ToSet(todo'[q]) : Pkg(r) # Pkg(next)
      BY <2>1, <2>2, <2>3, <2>5 DEF Once
    <2> QED
      BY <2>1, <2>4, <2>6, <2>7 DEF Once
  <1>8. CASE OpenWriter(q) \/ EndOfBody(q)
    <2>1. pc[q] = "receive" /\ UNCHANGED <<todo, got, removed>>
      BY <1>2, <1>8 DEF OpenWriter, EndOfBody
    <2> QED
      BY <2>1 DEF Once
  <1>9. CASE Enter(q) \/ AddFrags(q) \/ DeletePkgs(q) \/ Unlink(q) \/ AllUnlinked(q)
    <2>1. /\ UNCHANGED <<got, removed>> /\ pc'[q] \notin {"receive", "stream", "check"}
      BY <1>2, <1>9 DEF Enter, AddFrags, DeletePkgs, Unlink, AllUnlinked, Goto
    <2> QED
      BY <2>1 DEF Once
  <1> QED
    BY <1>3, <1>4, <1>5, <1>6, <1>7, <1>8, <1>9 DEF Step

\* Of each package, a request has one rpm.
LEMMA OneOfEach ==
    ASSUME NEW q \in Reqs, Once(q), NEW r \in ToSet(got[q]), NEW s \in ToSet(got[q]), Pkg(r) = Pkg(s)
    PROVE r = s
  BY DEF Once, ToSet

\* What was once not clean stays so.
LEMMA CleanMoves == ASSUME NEW q \in Reqs, Step(q), clean' PROVE clean
  BY DEF Step, StartUpload, StartDelete, OpenWriter, Received, Refuse, Check, EndOfBody, Enter,
     AddFrags, DeletePkgs, Unlink, AllUnlinked, Generate, Fail, End

-------------------------------------------------------------------------------
(* What is published and indexed.                                          *)

\* A request's steps leave what belongs to other clients alone.
LEMMA NotMine ==
    ASSUME WellNamed, ClientsApart, OwnInv, NEW q \in Reqs, Step(q), NEW p \in Reqs, p # q,
           NEW n \in Rpms, PackageOf[n] \in own[p]
    PROVE /\ index'[n] = index[n]
          /\ Receivable(FileName[n]) => store'[Link[n]] = store[Link[n]]
  <1>1. NamesInv /\ PackageOf[n] \notin own[q] /\ KeepsToItsOwn(q) /\ Checked(q)
    BY Apart DEF OwnInv, NamesInv
  <1>2. ~\E rpm \in ToSet(got[q]) : n = rpm[1]
    BY <1>1, AcceptedAreOwn DEF Accepted, Pkg
  <1>3. n \notin ToSet(removed[q])
    BY <1>1 DEF KeepsToItsOwn
  <1>4. ~(pc[q] \in {"receive", "stream"} /\ todo[q] # <<>> /\ n = Head(todo[q])[1])
    BY <1>1, SetOfTail DEF KeepsToItsOwn, Checked, Pkg
  <1>5. ~(Unlink(q) /\ n = Head(todo[q]))
    BY <1>1, HeadIsOwn
  <1> QED
    BY <1>1, <1>2, <1>3, <1>4, <1>5, IndexMoves, StoreMoves

\* What a request has received is published until it is indexed.
LEMMA PublishedStepOfOne ==
    ASSUME FilesInv, NEW q \in Reqs, Once(q), Published(q), Step(q)
    PROVE Published(q)'
  <1>1. OwnInv /\ NamesInv /\ Checked(q) /\ ToSet(<<>>) = {}
    BY DEF FilesInv, OwnInv, NamesInv, ToSet
  <1>2. /\ DOMAIN pc = Reqs /\ DOMAIN kind = Reqs /\ DOMAIN todo = Reqs /\ DOMAIN got = Reqs
    BY <1>1, Domains
  <1>3. CASE \/ \E batch \in SeqOf(Rpm, MaxBatch) : StartUpload(q, batch)
             \/ \E names \in SeqOf(Rpms, MaxBatch) : StartDelete(q, names)
    <2>1. pc[q] = "idle" /\ pc'[q] \in {"receive", "enter"} /\ got' = got
      BY <1>2, <1>3 DEF StartUpload, StartDelete, Goto
    <2> QED
      BY <1>1, <2>1 DEF Published, Accepted, Checked
  <1>4. CASE Refuse(q) \/ Generate(q) \/ Fail(q)
    <2>1. pc'[q] = "idle"
      BY <1>1, <1>4, Ends, Over DEF NamesInv
    <2> QED
      BY <2>1 DEF Published
  <1>5. CASE OpenWriter(q) \/ EndOfBody(q) \/ Enter(q)
    <2>1. /\ pc[q] \in {"receive", "enter"} /\ pc'[q] \in {"stream", "enter", "add", "del"}
          /\ UNCHANGED <<got, todo>>
      BY <1>2, <1>5 DEF OpenWriter, EndOfBody, Enter, Goto
    <2>2. Accepted(q) = ToSet(got[q]) /\ Accepted(q)' = Accepted(q)
      BY <2>1 DEF Accepted
    <2>3. ASSUME NEW rpm \in Accepted(q) PROVE store'[Link[rpm[1]]] = rpm[2]
      <3>1. rpm[1] \in Rpms /\ Receivable(FileName[rpm[1]])
        BY <1>1, AcceptedAreOwn DEF RpmFilename
      <3>2. store[Link[rpm[1]]] = rpm[2]
        BY <1>1, <2>1 DEF Published
      <3>3. pc[q] = "receive" /\ todo[q] # <<>> => rpm[1] # Head(todo[q])[1]
        <4> SUFFICES ASSUME pc[q] = "receive", todo[q] # <<>>
                     PROVE rpm[1] # Head(todo[q])[1]
          OBVIOUS
        <4>1. Head(todo[q]) \in ToSet(todo[q])
          BY <1>1, SetOfTail DEF Checked
        <4> QED
          BY <2>2, <4>1 DEF Once, Pkg
      <3> QED
        BY <1>1, <2>1, <3>1, <3>2, <3>3, StoreMoves DEF Unlink
    <2> QED
      BY <2>1, <2>2, <2>3 DEF Published
  <1>6. CASE Received(q)
    <2> DEFINE rpm == Head(todo[q])
    <2>1. /\ pc[q] = "stream" /\ pc'[q] = "check" /\ UNCHANGED <<todo, got>>
          /\ store' = [store EXCEPT ![Link[rpm[1]]] = rpm[2]]
          /\ todo[q] \in Seq(Rpm) /\ todo[q] # <<>>
      BY <1>1, <1>2, <1>6 DEF Received, Goto, Checked
    <2>2. Accepted(q) = ToSet(got[q]) /\ Accepted(q)' = Accepted(q) \union {rpm}
      BY <2>1 DEF Accepted
    <2>3. Link[rpm[1]] \in DOMAIN store /\ rpm[1] \in Rpms /\ rpm \in ToSet(todo[q])
      BY <1>1, <2>1, Request, SetOfTail DEF NamesInv, TypeOK
    <2>4. ASSUME NEW r \in Accepted(q) PROVE store'[Link[r[1]]] = r[2]
      <3>1. store[Link[r[1]]] = r[2] /\ r[1] \in Rpms /\ r[1] # rpm[1]
        BY <1>1, <2>1, <2>2, <2>3, AcceptedAreOwn DEF Published, Once, Pkg
      <3>2. Link[r[1]] # Link[rpm[1]]
        BY <2>3, <3>1, LinksApart
      <3> QED
        BY <2>1, <3>1, <3>2
    <2> QED
      BY <2>1, <2>2, <2>3, <2>4 DEF Published
  <1>7. CASE Check(q)
    <2>1. /\ pc[q] = "check" /\ pc'[q] = "receive" /\ got'[q] = Append(got[q], Head(todo[q]))
          /\ store' = store
      BY <1>2, <1>7 DEF Check, Goto
    <2>2. Accepted(q)' = Accepted(q)
      BY <1>1, <2>1, SetOfAppend, Request DEF Accepted
    <2> QED
      BY <1>1, <2>1, <2>2 DEF Published
  <1>8. CASE AddFrags(q) \/ DeletePkgs(q) \/ Unlink(q) \/ AllUnlinked(q)
    <2>1. pc'[q] \in {"generate", "del", "unlink"}
      BY <1>2, <1>8 DEF AddFrags, DeletePkgs, Unlink, AllUnlinked, Goto
    <2> QED
      BY <2>1 DEF Published
  <1> QED
    BY <1>3, <1>4, <1>5, <1>6, <1>7, <1>8 DEF Step

\* An upload that adds what it received without a failure.
LEMMA Adds ==
    ASSUME ExactInv, NEW q \in Reqs, AddFrags(q), clean'
    PROVE /\ \A rpm \in ToSet(got[q]) : index'[rpm[1]] = store[Link[rpm[1]]] /\ index'[rpm[1]] # None
          /\ \A n \in Rpms : (~\E rpm \in ToSet(got[q]) : n = rpm[1]) => index'[n] = index[n]
          /\ store' = store
  <1>1. /\ pc[q] = "add" /\ store' = store
        /\ index' = [n \in Rpms |->
              IF \E b \in Bytes : <<n, b>> \in ToSet(got[q])
              THEN CHOOSE b \in Bytes : <<n, b>> \in ToSet(got[q])
              ELSE index[n]]
    BY DEF AddFrags
  <1>2. OwnInv /\ Published(q) /\ Accepted(q) = ToSet(got[q])
    BY <1>1 DEF ExactInv, FilesInv, Accepted
  <1>3. ASSUME NEW rpm \in ToSet(got[q])
        PROVE index'[rpm[1]] = store[Link[rpm[1]]] /\ index'[rpm[1]] # None
    <2> DEFINE b == CHOOSE b \in Bytes : <<rpm[1], b>> \in ToSet(got[q])
    <2>1. rpm[1] \in Rpms /\ rpm = <<rpm[1], rpm[2]>> /\ rpm[2] \in Bytes
      BY <1>2, AcceptedAreOwn DEF Rpm
    <2>2. b \in Bytes /\ <<rpm[1], b>> \in ToSet(got[q])
      BY <2>1
    <2>3. index'[rpm[1]] = b
      BY <1>1, <2>1
    <2> HIDE DEF b
    <2>4. store[Link[rpm[1]]] = b
      BY <1>1, <1>2, <2>2 DEF Published
    <2> QED
      BY <2>2, <2>3, <2>4, UploadAssumption
  <1> QED
    BY <1>1, <1>3

\* An upload decides with what is listed, and removes every other version of what it
\* received.
LEMMA VersionsStepOfOne ==
    ASSUME WellNamed, ExactInv, NEW q \in Reqs, Step(q)
    PROVE Versions(q)'
  <1>1. /\ OwnInv /\ NamesInv /\ Checked(q) /\ Spares(q) /\ KeepsToItsOwn(q)
        /\ Versions(q) /\ Once(q) /\ ToSet(<<>>) = {}
    BY DEF ExactInv, FilesInv, OwnInv, NamesInv, ToSet
  <1>2. /\ DOMAIN pc = Reqs /\ DOMAIN kind = Reqs /\ DOMAIN todo = Reqs /\ DOMAIN snap = Reqs
        /\ DOMAIN got = Reqs /\ DOMAIN removed = Reqs /\ Listed \subseteq Rpms
        /\ snap[q] \subseteq Rpms
    BY <1>1, Domains, Request DEF Listed
  <1>3. own' = own /\ (clean' => clean)
    BY CleanMoves DEF Step, StartUpload, StartDelete, OpenWriter, Received, Refuse, Check, EndOfBody,
       Enter, AddFrags, DeletePkgs, Unlink, AllUnlinked, Generate, Fail, End
  <1>4. CASE \E batch \in SeqOf(Rpm, MaxBatch) : StartUpload(q, batch)
    <2>1. /\ pc[q] = "idle" /\ pc'[q] = "receive" /\ snap'[q] = Listed
          /\ UNCHANGED <<got, index>>
      BY <1>2, <1>4 DEF StartUpload, Goto
    <2>2. Accepted(q)' = {}
      BY <1>1, <2>1 DEF Accepted, Checked
    <2> QED
      BY <2>1, <2>2 DEF Versions, Listed
  <1>5. CASE \E names \in SeqOf(Rpms, MaxBatch) : StartDelete(q, names)
    <2>1. pc[q] = "idle" /\ pc'[q] = "enter" /\ kind'[q] = "delete" /\ got' = got
      BY <1>2, <1>5 DEF StartDelete, Goto
    <2>2. Accepted(q)' = {}
      BY <1>1, <2>1 DEF Accepted, Checked
    <2> QED
      BY <2>1, <2>2 DEF Versions
  <1>6. CASE Refuse(q) \/ Generate(q) \/ Fail(q)
    <2>1. pc'[q] = "idle" /\ snap'[q] = {}
      BY <1>1, <1>6, Ends, Over DEF NamesInv
    <2> QED
      BY <2>1 DEF Versions
  <1>7. CASE OpenWriter(q) \/ EndOfBody(q) \/ Enter(q)
    <2>1. /\ pc[q] \in {"receive", "enter"} /\ pc'[q] \in {"stream", "enter", "add", "del"}
          /\ pc'[q] = "del" => kind[q] # "upload"
          /\ UNCHANGED <<got, todo, kind, snap, removed, index>>
      BY <1>2, <1>7 DEF OpenWriter, EndOfBody, Enter, Goto
    <2>2. Accepted(q)' = Accepted(q)
      BY <2>1 DEF Accepted
    <2>3. pc'[q] = "del" => ToSet(got[q]) = {}
      BY <1>1, <2>1, Request DEF Checked
    <2> QED
      BY <1>1, <1>3, <2>1, <2>2, <2>3 DEF Versions
  <1>8. CASE Received(q)
    <2> DEFINE rpm == Head(todo[q])
    <2>1. /\ pc[q] = "stream" /\ pc'[q] = "check" /\ Parsed[rpm[1]] # {}
          /\ removed'[q] = removed[q] \o SetToSeq(PreviousVersions(q, rpm[1]))
          /\ UNCHANGED <<todo, got, kind, snap, index>>
      BY <1>1, <1>2, <1>8 DEF Received, Goto
    <2>2. rpm[1] \in Rpms /\ RpmFilename(FileName[rpm[1]])
      BY <1>1, <2>1, NextIsNamed
    <2>3. ToSet(removed'[q]) = ToSet(removed[q])
                                 \union {k \in snap[q] : PackageOf[k] = PackageOf[rpm[1]] /\ k # rpm[1]}
      BY <1>1, <2>1, <2>2, Previous, SamePackage
    <2>4. Accepted(q)' = Accepted(q) \union {rpm}
      BY <2>1 DEF Accepted
    <2> QED
      BY <1>1, <1>3, <2>1, <2>3, <2>4 DEF Versions, Pkg
  <1>9. CASE Check(q)
    <2>1. /\ pc[q] = "check" /\ pc'[q] = "receive" /\ got'[q] = Append(got[q], Head(todo[q]))
          /\ UNCHANGED <<kind, snap, removed, index>>
      BY <1>2, <1>9 DEF Check, Goto
    <2>2. Accepted(q)' = Accepted(q)
      BY <1>1, <2>1, SetOfAppend, Request DEF Accepted
    <2> QED
      BY <1>1, <1>3, <2>1, <2>2 DEF Versions
  <1>10. CASE AddFrags(q)
    <2>1. /\ pc[q] = "add" /\ UNCHANGED <<got, todo, kind, snap, removed>>
          /\ pc'[q] = IF removed[q] = <<>> THEN "generate" ELSE "del"
      BY <1>2, <1>10 DEF AddFrags, Goto
    <2>2. Accepted(q) = ToSet(got[q]) /\ Accepted(q)' = Accepted(q)
      BY <2>1 DEF Accepted
    <2>3. ASSUME clean', NEW rpm \in ToSet(got[q])
          PROVE /\ index'[rpm[1]] # None
                /\ \A n \in Listed' : PackageOf[n] = Pkg(rpm) /\ n # rpm[1] =>
                       pc'[q] = "del" /\ n \in ToSet(removed[q])
      <3>1. index'[rpm[1]] # None
        BY <1>10, <2>3, Adds
      <3>2. kind[q] = "upload" /\ Pkg(rpm) \in own[q]
        BY <1>1, <2>2, AcceptedAreOwn, Request DEF Checked
      <3>3. ASSUME NEW n \in Listed', PackageOf[n] = Pkg(rpm), n # rpm[1]
            PROVE n \in ToSet(removed[q])
        <4>1. \A r \in ToSet(got[q]) : n # r[1]
          BY <1>1, <3>3, OneOfEach DEF Pkg
        <4>2. n \in Rpms /\ index[n] # None
          BY <1>10, <2>3, <3>3, <4>1, Adds DEF Listed
        <4>3. n \in snap[q]
          BY <1>1, <2>1, <3>2, <3>3, <4>2 DEF Versions
        <4> QED
          BY <1>1, <2>2, <3>3, <4>3 DEF Versions
      <3>4. ToSet(removed[q]) # {} => pc'[q] = "del"
        BY <1>1, <2>1
      <3> QED
        BY <3>1, <3>3, <3>4
    <2> QED
      BY <1>1, <2>1, <2>2, <2>3 DEF Versions
  <1>11. CASE DeletePkgs(q)
    <2>1. /\ pc[q] = "del" /\ pc'[q] = "unlink" /\ UNCHANGED <<got, kind, snap, removed>>
          /\ index' = [n \in Rpms |-> IF n \in ToSet(removed[q]) THEN None ELSE index[n]]
      BY <1>2, <1>11 DEF DeletePkgs, Goto
    <2>2. Accepted(q) = ToSet(got[q]) /\ Accepted(q)' = Accepted(q)
      BY <2>1 DEF Accepted
    <2>3. ASSUME clean', NEW rpm \in ToSet(got[q])
          PROVE /\ index'[rpm[1]] # None
                /\ \A n \in Listed' : ~(PackageOf[n] = Pkg(rpm) /\ n # rpm[1])
      <3>1. kind[q] = "upload" /\ rpm[1] \in Rpms
        BY <1>1, <2>2, AcceptedAreOwn, Request DEF Checked
      <3>2. rpm[1] \notin ToSet(removed[q])
        <4> SUFFICES ASSUME rpm[1] \in ToSet(removed[q]) PROVE FALSE
          OBVIOUS
        <4>1. PICK r \in ToSet(got[q]) : rpm[1] # r[1] /\ PackageOf[rpm[1]] = Pkg(r)
          BY <1>1, <2>2, <3>1 DEF Spares
        <4> QED
          BY <1>1, <4>1, OneOfEach DEF Pkg
      <3>3. \A n \in Listed' : n \in Listed /\ n \notin ToSet(removed[q])
        BY <2>1 DEF Listed
      <3> QED
        BY <1>1, <1>3, <2>1, <2>3, <3>1, <3>2, <3>3 DEF Versions
    <2> QED
      BY <1>1, <2>1, <2>2, <2>3 DEF Versions
  <1>12. CASE Unlink(q) \/ AllUnlinked(q)
    <2>1. /\ pc[q] = "unlink" /\ pc'[q] \in {"unlink", "generate"}
          /\ UNCHANGED <<got, kind, snap, removed, index>>
      BY <1>2, <1>12 DEF Unlink, AllUnlinked, Goto
    <2>2. Accepted(q)' = Accepted(q)
      BY <2>1 DEF Accepted
    <2>3. Listed' = Listed
      BY <2>1 DEF Listed
    <2> QED
      BY <1>1, <1>3, <2>1, <2>2, <2>3 DEF Versions
  <1> QED
    BY <1>4, <1>5, <1>6, <1>7, <1>8, <1>9, <1>10, <1>11, <1>12 DEF Step

\* A step of request q settles what it leaves: where the store and the cache were the
\* same, or differed because of q, they still are or do.
LEMMA ExactStepOfOne ==
    ASSUME ExactInv, NEW q \in Reqs, Step(q), clean',
           NEW n \in Rpms, Receivable(FileName[n]),
           store[Link[n]] = index[n] \/ Pending(q, n)
    PROVE store'[Link[n]] = index'[n] \/ Pending(q, n)'
  <1>1. /\ FilesInv /\ OwnInv /\ NamesInv /\ Checked(q) /\ Once(q) /\ FilesAround(q)
        /\ ToSet(<<>>) = {}
    BY DEF ExactInv, FilesInv, OwnInv, NamesInv, ToSet
  <1>2. /\ DOMAIN pc = Reqs /\ DOMAIN kind = Reqs /\ DOMAIN todo = Reqs
        /\ DOMAIN got = Reqs /\ DOMAIN removed = Reqs /\ DOMAIN missing = Reqs
    BY <1>1, Domains
  <1>3. CASE \/ \E batch \in SeqOf(Rpm, MaxBatch) : StartUpload(q, batch)
             \/ \E names \in SeqOf(Rpms, MaxBatch) : StartDelete(q, names)
    <2>1. pc[q] = "idle" /\ UNCHANGED <<store, index>>
      BY <1>3 DEF StartUpload, StartDelete
    <2> QED
      BY <2>1 DEF Pending
  <1>4. CASE OpenWriter(q) \/ Received(q)
    <2>1. /\ pc[q] \in {"receive", "stream"} /\ pc'[q] \in {"stream", "check"}
          /\ pc[q] = "stream" => pc'[q] = "check"
          /\ UNCHANGED <<todo, got, index>>
      BY <1>2, <1>4 DEF OpenWriter, Received, Goto
    <2>2. CASE n = Head(todo[q])[1]
      BY <2>1, <2>2 DEF Pending
    <2>3. CASE n # Head(todo[q])[1]
      <3>1. store'[Link[n]] = store[Link[n]]
        BY <1>1, <2>1, <2>3, StoreMoves DEF Unlink
      <3> QED
        BY <2>1, <2>3, <3>1 DEF Pending
    <2> QED
      BY <2>2, <2>3
  <1>5. CASE Refuse(q)
    <2>1. pc[q] = "receive" /\ got[q] = <<>> /\ UNCHANGED <<store, index>>
      BY <1>5 DEF Refuse
    <2> QED
      BY <1>1, <2>1 DEF Pending
  <1>6. CASE Check(q)
    <2>1. /\ pc[q] = "check" /\ pc'[q] = "receive" /\ got'[q] = Append(got[q], Head(todo[q]))
          /\ UNCHANGED <<store, index>>
      BY <1>2, <1>6 DEF Check, Goto
    <2>2. ToSet(got'[q]) = ToSet(got[q]) \union {Head(todo[q])}
      BY <1>1, <2>1, SetOfAppend, Request
    <2> QED
      BY <2>1, <2>2 DEF Pending
  <1>7. CASE EndOfBody(q) \/ Enter(q)
    <2>1. /\ pc[q] \in {"receive", "enter"} /\ pc'[q] \in {"enter", "add", "del"}
          /\ pc'[q] = "del" => kind[q] # "upload"
          /\ UNCHANGED <<got, store, index>>
      BY <1>2, <1>7 DEF EndOfBody, Enter, Goto
    <2>2. pc'[q] = "del" => ToSet(got[q]) = {}
      BY <1>1, <2>1, Request DEF Checked
    <2> QED
      BY <2>1, <2>2 DEF Pending
  <1>8. CASE AddFrags(q)
    <2>1. pc[q] = "add"
      BY <1>8 DEF AddFrags
    <2>2. CASE \E rpm \in ToSet(got[q]) : n = rpm[1]
      BY <1>8, <2>2, Adds
    <2>3. CASE ~\E rpm \in ToSet(got[q]) : n = rpm[1]
      BY <1>8, <2>1, <2>3, Adds DEF Pending
    <2> QED
      BY <2>2, <2>3
  <1>9. CASE DeletePkgs(q)
    <2>1. /\ pc[q] = "del" /\ pc'[q] = "unlink" /\ todo'[q] = removed[q] /\ store' = store
          /\ index' = [k \in Rpms |-> IF k \in ToSet(removed[q]) THEN None ELSE index[k]]
          /\ missing'[q] = NotFound(removed[q])
      BY <1>2, <1>9 DEF DeletePkgs, Goto
    <2>2. store[Link[n]] = index[n]
      BY <2>1 DEF Pending
    <2>3. CASE n \in ToSet(removed[q]) /\ n \in NotFound(removed[q])
      <3>1. PICK j \in DOMAIN removed[q] :
                /\ n = removed[q][j]
                /\ \/ index[n] = None
                   \/ \E k \in 1 .. j - 1 : removed[q][k] = removed[q][j]
        BY <2>3 DEF NotFound
      <3>2. ~\E k \in 1 .. j - 1 : removed[q][k] = removed[q][j]
        <4>1. \A k \in 1 .. j - 1 : k \in DOMAIN removed[q] /\ k # j
          BY <1>1, Request
        <4> QED
          BY <1>1, <4>1 DEF Once
      <3> QED
        BY <2>1, <2>2, <3>1, <3>2
    <2> QED
      BY <2>1, <2>2, <2>3 DEF Pending
  <1>10. CASE Unlink(q)
    <2>1. /\ pc[q] = "unlink" /\ pc' = pc /\ todo'[q] = Tail(todo[q]) /\ todo[q] # <<>>
          /\ UNCHANGED <<index, missing>> /\ todo[q] \in Seq(Rpms)
          /\ store' = IF Head(todo[q]) \in missing[q] THEN store
                      ELSE [store EXCEPT ![Link[Head(todo[q])]] = None]
      BY <1>1, <1>2, <1>10 DEF Unlink, Checked
    <2>2. ToSet(todo[q]) = {Head(todo[q])} \union ToSet(todo'[q])
      BY <2>1, SetOfTail
    <2>3. CASE n = Head(todo[q]) /\ n \notin missing[q]
      <3>1. index[n] = None
        BY <1>1, <2>1, <2>2, <2>3 DEF FilesAround
      <3>2. Link[n] \in DOMAIN store
        BY <1>1 DEF NamesInv, TypeOK, Links
      <3> QED
        BY <2>1, <2>3, <3>1, <3>2
    <2>4. CASE ~(n = Head(todo[q]) /\ n \notin missing[q])
      <3>1. store'[Link[n]] = store[Link[n]]
        BY <1>1, <2>1, <2>4, StoreMoves
      <3> QED
        BY <2>1, <2>2, <2>4, <3>1 DEF Pending
    <2> QED
      BY <2>3, <2>4
  <1>11. CASE AllUnlinked(q)
    <2>1. pc[q] = "unlink" /\ todo[q] = <<>> /\ UNCHANGED <<store, index>>
      BY <1>11 DEF AllUnlinked
    <2> QED
      BY <1>1, <2>1 DEF Pending
  <1>12. CASE Generate(q)
    BY <1>12 DEF Generate, Pending
  <1>13. CASE Fail(q)
    BY <1>13 DEF Fail
  <1> QED
    BY <1>3, <1>4, <1>5, <1>6, <1>7, <1>8, <1>9, <1>10, <1>11, <1>12, <1>13 DEF Step

\* ExactInv is inductive.
LEMMA ExactStep ==
    ASSUME WellNamed, ClientsApart, Tidy PROVE ExactInv /\ [Next]_vars => ExactInv'
  <1>1. ASSUME ExactInv, NEW q \in Reqs, Step(q) PROVE ExactInv'
    <2>1. FilesInv /\ OwnInv /\ NamesInv /\ FilesInv'
      BY <1>1, FilesStep DEF ExactInv, FilesInv, OwnInv, Next
    <2>2. ASSUME NEW p \in Reqs, p # q
          PROVE /\ Once(p)' /\ Published(p)' /\ Versions(p)'
                /\ \A n \in Rpms : Pending(p, n)' = Pending(p, n)
      <3>1. UNCHANGED <<own, pc[p], kind[p], todo[p], snap[p], got[p], removed[p], missing[p]>>
        BY <1>1, <2>1, <2>2, OneAtATime DEF NamesInv
      <3>2. /\ Accepted(p)' = Accepted(p) /\ Once(p) /\ Published(p) /\ Versions(p)
            /\ clean' => clean
        BY <1>1, <3>1, CleanMoves DEF Accepted, ExactInv
      <3>3. \A rpm \in Accepted(p) : /\ rpm[1] \in Rpms /\ Receivable(FileName[rpm[1]])
                                     /\ PackageOf[rpm[1]] \in own[p]
        BY <2>1, AcceptedAreOwn DEF RpmFilename, Pkg
      <3>4. \A n \in Rpms : PackageOf[n] \in own[p] => index'[n] = index[n]
        BY <1>1, <2>1, <2>2, NotMine
      <3>5. \A rpm \in Accepted(p) : store'[Link[rpm[1]]] = store[Link[rpm[1]]]
        BY <1>1, <2>1, <2>2, <3>3, NotMine
      <3>6. Once(p)' /\ Published(p)'
        BY <3>1, <3>2, <3>5 DEF Once, Published
      <3>7. Versions(p)'
        <4>1. ToSet(got[p]) \subseteq Accepted(p)
          BY DEF Accepted
        <4>2. \A n \in Listed' : PackageOf[n] \in own[p] => n \in Listed
          BY <3>4 DEF Listed
        <4>3. kind[p] = "upload" /\ pc[p] \in {"receive", "stream", "check", "enter", "add"} =>
                  \A n \in Rpms : PackageOf[n] \in own[p] => (n \in snap[p] <=> index'[n] # None)
          BY <3>2, <3>4 DEF Versions
        <4>4. clean' /\ pc[p] \in {"del", "unlink", "generate"} =>
                  \A rpm \in ToSet(got[p]) :
                      /\ index'[rpm[1]] # None
                      /\ \A n \in Listed' : PackageOf[n] = Pkg(rpm) /\ n # rpm[1] =>
                             pc[p] = "del" /\ n \in ToSet(removed[p])
          BY <3>2, <3>3, <3>4, <4>1, <4>2 DEF Versions, Pkg
        <4> QED
          BY <3>1, <3>2, <4>3, <4>4 DEF Versions
      <3>8. \A n \in Rpms : Pending(p, n)' = Pending(p, n)
        BY <3>1 DEF Pending
      <3> QED
        BY <3>6, <3>7, <3>8
    <2>3. Once(q)' /\ Published(q)' /\ Versions(q)'
      BY <1>1, <2>1, OnceStepOfOne, PublishedStepOfOne, VersionsStepOfOne DEF ExactInv
    <2>4. Exact'
      <3> SUFFICES ASSUME clean', NEW n \in Rpms, Receivable(FileName[n])
                   PROVE store'[Link[n]] = index'[n] \/ \E p \in Reqs : Pending(p, n)'
        BY DEF Exact
      <3>1. store[Link[n]] = index[n] \/ \E p \in Reqs : Pending(p, n)
        BY <1>1, CleanMoves DEF ExactInv, Exact
      <3>2. CASE store[Link[n]] = index[n] \/ Pending(q, n)
        BY <1>1, <3>2, ExactStepOfOne
      <3>3. CASE \E p \in Reqs : p # q /\ Pending(p, n)
        BY <2>2, <3>3
      <3> QED
        BY <3>1, <3>2, <3>3
    <2>5. \A p \in Reqs : Once(p)' /\ Published(p)' /\ Versions(p)'
      BY <2>2, <2>3
    <2> QED
      BY <2>1, <2>4, <2>5 DEF ExactInv
  <1>2. ASSUME ExactInv, UNCHANGED vars PROVE ExactInv'
    <2>1. FilesInv'
      BY <1>2, FilesStep DEF ExactInv
    <2>2. Exact'
      BY <1>2 DEF vars, ExactInv, Exact, Pending
    <2>3. ASSUME NEW p \in Reqs PROVE Once(p)' /\ Published(p)' /\ Versions(p)'
      BY <1>2 DEF vars, ExactInv, Once, Published, Versions, Accepted, Listed
    <2> QED
      BY <2>1, <2>2, <2>3 DEF ExactInv
  <1> QED
    BY <1>1, <1>2 DEF Next

\* It holds at the start ...
LEMMA ExactInit == Init => ExactInv
  <1> SUFFICES ASSUME Init PROVE ExactInv
    OBVIOUS
  <1>1. ToSet(<<>>) = {}
    BY DEF ToSet
  <1>2. Exact
    BY DEF Init, Exact, Links
  <1>3. ASSUME NEW q \in Reqs PROVE Once(q) /\ Published(q) /\ Versions(q)
    BY <1>1 DEF Init, Once, Published, Versions, Accepted
  <1> QED
    BY <1>2, <1>3, FilesInit DEF ExactInv

\* ... and throughout.
LEMMA ExactInvariant == ASSUME WellNamed, ClientsApart, Tidy PROVE Spec => []ExactInv
  BY ExactInit, ExactStep, PTL DEF Spec

\* As long as nothing fails, when no request is under way the store holds the files
\* that the cache lists, with their checksums, and no others.
THEOREM QuietStoreIsExact ==
    ASSUME WellNamed, ClientsApart, Tidy PROVE Spec => []QuietIsExact
  <1>1. ASSUME ExactInv PROVE QuietIsExact
    <2> SUFFICES ASSUME clean, \A q \in Reqs : pc[q] = "idle", NEW l \in Links
                 PROVE \E n \in Rpms : l = Link[n] /\ store[l] = index[n]
      BY DEF QuietIsExact
    <2>1. PICK n \in Rpms : Receivable(FileName[n]) /\ l = Link[n]
      BY DEF Links
    <2>2. ~\E q \in Reqs : Pending(q, n)
      BY DEF Pending
    <2> QED
      BY <1>1, <2>1, <2>2 DEF ExactInv, Exact
  <1> QED
    BY <1>1, ExactInvariant, PTL

\* As long as nothing fails, an upload that is about to be acknowledged has left one
\* version of each of its packages in the cache: the one it received.
THEOREM UploadsReplace ==
    ASSUME WellNamed, ClientsApart, Tidy PROVE Spec => []UploadReplaces
  <1>1. ASSUME ExactInv PROVE UploadReplaces
    <2> SUFFICES ASSUME clean, NEW q \in Reqs, pc[q] = "generate", NEW i \in DOMAIN got[q]
                 PROVE {n \in Listed : PackageOf[n] = PackageOf[got[q][i][1]]} = {got[q][i][1]}
      BY DEF UploadReplaces
    <2> DEFINE rpm == got[q][i]
    <2>1. rpm \in ToSet(got[q]) /\ rpm[1] \in Rpms
      BY <1>1, AcceptedAreOwn DEF ToSet, Accepted, ExactInv, FilesInv
    <2>2. /\ index[rpm[1]] # None
          /\ \A n \in Listed : ~(PackageOf[n] = Pkg(rpm) /\ n # rpm[1])
      BY <1>1, <2>1 DEF ExactInv, Versions
    <2> QED
      BY <2>1, <2>2 DEF Listed, Pkg
  <1> QED
    BY <1>1, ExactInvariant, PTL

-------------------------------------------------------------------------------
(* Uploads and deletions as single steps.                                    *)

\* What another request asks for, and how far it is, does not change, ...
LEMMA SentElsewhere ==
    ASSUME NamesInv, NEW q \in Reqs, Step(q)
    PROVE /\ Sent' = [Sent EXCEPT ![q] = Sent'[q]]
          /\ Named' = [Named EXCEPT ![q] = Named'[q]]
          /\ Phase' = [Phase EXCEPT ![q] = Phase'[q]]
          /\ Sent'[q] = Sent[q] => Sent' = Sent
          /\ Named'[q] = Named[q] => Named' = Named
          /\ Phase'[q] = Phase[q] => Phase' = Phase
  <1>1. \A p \in Reqs : p # q =>
            UNCHANGED <<pc[p], kind[p], todo[p], got[p], removed[p]>>
    BY OneAtATime DEF NamesInv
  <1>2. \A p \in Reqs : p # q => Sent'[p] = Sent[p]
    BY <1>1 DEF Sent
  <1>3. \A p \in Reqs : p # q => Named'[p] = Named[p]
    BY <1>1 DEF Named
  <1>4. \A p \in Reqs : p # q => Phase'[p] = Phase[p]
    BY <1>1 DEF Phase
  <1>5. /\ Sent = [p \in Reqs |-> Sent[p]] /\ Sent' = [p \in Reqs |-> Sent'[p]]
        /\ Named = [p \in Reqs |-> Named[p]] /\ Named' = [p \in Reqs |-> Named'[p]]
        /\ Phase = [p \in Reqs |-> Phase[p]] /\ Phase' = [p \in Reqs |-> Phase'[p]]
    BY DEF Sent, Named, Phase
  <1> QED
    BY <1>2, <1>3, <1>4, <1>5

\* ... nor does what clients see, until a request takes effect or fails.
LEMMA SeenStays ==
    ASSUME NamesInv, NEW q \in Reqs, Step(q), index' = index,
           q \notin Deleting, q \notin Deleting'
    PROVE Seen' = Seen
  <1>1. \A p \in Reqs : p # q => UNCHANGED <<pc[p], kind[p], removed[p]>>
    BY OneAtATime DEF NamesInv
  <1>2. \A p \in Reqs : p \in Deleting' <=> p \in Deleting
    BY <1>1 DEF Deleting
  <1>3. Deleting \subseteq Reqs /\ Deleting' \subseteq Reqs
    BY DEF Deleting
  <1>4. \A p \in Deleting : removed'[p] = removed[p]
    BY <1>1, <1>3
  <1>5. Deleting' = Deleting
    BY <1>2, <1>3
  <1> QED
    BY <1>4, <1>5 DEF Seen

\* Only one request at a time has anything to hide.
LEMMA OneDeletes ==
    ASSUME NamesInv, NEW q \in Reqs, pc[q] \in InClosure
    PROVE Deleting = IF pc[q] = "del" /\ kind[q] = "upload" THEN {q} ELSE {}
  <1>1. \A p \in Reqs : pc[p] \in InClosure => p = q
    BY DEF NamesInv, TypeOK, InClosure
  <1>2. \A p \in Deleting : p \in Reqs /\ pc[p] \in InClosure /\ pc[p] = "del" /\ kind[p] = "upload"
    BY DEF Deleting, InClosure
  <1>3. \A p \in Deleting : p = q
    BY <1>1, <1>2
  <1> QED
    BY <1>2, <1>3 DEF Deleting

\* What a request is asked for when it arrives.
LEMMA Asks ==
    ASSUME Tidy, NamesInv, NEW q \in Reqs, Step(q), pc[q] = "idle"
    PROVE Store!AskUpload(q) \/ Store!AskDelete(q)
  <1>1. /\ DOMAIN pc = Reqs /\ DOMAIN kind = Reqs /\ DOMAIN todo = Reqs /\ DOMAIN got = Reqs
        /\ DOMAIN removed = Reqs
    BY Domains
  <1>2. got[q] = <<>> /\ removed[q] = <<>> /\ kind[q] = "upload" /\ ToSet(<<>>) = {}
    BY DEF NamesInv, Checked, ToSet
  <1>3. Sent[q] = {} /\ Named[q] = {} /\ Phase[q] = "idle"
    BY <1>2 DEF Sent, Named, Phase
  <1>4. ASSUME NEW batch \in SeqOf(Rpm, MaxBatch), StartUpload(q, batch)
        PROVE Store!AskUpload(q)
    <2>1. /\ pc'[q] = "receive" /\ todo'[q] = batch /\ UNCHANGED <<index, kind, got, removed>>
          /\ May(q, [i \in DOMAIN batch |-> batch[i][1]])
      BY <1>1, <1>4 DEF StartUpload, Goto
    <2>2. batch \in Seq(Rpm)
      BY UploadAssumption, Batches
    <2>3. Sent'[q] = ToSet(batch) /\ Named'[q] = Named[q] /\ Phase'[q] = "asked"
      BY <1>2, <2>1 DEF Sent, Named, Phase
    <2>4. ToSet(batch) \subseteq Rpms \X Bytes
      BY <2>2, SetOfSeq DEF Rpm
    <2>5. \A i, j \in DOMAIN batch : PackageOf[batch[i][1]] = PackageOf[batch[j][1]] => i = j
      BY <2>1 DEF May
    <2>6. \A r, s \in ToSet(batch) : PackageOf[r[1]] = PackageOf[s[1]] => r = s
      BY <2>5 DEF ToSet
    <2>7. ToSet(batch) \in Store!Batches
      BY <2>4, <2>6 DEF Store!Batches
    <2>8. Seen' = Seen
      BY <2>1, SeenStays DEF Deleting
    <2>9. Named' = Named /\ Sent' = [Sent EXCEPT ![q] = ToSet(batch)]
          /\ Phase' = [Phase EXCEPT ![q] = "asked"]
      BY <2>3, SentElsewhere DEF Named
    <2> QED
      BY <1>3, <2>7, <2>8, <2>9 DEF Store!AskUpload, Store!Asked
  <1>5. ASSUME NEW names \in SeqOf(Rpms, MaxBatch), StartDelete(q, names)
        PROVE Store!AskDelete(q)
    <2>1. /\ pc'[q] = "enter" /\ kind'[q] = "delete" /\ removed'[q] = names
          /\ UNCHANGED <<index, got>>
      BY <1>1, <1>5 DEF StartDelete, Goto
    <2>2. names \in Seq(Rpms)
      BY UploadAssumption, Batches
    <2>3. Sent'[q] = Sent[q] /\ Named'[q] = ToSet(names) /\ Phase'[q] = "asked"
      BY <1>2, <1>3, <2>1 DEF Sent, Named, Phase
    <2>4. ToSet(names) \in SUBSET Rpms
      BY <2>2, SetOfSeq
    <2>5. Seen' = Seen
      BY <2>1, SeenStays DEF Deleting
    <2>6. Sent' = Sent /\ Named' = [Named EXCEPT ![q] = ToSet(names)]
          /\ Phase' = [Phase EXCEPT ![q] = "asked"]
      BY <2>3, SentElsewhere DEF Sent
    <2> QED
      BY <1>3, <2>4, <2>5, <2>6 DEF Store!AskDelete, Store!Asked
  <1> QED
    BY <1>4, <1>5 DEF Step, OpenWriter, Received, Refuse, Check, EndOfBody, Enter, AddFrags,
       DeletePkgs, Unlink, AllUnlinked, Generate, Fail, NamesInv, Checked

\* Receiving, and working through the store, changes nothing that clients see.
LEMMA Works ==
    ASSUME NamesInv, NEW q \in Reqs, Step(q),
           \/ OpenWriter(q) \/ Received(q) \/ Check(q) \/ EndOfBody(q) \/ Enter(q)
           \/ Unlink(q) \/ AllUnlinked(q)
    PROVE UNCHANGED <<Seen, Sent, Named, Phase>>
  <1>1. /\ DOMAIN pc = Reqs /\ DOMAIN todo = Reqs /\ DOMAIN got = Reqs /\ Checked(q)
        /\ ToSet(<<>>) = {} /\ got[q] \in Seq(Rpm)
    BY Domains, Request DEF NamesInv, ToSet
  <1>2. index' = index /\ kind' = kind
    BY DEF OpenWriter, Received, Check, EndOfBody, Enter, Unlink, AllUnlinked
  <1>3. Seen' = Seen
    BY <1>1, <1>2, SeenStays DEF Deleting, OpenWriter, Received, Check, EndOfBody, Enter, Unlink,
       AllUnlinked, Goto
  <1>4. Phase'[q] = Phase[q]
    <2>1. \/ /\ pc[q] \in {"receive", "stream", "check", "enter"}
             /\ \/ pc'[q] \in {"receive", "stream", "check", "enter", "add"}
                \/ pc'[q] = "del" /\ kind[q] # "upload"
          \/ pc[q] = "unlink" /\ pc'[q] \in {"unlink", "generate"}
      BY <1>1 DEF OpenWriter, Received, Check, EndOfBody, Enter, Unlink, AllUnlinked, Goto
    <2>2. kind[q] \in {"upload", "delete"}
      BY Request
    <2> QED
      BY <1>2, <2>1, <2>2 DEF Phase
  <1>5. Named'[q] = Named[q]
    BY <1>1, <1>2 DEF Named, OpenWriter, Received, Check, EndOfBody, Enter, Unlink, AllUnlinked, Goto,
       Checked
  <1>6. Sent'[q] = Sent[q]
    <2>1. CASE Check(q)
      <3>1. /\ pc[q] = "check" /\ pc'[q] = "receive" /\ got'[q] = Append(got[q], Head(todo[q]))
            /\ todo'[q] = Tail(todo[q]) /\ todo[q] \in Seq(Rpm) /\ todo[q] # <<>>
        BY <1>1, <2>1 DEF Check, Goto, Checked
      <3>2. Head(todo[q]) \in Rpm /\ ToSet(todo[q]) = {Head(todo[q])} \union ToSet(todo'[q])
        BY <3>1, SetOfTail
      <3>3. ToSet(got'[q]) = ToSet(got[q]) \union {Head(todo[q])}
        BY <1>1, <3>1, <3>2, SetOfAppend
      <3> QED
        BY <3>1, <3>2, <3>3 DEF Sent
    <2>2. CASE EndOfBody(q)
      BY <1>1, <2>2 DEF EndOfBody, Goto, Sent
    <2>3. CASE OpenWriter(q) \/ Received(q) \/ Enter(q) \/ Unlink(q) \/ AllUnlinked(q)
      BY <1>1, <2>3 DEF OpenWriter, Received, Enter, Unlink, AllUnlinked, Goto, Sent
    <2> QED
      BY <2>1, <2>2, <2>3
  <1> QED
    BY <1>3, <1>4, <1>5, <1>6, SentElsewhere

\* When an upload adds what it received, nothing is left but the rpms it removes that
\* is another version of its packages; and it does not remove what it adds.
LEMMA RemovesTheOthers ==
    ASSUME ExactInv, NEW q \in Reqs, pc[q] = "add"
    PROVE /\ kind[q] = "upload"
          /\ \A n \in ToSet(removed[q]) : Store!Superseded(n, ToSet(got[q]))
          /\ \A n \in Listed : Store!Superseded(n, ToSet(got[q])) => n \in ToSet(removed[q])
  <1>1. /\ NamesInv /\ Spares(q) /\ Versions(q) /\ KeepsToItsOwn(q) /\ Accepted(q) = ToSet(got[q])
    BY DEF ExactInv, FilesInv, OwnInv, Accepted
  <1>2. kind[q] = "upload"
    BY <1>1, Request DEF NamesInv, Checked
  <1>3. ASSUME NEW n \in ToSet(removed[q]) PROVE Store!Superseded(n, ToSet(got[q]))
    BY <1>1, <1>2, <1>3 DEF Spares, Store!Superseded, Pkg
  <1>4. ASSUME NEW n \in Listed, Store!Superseded(n, ToSet(got[q])) PROVE n \in ToSet(removed[q])
    <2>1. PICK rpm \in ToSet(got[q]) : n # rpm[1] /\ PackageOf[n] = Pkg(rpm)
      BY <1>4 DEF Store!Superseded, Pkg
    <2>2. n \in Rpms /\ index[n] # None /\ PackageOf[n] \in own[q]
      BY <1>1, <2>1 DEF Listed, KeepsToItsOwn
    <2>3. n \in snap[q]
      BY <1>1, <1>2, <2>2 DEF Versions
    <2> QED
      BY <1>1, <2>1, <2>3 DEF Versions
  <1> QED
    BY <1>2, <1>3, <1>4

\* What clients see when no request has anything to hide, or just this one.
LEMMA Sees ==
    ASSUME NamesInv, NEW q \in Reqs, pc[q] \in InClosure, NEW n \in Rpms
    PROVE Seen[n] = IF pc[q] = "del" /\ kind[q] = "upload" /\ n \in ToSet(removed[q])
                    THEN None ELSE index[n]
  BY OneDeletes DEF Seen

\* The same after a step.
LEMMA SeesThen ==
    ASSUME NamesInv, NEW q \in Reqs, Step(q), pc[q] \in InClosure, NEW n \in Rpms
    PROVE Seen'[n] = IF pc'[q] = "del" /\ kind'[q] = "upload" /\ n \in ToSet(removed'[q])
                     THEN None ELSE index'[n]
  <1>1. \A p \in Reqs : p # q => pc'[p] = pc[p] /\ pc[p] \notin InClosure
    BY OneAtATime DEF NamesInv, TypeOK, InClosure
  <1>2. \A p \in Deleting' : p \in Reqs /\ pc'[p] = "del"
    BY DEF Deleting
  <1>3. \A p \in Deleting' : p = q
    BY <1>1, <1>2 DEF InClosure
  <1>4. q \in Deleting' <=> pc'[q] = "del" /\ kind'[q] = "upload"
    BY DEF Deleting
  <1>5. Seen'[n] = IF \E p \in Deleting' : n \in ToSet(removed'[p]) THEN None ELSE index'[n]
    BY DEF Seen
  <1> QED
    BY <1>3, <1>4, <1>5

\* What is listed has a content, before and after.
LEMMA SeenIsTyped == ASSUME NamesInv, NamesInv' PROVE Seen' \in [Rpms -> Bytes \union {None}]
  <1>1. index' \in [Rpms -> Bytes \union {None}]
    BY DEF NamesInv, TypeOK
  <1> QED
    BY <1>1 DEF Seen

\* Adding what was received is the moment at which an upload takes effect.
LEMMA AddingApplies ==
    ASSUME ExactInv, NamesInv', NEW q \in Reqs, Step(q), AddFrags(q)
    PROVE Store!Apply(q)
  <1>1. /\ NamesInv /\ Once(q) /\ OwnInv /\ Accepted(q) = ToSet(got[q]) /\ ToSet(<<>>) = {}
        /\ pc[q] = "add" /\ kind[q] = "upload" /\ DOMAIN pc = Reqs
    BY RemovesTheOthers, Domains DEF ExactInv, FilesInv, OwnInv, AddFrags, Accepted, ToSet
  <1>2. /\ UNCHANGED <<kind, got, removed>> /\ pc'[q] \in {"generate", "del"}
        /\ pc'[q] # "del" => removed[q] = <<>>
    BY <1>1 DEF AddFrags, Goto
  <1>3. /\ Sent[q] = ToSet(got[q]) /\ Sent'[q] = Sent[q]
        /\ Named[q] = {} /\ Named'[q] = {}
        /\ Phase[q] = "asked" /\ Phase'[q] = "applied"
    BY <1>1, <1>2 DEF Sent, Named, Phase
  <1>4. Sent' = Sent /\ Named' = Named /\ Phase' = [Phase EXCEPT ![q] = "applied"]
    BY <1>1, <1>3, SentElsewhere
  <1>5. PICK bad \in SUBSET ToSet(got[q]) :
            /\ bad # {} => MayFail
            /\ index' = [n \in Rpms |->
                  IF \E b \in Bytes : <<n, b>> \in ToSet(got[q]) \ bad
                  THEN CHOOSE b \in Bytes : <<n, b>> \in ToSet(got[q]) \ bad
                  ELSE index[n]]
    BY DEF AddFrags
  <1>6. \A n \in Rpms : Seen[n] = index[n]
    BY <1>1, Sees DEF InClosure
  <1>7. \A n \in Rpms : Seen'[n] = IF n \in ToSet(removed[q]) THEN None ELSE index'[n]
    BY <1>1, <1>2, SeesThen DEF InClosure
  <1>8. \A r \in ToSet(got[q]) : r[1] \in Rpms /\ r[2] \in Bytes /\ r = <<r[1], r[2]>>
    BY <1>1, AcceptedAreOwn DEF Rpm
  <1>9. ASSUME NEW n \in Rpms, Store!Superseded(n, ToSet(got[q])) PROVE Seen'[n] = None
    <2>1. CASE n \in ToSet(removed[q])
      BY <1>7, <2>1
    <2>2. CASE n \notin ToSet(removed[q])
      <3>1. index[n] = None
        BY <1>1, <1>9, <2>2, RemovesTheOthers DEF Listed
      <3>2. PICK r \in ToSet(got[q]) : n # r[1] /\ PackageOf[n] = Pkg(r)
        BY <1>9 DEF Store!Superseded, Pkg
      <3>3. \A s \in ToSet(got[q]) : n # s[1]
        BY <1>1, <3>2, OneOfEach DEF Pkg
      <3>4. index'[n] = index[n]
        BY <1>5, <1>8, <3>3
      <3> QED
        BY <1>7, <2>2, <3>1, <3>4
    <2> QED
      BY <2>1, <2>2
  <1>10. ASSUME NEW n \in Rpms, ~Store!Superseded(n, ToSet(got[q]))
         PROVE Seen'[n] = index'[n]
    BY <1>1, <1>7, <1>10, RemovesTheOthers
  <1>11. ASSUME NEW n \in Rpms, NEW r \in ToSet(got[q]) \ bad, n = r[1]
         PROVE <<n, index'[n]>> \in ToSet(got[q])
    <2>1. \E b \in Bytes : <<n, b>> \in ToSet(got[q]) \ bad
      BY <1>8, <1>11
    <2>2. index'[n] = CHOOSE b \in Bytes : <<n, b>> \in ToSet(got[q]) \ bad
      BY <1>5, <2>1
    <2> QED
      BY <2>1, <2>2
  <1>12. ASSUME NEW n \in Rpms, ~\E r \in ToSet(got[q]) \ bad : n = r[1]
         PROVE index'[n] = Seen[n]
    BY <1>5, <1>6, <1>8, <1>12
  <1>13. Seen' \in [Rpms -> Bytes \union {None}]
    BY <1>1, SeenIsTyped
  <1>14. \A n \in Rpms :
            IF n \in Named[q] \/ Store!Superseded(n, Sent[q]) THEN Seen'[n] = None
            ELSE IF \E r \in Sent[q] \ bad : n = r[1] THEN <<n, Seen'[n]>> \in Sent[q]
            ELSE Seen'[n] = Seen[n]
    BY <1>3, <1>9, <1>10, <1>11, <1>12
  <1>15. bad \in SUBSET Sent[q] /\ (bad # {} => MayFail)
    BY <1>3, <1>5
  <1> QED
    BY <1>3, <1>4, <1>13, <1>14, <1>15 DEF Store!Apply

\* Deleting is the moment for a deletion; an upload has had it then.
LEMMA DeletingApplies ==
    ASSUME NamesInv, NamesInv', NEW q \in Reqs, Step(q), DeletePkgs(q)
    PROVE \/ Store!Apply(q)
          \/ UNCHANGED <<Seen, Sent, Named, Phase>>
  <1>1. /\ Checked(q) /\ ToSet(<<>>) = {} /\ DOMAIN pc = Reqs
        /\ pc[q] = "del" /\ kind[q] \in {"upload", "delete"}
    BY Domains, Request DEF DeletePkgs, NamesInv, ToSet
  <1>2. UNCHANGED <<kind, got, removed>> /\ pc'[q] = "unlink"
    BY <1>1 DEF DeletePkgs, Goto
  <1>3. \A n \in Rpms : index'[n] = IF n \in ToSet(removed[q]) THEN None ELSE index[n]
    BY DEF DeletePkgs
  <1>4. \A n \in Rpms : Seen'[n] = index'[n]
    BY <1>1, <1>2, SeesThen DEF InClosure
  <1>5. /\ Sent[q] = ToSet(got[q]) /\ Sent'[q] = Sent[q] /\ Named'[q] = Named[q]
        /\ Phase'[q] = "applied"
    BY <1>1, <1>2 DEF Sent, Named, Phase
  <1>6. Sent' = Sent /\ Named' = Named /\ Phase' = [Phase EXCEPT ![q] = "applied"]
    BY <1>5, SentElsewhere
  <1>7. CASE kind[q] = "upload"
    <2>1. \A n \in Rpms : Seen[n] = IF n \in ToSet(removed[q]) THEN None ELSE index[n]
      BY <1>1, <1>7, Sees DEF InClosure
    <2>2. \A n \in Rpms : Seen'[n] = Seen[n]
      BY <1>3, <1>4, <2>1
    <2>3. Seen' = Seen
      BY <2>2 DEF Seen
    <2>4. Phase[q] = "applied" /\ Phase = [p \in Reqs |-> Phase[p]]
      BY <1>1, <1>7 DEF Phase
    <2>5. Phase' = Phase
      BY <1>6, <2>4
    <2> QED
      BY <1>6, <2>3, <2>5
  <1>8. CASE kind[q] = "delete"
    <2>1. \A n \in Rpms : Seen[n] = index[n]
      BY <1>1, <1>8, Sees DEF InClosure
    <2>2. Phase[q] = "asked" /\ Named[q] = ToSet(removed[q]) /\ Sent[q] = {}
      BY <1>1, <1>5, <1>8 DEF Phase, Named, Checked
    <2>3. \A n \in Rpms : ~Store!Superseded(n, {})
      BY DEF Store!Superseded
    <2>4. Seen' \in [Rpms -> Bytes \union {None}]
      BY SeenIsTyped
    <2>5. \A n \in Rpms :
            IF n \in Named[q] \/ Store!Superseded(n, Sent[q]) THEN Seen'[n] = None
            ELSE IF \E r \in Sent[q] \ {} : n = r[1] THEN <<n, Seen'[n]>> \in Sent[q]
            ELSE Seen'[n] = Seen[n]
      BY <1>3, <1>4, <2>1, <2>2, <2>3
    <2> QED
      BY <1>6, <2>2, <2>4, <2>5 DEF Store!Apply
  <1> QED
    BY <1>1, <1>7, <1>8

\* A request that is over: it has had its effect, or has none; or it failed between
\* adding its rpms and deleting the older ones.
LEMMA EndingsAnswer ==
    ASSUME OwnInv, NamesInv', NEW q \in Reqs, Step(q), pc[q] # "idle",
           Refuse(q) \/ Generate(q) \/ Fail(q)
    PROVE Store!Answer(q) \/ Store!Decline(q) \/ Store!Abort(q)
  <1>1. /\ NamesInv /\ Spares(q) /\ index' = index /\ DOMAIN pc = Reqs
        /\ pc[q] \in {"receive", "stream", "check", "enter", "add", "del", "unlink", "generate"}
    BY DEF OwnInv, NamesInv, TypeOK, Refuse, Generate, Fail
  <1>2. /\ pc'[q] = "idle" /\ kind'[q] = "upload"
        /\ ToSet(got'[q]) = {} /\ ToSet(removed'[q]) = {}
    BY <1>1, Ends, Over DEF NamesInv
  <1>3. Sent'[q] = {} /\ Named'[q] = {} /\ Phase'[q] = "idle"
    BY <1>2 DEF Sent, Named, Phase
  <1>4. Phase[q] \in {"asked", "applied"}
    BY <1>1 DEF Phase
  <1>5. Store!Over(q)
    BY <1>3, <1>4, SentElsewhere, <1>1 DEF Store!Over
  <1>6. CASE q \notin Deleting
    <2>1. Seen' = Seen
      BY <1>1, <1>2, <1>6, SeenStays DEF Deleting
    <2> QED
      BY <1>4, <1>5, <2>1 DEF Store!Answer, Store!Decline
  <1>7. CASE q \in Deleting
    <2>1. pc[q] = "del" /\ kind[q] = "upload" /\ Fail(q)
      BY <1>7 DEF Deleting, Refuse, Generate
    <2>2. Sent[q] = ToSet(got[q]) /\ Accepted(q) = ToSet(got[q]) /\ Phase[q] = "applied"
      BY <2>1 DEF Sent, Phase, Accepted
    <2>3. ASSUME NEW n \in Rpms, Seen'[n] # Seen[n]
          PROVE Store!Superseded(n, Sent[q]) /\ Seen[n] = None
      <3>1. Seen[n] = IF n \in ToSet(removed[q]) THEN None ELSE index[n]
        BY <1>1, <2>1, Sees DEF InClosure
      <3>2. Seen'[n] = index[n]
        BY <1>1, <1>2, <2>1, SeesThen DEF InClosure
      <3>3. n \in ToSet(removed[q]) /\ Seen[n] = None
        BY <2>3, <3>1, <3>2
      <3>4. \E r \in ToSet(got[q]) : n # r[1] /\ PackageOf[n] = Pkg(r)
        BY <1>1, <2>1, <2>2, <3>3 DEF Spares
      <3> QED
        BY <2>2, <3>3, <3>4 DEF Store!Superseded, Pkg
    <2>4. Seen' \in [Rpms -> Bytes \union {None}]
      BY <1>1, SeenIsTyped
    <2>5. MayFail
      BY <2>1 DEF Fail
    <2> QED
      BY <1>5, <2>2, <2>3, <2>4, <2>5 DEF Store!Abort
  <1> QED
    BY <1>6, <1>7

\* Every step is one of the abstract store, or changes nothing there.
LEMMA StoreStep ==
    ASSUME WellNamed, ClientsApart, Tidy
    PROVE ExactInv /\ [Next]_vars => [Store!PNext]_(Store!pvars)
  <1>1. ASSUME ExactInv, NEW q \in Reqs, Step(q) PROVE [Store!PNext]_(Store!pvars)
    <2>1. NamesInv /\ OwnInv /\ NamesInv'
      BY <1>1, NamesStep DEF ExactInv, FilesInv, OwnInv, Next
    <2>2. CASE pc[q] = "idle"
      BY <1>1, <2>1, <2>2, Asks DEF Store!PNext
    <2>3. CASE AddFrags(q)
      BY <1>1, <2>1, <2>3, AddingApplies DEF Store!PNext
    <2>4. CASE DeletePkgs(q)
      BY <1>1, <2>1, <2>4, DeletingApplies DEF Store!PNext, Store!pvars
    <2>5. CASE pc[q] # "idle" /\ (Refuse(q) \/ Generate(q) \/ Fail(q))
      BY <1>1, <2>1, <2>5, EndingsAnswer DEF Store!PNext
    <2>6. CASE \/ OpenWriter(q) \/ Received(q) \/ Check(q) \/ EndOfBody(q) \/ Enter(q)
               \/ Unlink(q) \/ AllUnlinked(q)
      BY <1>1, <2>1, <2>6, Works DEF Store!pvars
    <2>7. \/ pc[q] = "idle" \/ AddFrags(q) \/ DeletePkgs(q) \/ Refuse(q) \/ Generate(q) \/ Fail(q)
          \/ OpenWriter(q) \/ Received(q) \/ Check(q) \/ EndOfBody(q) \/ Enter(q)
          \/ Unlink(q) \/ AllUnlinked(q)
      BY <1>1 DEF Step, StartUpload, StartDelete
    <2> QED
      BY <2>2, <2>3, <2>4, <2>5, <2>6, <2>7
  <1>2. ASSUME UNCHANGED vars PROVE [Store!PNext]_(Store!pvars)
    <2>1. UNCHANGED <<Seen, Sent, Named, Phase>>
      BY <1>2 DEF vars, Seen, Deleting, Sent, Named, Phase
    <2> QED
      BY <2>1 DEF Store!pvars
  <1> QED
    BY <1>1, <1>2 DEF Next

\* At the start nothing is listed and nothing asked.
LEMMA StoreInit == Init => Store!PInit
  <1> SUFFICES ASSUME Init PROVE Store!PInit
    OBVIOUS
  <1>1. ToSet(<<>>) = {}
    BY DEF ToSet
  <1>2. Seen = [n \in Rpms |-> None]
    BY DEF Init, Seen, Deleting
  <1>3. Sent = [q \in Reqs |-> {}]
    BY <1>1 DEF Init, Sent
  <1>4. Named = [q \in Reqs |-> {}]
    BY DEF Init, Named
  <1>5. Phase = [q \in Reqs |-> "idle"]
    BY DEF Init, Phase
  <1> QED
    BY <1>2, <1>3, <1>4, <1>5 DEF Store!PInit

\* Whatever is received with no lock held, and whatever fails: every upload and
\* every deletion takes effect in one step between its arrival and its answer, and
\* changes no package but its own.
THEOREM RequestsTakeEffectAtOnce ==
    ASSUME WellNamed, ClientsApart, Tidy PROVE Spec => ImplementsStore
  BY StoreInit, StoreStep, ExactInvariant, PTL DEF Spec, ImplementsStore, Store!PSpec

-------------------------------------------------------------------------------
(* What parse_filename reads.                                              *)

\* What is at the beginning and at the end of two sequences in a row.
LEMMA SubSeqsOfConcat ==
    ASSUME NEW S, NEW s \in Seq(S), NEW t \in Seq(S)
    PROVE /\ SubSeq(s \o t, 1, Len(s)) = s
          /\ SubSeq(s \o t, Len(s) + 1, Len(s \o t)) = t
  <1> DEFINE all == s \o t
             head == SubSeq(all, 1, Len(s))
             tail == SubSeq(all, Len(s) + 1, Len(all))
  <1>1. /\ all \in Seq(S) /\ Len(all) = Len(s) + Len(t)
        /\ \A i \in 1 .. Len(s) + Len(t) : all[i] = IF i <= Len(s) THEN s[i] ELSE t[i - Len(s)]
        /\ Len(s) \in Nat /\ Len(t) \in Nat
    BY ConcatProperties, LenProperties
  <1> HIDE DEF all
  <1>2. \A i \in 1 .. Len(all) : all[i] \in S
    BY <1>1, ElementOfSeq
  <1>3. /\ head \in Seq(S) /\ Len(head) = Len(s)
        /\ \A i \in 1 .. Len(s) : head[i] = all[i]
    BY <1>1
  <1>4. \A i \in 1 .. Len(s) : head[i] = s[i]
    BY <1>1, <1>3
  <1>5. /\ tail \in Seq(S) /\ Len(tail) = Len(t)
        /\ \A i \in 1 .. Len(t) : tail[i] = all[Len(s) + i]
    BY <1>1
  <1>6. \A i \in 1 .. Len(t) : tail[i] = t[i]
    <2> SUFFICES ASSUME NEW i \in 1 .. Len(t) PROVE all[Len(s) + i] = t[i]
      BY <1>5
    <2>1. Len(s) + i \in 1 .. Len(s) + Len(t) /\ ~(Len(s) + i <= Len(s)) /\ (Len(s) + i) - Len(s) = i
      BY <1>1
    <2> QED
      BY <1>1, <2>1
  <1>7. head = s
    <2> HIDE DEF head
    <2> QED
      BY <1>3, <1>4, SeqEqual
  <1>8. tail = t
    <2> HIDE DEF tail
    <2> QED
      BY <1>5, <1>6, SeqEqual
  <1> QED
    BY <1>7, <1>8 DEF all

\* Two sequences with a token between them, a sequence without a token, and one that
\* begins another.
Around(p, x, s) == (p \o <<x>>) \o s
Lacks(s, x) == \A i \in DOMAIN s : s[i] # x
Begins(p, all, S) == \E rest \in Seq(S) : all = p \o rest

\* The last place of a token, and what is before and after it.
LEMMA LastAround ==
    ASSUME NEW S, NEW p \in Seq(S), NEW x \in S, NEW s \in Seq(S), Lacks(s, x)
    PROVE /\ Around(p, x, s) \in Seq(S) /\ LastOf(Around(p, x, s), x) = Len(p) + 1
          /\ SubSeq(Around(p, x, s), 1, Len(p)) = p
          /\ SubSeq(Around(p, x, s), Len(p) + 2, Len(Around(p, x, s))) = s
  <1> DEFINE all == Around(p, x, s)
  <1>0. all = (p \o <<x>>) \o s /\ \A i \in DOMAIN s : s[i] # x
    BY DEF Around, Lacks
  <1> HIDE DEF all
  <1> DEFINE px == p \o <<x>>
             I == {i \in 1 .. Len(all) : all[i] = x}
  <1>1. <<x>> \in Seq(S) /\ Len(<<x>>) = 1 /\ <<x>>[1] = x
    OBVIOUS
  <1>2. /\ px \in Seq(S) /\ Len(px) = Len(p) + 1
        /\ Len(p) \in Nat /\ Len(s) \in Nat /\ DOMAIN s = 1 .. Len(s)
    BY <1>1, ConcatProperties, LenProperties
  <1>3. px[Len(p) + 1] = x
    BY <1>1
  <1>4. all = px \o s
    BY <1>0
  <1> HIDE DEF px
  <1>5. /\ all \in Seq(S) /\ Len(all) = Len(px) + Len(s)
        /\ \A i \in 1 .. Len(px) + Len(s) : all[i] = IF i <= Len(px) THEN px[i] ELSE s[i - Len(px)]
    BY <1>2, <1>4, ConcatProperties
  <1>6. Len(px) \in I
    BY <1>2, <1>3, <1>5
  <1>7. \A i \in I : i <= Len(px)
    <2> SUFFICES ASSUME NEW i \in I, i > Len(px) PROVE FALSE
      BY <1>2
    <2>1. i - Len(px) \in DOMAIN s /\ all[i] = s[i - Len(px)] /\ all[i] = x
      BY <1>2, <1>5
    <2> QED
      BY <1>0, <2>1
  <1>8. LastOf(all, x) = Len(px)
    <2> DEFINE m == Max(I)
    <2>1. Len(all) \in Nat /\ I \subseteq 1 .. Len(all) /\ I # {}
      <3>1. Len(all) \in Nat
        BY <1>2, <1>5
      <3>2. I \subseteq 1 .. Len(all)
        BY <1>2, <1>5
      <3> QED
        BY <3>1, <3>2, <1>6
    <2>2. LastOf(all, x) = m
      BY <2>1 DEF LastOf, SelectLastInSeq
    <2> HIDE DEF I
    <2>3. m \in I /\ m >= Len(px)
      BY <1>6, <2>1, LastPlace
    <2>4. m \in 1 .. Len(all) /\ m <= Len(px)
      BY <1>7, <2>1, <2>3
    <2> HIDE DEF m
    <2> QED
      BY <1>2, <2>1, <2>2, <2>3, <2>4
  <1>9. SubSeq(all, 1, Len(p)) = p
    <2>1. p \o (<<x>> \o s) = all /\ <<x>> \o s \in Seq(S)
      BY <1>1, <1>4, ConcatAssociative, ConcatProperties DEF px
    <2> QED
      BY <2>1, SubSeqsOfConcat
  <1>10. SubSeq(all, Len(px) + 1, Len(all)) = s
    BY <1>2, <1>4, SubSeqsOfConcat
  <1>11. Len(px) + 1 = Len(p) + 2
    BY <1>2
  <1> QED
    BY <1>2, <1>5, <1>8, <1>9, <1>10, <1>11 DEF all

\* The same, with what is appended after the token.
LEMMA BeforeToken ==
    ASSUME NEW S, NEW p \in Seq(S), NEW x \in S, NEW s \in Seq(S)
    PROVE Begins(p, Around(p, x, s), S)
  <1>1. <<x>> \in Seq(S)
    OBVIOUS
  <1>2. <<x>> \o s \in Seq(S) /\ (p \o <<x>>) \o s = p \o (<<x>> \o s)
    BY <1>1, ConcatAssociative, ConcatProperties
  <1> QED
    BY <1>2 DEF Around, Begins

\* What begins a beginning is a beginning.
LEMMA BeginningOfBeginning ==
    ASSUME NEW S, NEW p \in Seq(S), NEW q, NEW all, Begins(p, q, S), Begins(q, all, S)
    PROVE Begins(p, all, S)
  <1>1. PICK a \in Seq(S) : q = p \o a
    BY DEF Begins
  <1>2. PICK b \in Seq(S) : all = q \o b
    BY DEF Begins
  <1>3. a \o b \in Seq(S) /\ (p \o a) \o b = p \o (a \o b)
    BY ConcatAssociative, ConcatProperties
  <1> QED
    BY <1>1, <1>2, <1>3 DEF Begins

LEMMA BeginningCut ==
    ASSUME NEW S, NEW p \in Seq(S), NEW all, Begins(p, all, S)
    PROVE SubSeq(all, 1, Len(p)) = p
  <1>1. PICK rest \in Seq(S) : all = p \o rest
    BY DEF Begins
  <1> QED
    BY <1>1, SubSeqsOfConcat

\* How an rpm's file is called by its builder.
Spelled(l) ==
    Around(Around(Around(l.name, "-", l.ver), "-", l.rel), ".", l.arch) \o <<".", "rpm">>

\* A name, a version, a release and an architecture, in tokens: there are no dashes in
\* a version or a release and no dots in an architecture.
IsLabel(l, S) ==
    /\ l \in [name : Seq(S), ver : Seq(S), rel : Seq(S), arch : Seq(S)]
    /\ Lacks(l.ver, "-") /\ Lacks(l.rel, "-") /\ Lacks(l.arch, ".")

\* From a file that is called as rpms are, parse_filename reads the name and the
\* architecture, whatever dashes, dots and colons are in the name, and whatever
\* dots and colons in the version.
THEOREM FilenamesParse ==
    ASSUME NEW S, "-" \in S, "." \in S, "rpm" \in S, NEW l, IsLabel(l, S)
    PROVE ParseFilename(Spelled(l)) = {[name |-> l.name, arch |-> l.arch]}
  <1> DEFINE n == l.name
             v == l.ver
             r == l.rel
             a == l.arch
             nv == Around(n, "-", v)
             nvr == Around(nv, "-", r)
             stem == Around(nvr, ".", a)
             ext == <<".", "rpm">>
             full == stem \o ext
  <1>1. /\ n \in Seq(S) /\ v \in Seq(S) /\ r \in Seq(S) /\ a \in Seq(S)
        /\ Lacks(v, "-") /\ Lacks(r, "-") /\ Lacks(a, ".")
    BY DEF IsLabel
  <1>2. Spelled(l) = full
    BY DEF Spelled
  <1>3. nv = Around(n, "-", v) /\ nvr = Around(nv, "-", r) /\ stem = Around(nvr, ".", a)
    OBVIOUS
  <1>4. "-" \in S /\ "." \in S
    OBVIOUS
  <1>5. full = stem \o ext
    OBVIOUS
  <1>6. ext \in Seq(S) /\ Len(ext) = 2
    OBVIOUS
  <1>7. ParseFilename(Spelled(l)) = ParseFilename(full)
    BY <1>2
  <1> HIDE DEF nv, nvr, stem, full, n, v, r, a
  <1>8. /\ stem \in Seq(S) /\ LastOf(stem, ".") = Len(nvr) + 1
        /\ SubSeq(stem, 1, Len(nvr)) = nvr
        /\ SubSeq(stem, Len(nvr) + 2, Len(stem)) = a
        /\ nvr \in Seq(S) /\ LastOf(nvr, "-") = Len(nv) + 1
        /\ SubSeq(stem, 1, Len(nv)) = nv
        /\ nv \in Seq(S) /\ LastOf(nv, "-") = Len(n) + 1
        /\ SubSeq(stem, 1, Len(n)) = n
    <2>1. nv = Around(n, "-", v)
      BY <1>3
    <2>2. nvr = Around(nv, "-", r)
      BY <1>3
    <2>3. stem = Around(nvr, ".", a)
      BY <1>3
    <2>4. nv \in Seq(S) /\ LastOf(nv, "-") = Len(n) + 1
      BY <1>1, <1>4, <2>1, LastAround
    <2>5. nvr \in Seq(S) /\ LastOf(nvr, "-") = Len(nv) + 1
      BY <1>1, <1>4, <2>2, <2>4, LastAround
    <2>6. /\ stem \in Seq(S) /\ LastOf(stem, ".") = Len(nvr) + 1
          /\ SubSeq(stem, 1, Len(nvr)) = nvr
          /\ SubSeq(stem, Len(nvr) + 2, Len(stem)) = a
      <3>1. nvr \in Seq(S) /\ a \in Seq(S) /\ Lacks(a, ".") /\ "." \in S
        BY <1>1, <1>4, <2>5
      <3>2. /\ Around(nvr, ".", a) \in Seq(S) /\ LastOf(Around(nvr, ".", a), ".") = Len(nvr) + 1
            /\ SubSeq(Around(nvr, ".", a), 1, Len(nvr)) = nvr
            /\ SubSeq(Around(nvr, ".", a), Len(nvr) + 2, Len(Around(nvr, ".", a))) = a
        BY <3>1, LastAround
      <3> QED
        BY <2>3, <3>2
    <2>7. Begins(n, nv, S)
      BY <1>1, <1>4, <2>1, BeforeToken
    <2>8. Begins(nv, nvr, S)
      BY <1>1, <1>4, <2>2, <2>4, BeforeToken
    <2>9. Begins(nvr, stem, S)
      BY <1>1, <1>4, <2>3, <2>5, BeforeToken
    <2>10. Begins(nv, stem, S)
      BY <2>4, <2>8, <2>9, BeginningOfBeginning
    <2>11. Begins(n, stem, S)
      BY <1>1, <2>7, <2>10, BeginningOfBeginning
    <2>12. SubSeq(stem, 1, Len(nv)) = nv
      BY <2>4, <2>10, BeginningCut
    <2>13. SubSeq(stem, 1, Len(n)) = n
      BY <1>1, <2>11, BeginningCut
    <2> QED
      BY <2>4, <2>5, <2>6, <2>12, <2>13
  <1>10. Len(stem) \in Nat /\ Len(nvr) \in Nat /\ Len(nv) \in Nat /\ Len(n) \in Nat
    BY <1>1, <1>8, LenProperties
  <1>11. full \in Seq(S) /\ Len(full) = Len(stem) + 2
    BY <1>5, <1>6, <1>8, ConcatProperties
  <1>12. Len(full) - 2 = Len(stem) /\ Len(full) - 1 = Len(stem) + 1 /\ Len(full) >= 2
    BY <1>10, <1>11
  <1>13. SubSeq(full, 1, Len(stem)) = stem /\ SubSeq(full, Len(stem) + 1, Len(full)) = ext
    <2> HIDE DEF ext
    <2> QED
      BY <1>5, <1>6, <1>8, SubSeqsOfConcat
  <1>14. IsRpm(full) /\ SubSeq(full, 1, Len(full) - 2) = stem
    BY <1>12, <1>13 DEF IsRpm
  <1> DEFINE dot == LastOf(stem, ".")
             rel == LastOf(SubSeq(stem, 1, dot - 1), "-")
             ver == LastOf(SubSeq(stem, 1, rel - 1), "-")
  <1>15. dot - 1 = Len(nvr) /\ dot + 1 = Len(nvr) + 2 /\ dot # 0
    BY <1>8, <1>10
  <1>16. rel = Len(nv) + 1 /\ rel - 1 = Len(nv) /\ rel # 0
    <2>1. SubSeq(stem, 1, dot - 1) = nvr
      BY <1>8, <1>15
    <2>2. rel = Len(nv) + 1
      BY <1>8, <2>1
    <2> QED
      BY <1>10, <2>2
  <1>17. ver - 1 = Len(n) /\ ver # 0
    <2>1. SubSeq(stem, 1, rel - 1) = nv
      BY <1>8, <1>16
    <2>2. ver = Len(n) + 1
      BY <1>8, <2>1
    <2> QED
      BY <1>10, <2>2
  <1>18. ParseFilename(full) = {[name |-> SubSeq(stem, 1, ver - 1), arch |-> SubSeq(stem, dot + 1, Len(stem))]}
    BY <1>14, <1>15, <1>16, <1>17 DEF ParseFilename
  <1>19. SubSeq(stem, 1, ver - 1) = n /\ SubSeq(stem, dot + 1, Len(stem)) = a
    BY <1>8, <1>15, <1>17
  <1> HIDE DEF dot, rel, ver
  <1>20. ParseFilename(full) = {[name |-> n, arch |-> a]}
    BY <1>18, <1>19
  <1> QED
    BY <1>7, <1>20 DEF n, a

\* So the hypothesis WellNamed is about how rpms are named, not about the code: it
\* holds if the files that the code accepts are called as their builder calls them
\* and a package is a name and an architecture.
THEOREM BuildersNameWell ==
    ASSUME NEW S, "-" \in S, "." \in S, "rpm" \in S, NEW label,
           \A n \in Rpms : RpmFilename(FileName[n]) =>
               IsLabel(label[n], S) /\ FileName[n] = Spelled(label[n]),
           \A n, k \in Rpms : PackageOf[n] = PackageOf[k] <=>
               label[n].name = label[k].name /\ label[n].arch = label[k].arch
    PROVE WellNamed
  <1> DEFINE read(n) == [name |-> label[n].name, arch |-> label[n].arch]
  <1>1. ASSUME NEW n \in Rpms, RpmFilename(FileName[n]) PROVE Parsed[n] = {read(n)}
    <2> DEFINE l == label[n]
    <2>1. IsLabel(l, S) /\ FileName[n] = Spelled(l)
      BY <1>1
    <2>2. "-" \in S /\ "." \in S /\ "rpm" \in S
      OBVIOUS
    <2> HIDE DEF l
    <2>3. ParseFilename(Spelled(l)) = {[name |-> l.name, arch |-> l.arch]}
      BY <2>1, <2>2, FilenamesParse
    <2>4. Parsed[n] = ParseFilename(FileName[n])
      BY DEF Parsed
    <2> QED
      BY <2>1, <2>3, <2>4 DEF l
  <1>2. SUFFICES ASSUME NEW n \in Rpms, NEW k \in Rpms,
                        RpmFilename(FileName[n]), RpmFilename(FileName[k])
                 PROVE Parsed[n] = Parsed[k] <=> PackageOf[n] = PackageOf[k]
    BY DEF WellNamed
  <1>3. Parsed[n] = {read(n)} /\ Parsed[k] = {read(k)}
    BY <1>1, <1>2
  <1>4. read(n) = read(k) <=> label[n].name = label[k].name /\ label[n].arch = label[k].arch
    <2>1. \A x, y, u, w : [name |-> x, arch |-> y] = [name |-> u, arch |-> w] <=> x = u /\ y = w
      <3> TAKE x, y, u, w
      <3> DEFINE p == [name |-> x, arch |-> y]
                 q == [name |-> u, arch |-> w]
      <3>1. p.name = x /\ p.arch = y /\ q.name = u /\ q.arch = w
        OBVIOUS
      <3>2. x = u /\ y = w => p = q
        OBVIOUS
      <3> HIDE DEF p, q
      <3>3. p = q => x = u /\ y = w
        BY <3>1
      <3> QED
        BY <3>2, <3>3 DEF p, q
    <2> QED
      BY <2>1
  <1> HIDE DEF read
  <1>5. {read(n)} = {read(k)} <=> read(n) = read(k)
    OBVIOUS
  <1>6. PackageOf[n] = PackageOf[k] <=>
            label[n].name = label[k].name /\ label[n].arch = label[k].arch
    OBVIOUS
  <1> QED
    BY <1>3, <1>4, <1>5, <1>6

================================================================
