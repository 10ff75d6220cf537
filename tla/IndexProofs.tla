------------------------------ MODULE IndexProofs -----------------------------
(***************************************************************************)
(* Theorems about Index, for any sets of packages, contents and rpms.         *)
(*                                                                         *)
(* Every step of Index is one of Cache or leaves the cache alone, so what      *)
(* CacheProofs shows of Cache holds in Index.  The documents join because what *)
(* a generation has read of the cache stays true until it is over: GenInv.     *)
(*                                                                         *)
(* What the documents say of a package is computed by recursion: versions are  *)
(* split, dependencies and files filtered, events read and flattened.  The     *)
(* induction theorems of the library take a predicate and cannot be used, but  *)
(* WFMin takes a set; Induct, which is by WFMin, does as well, and the          *)
(* properties of sequences below are sets of indices.                         *)
(***************************************************************************)
EXTENDS Index, CacheProofs, WellFoundedInduction, SequenceTheorems

\* A generation runs while no batch does, and has read the cache as it is.
GenInv ==
    gen # None =>
        /\ txn = None
        /\ gen = [count |-> [m \in Metans |-> gen.count[m]], body |-> [m \in Metans |-> gen.body[m]]]
        /\ \A m \in Metans : gen.count[m] \in {None, Cardinality(Stored(m))}
        /\ \A m \in Metans : gen.body[m] \in {None, db.frag[m]}
        /\ \A m \in Required : gen.body[m] # None => gen.count[m] # None

\* Generating only reads the cache: Index implements Cache, and with it all that
\* is proved of batches and deletions.
THEOREM IndexImplementsCache == IndexSpec => Spec
  <1>1. IndexInit => Init
    BY DEF IndexInit
  <1>2. [IndexNext]_indexVars => [Next]_vars
    BY DEF IndexNext, indexVars, vars, ChangeCache, StartGenerate, Count, Collect, EndGenerate
  <1> QED
    BY <1>1, <1>2, PTL DEF IndexSpec, Spec

\* One step keeps what the generation has read true.
LEMMA GenStep == GenInv /\ [IndexNext]_indexVars => GenInv'
  <1> SUFFICES ASSUME GenInv, [IndexNext]_indexVars PROVE GenInv'
    OBVIOUS
  <1>0. Required \subseteq Metans /\ "appstream" \notin Required
    BY DEF Required, Metans
  <1>1. CASE ChangeCache
    BY <1>1 DEF ChangeCache, Exclusive, GenInv
  <1>2. CASE StartGenerate
    BY <1>0, <1>2 DEF StartGenerate, GenInv, Nothing, vars
  <1>3. ASSUME NEW m \in Metans, Count(m) PROVE GenInv'
    <2>1. Stored(m)' = Stored(m) /\ \A n \in Metans : Stored(n)' = Stored(n)
      BY <1>3 DEF Count, vars, Stored
    <2>2. gen'.body = gen.body
          /\ \A n \in Metans : gen'.count[n] = IF n = m THEN Cardinality(Stored(m)) ELSE gen.count[n]
      BY <1>3 DEF Count, GenInv
    <2>3. gen' = [count |-> [n \in Metans |-> gen'.count[n]], body |-> [n \in Metans |-> gen'.body[n]]]
      BY <1>3 DEF Count, GenInv
    <2>4. txn' = None /\ db' = db
      BY <1>3 DEF Count, GenInv, vars
    <2>5. \A n \in Metans : gen'.count[n] \in {None, Cardinality(Stored(n)')}
      BY <1>3, <2>1, <2>2 DEF Count, GenInv
    <2>6. \A n \in Required : gen'.body[n] # None => gen'.count[n] # None
      BY <1>0, <1>3, <2>2 DEF Count, GenInv
    <2> QED
      BY <1>3, <2>2, <2>3, <2>4, <2>5, <2>6 DEF Count, GenInv
  <1>4. ASSUME NEW m \in Metans, Collect(m) PROVE GenInv'
    <2>1. \A n \in Metans : Stored(n)' = Stored(n)
      BY <1>4 DEF Collect, vars, Stored
    <2>2. gen'.count = gen.count
          /\ \A n \in Metans : gen'.body[n] = IF n = m THEN db.frag[m] ELSE gen.body[n]
      BY <1>4 DEF Collect, GenInv
    <2>3. gen' = [count |-> [n \in Metans |-> gen'.count[n]], body |-> [n \in Metans |-> gen'.body[n]]]
      BY <1>4 DEF Collect, GenInv
    <2> QED
      BY <1>0, <1>4, <2>1, <2>2, <2>3 DEF Collect, GenInv, vars
  <1>5. CASE EndGenerate
    BY <1>5 DEF EndGenerate, GenInv
  <1>6. CASE UNCHANGED indexVars
    BY <1>6 DEF indexVars, GenInv, Stored
  <1> QED
    BY <1>1, <1>2, <1>3, <1>4, <1>5, <1>6 DEF IndexNext

\* In every state.
LEMMA GenInvariant == IndexSpec => []GenInv
  <1>1. IndexInit => GenInv
    BY DEF IndexInit, GenInv
  <1> QED
    BY <1>1, GenStep, PTL DEF IndexSpec

\* What Cache promises, in Index.
LEMMA CacheKept == IndexSpec => []CacheInv
  BY IndexImplementsCache, CacheInvariant, PTL

\* What a complete generation has written, by the promises of the cache.
LEMMA GenJoins == CacheInv /\ GenInv => DocumentsJoin
  <1> SUFFICES ASSUME CacheInv, GenInv, Complete PROVE DocumentsJoin
    BY DEF DocumentsJoin
  <1>1. Required \subseteq Metans /\ "primary" \in Required /\ "filelists" \in Required
        /\ "other" \in Required
    BY DEF Required, Metans
  <1>2. \A m \in Required : gen.body[m] = db.frag[m] /\ gen.count[m] = Cardinality(Stored(m))
    BY <1>1 DEF Complete, GenInv
  <1>3. ASSUME NEW m \in Required PROVE Listed(m) = Present(db) /\ Listed(m) = Stored(m)
    BY <1>2 DEF CacheInv, KeysAgree, AgreeOn, Listed, Present, Stored
  <1>4. ASSUME NEW k \in Pkgs, NEW m \in Required
        PROVE Fragment(m, k) = Compute(Rpm[gen.body["primary"][k]], k)[m]
    BY <1>1, <1>2 DEF CacheInv, SameContent, OneContent, Fragment
  <1>5. ASSUME NEW rpm, NEW k \in Pkgs, NEW m \in Required
        PROVE Compute(rpm, k)[m].package = Identity(rpm)
    BY DEF Required, Compute, PrimaryFrag, FilelistsFrag, OtherFrag
  <1>6. ASSUME NEW k \in Pkgs, NEW m \in Required
        PROVE Fragment(m, k).package = Fragment("primary", k).package
    BY <1>1, <1>4, <1>5
  <1> QED
    BY <1>2, <1>3, <1>6 DEF DocumentsJoin, Present

\* primary.xml, filelists.xml and other.xml list the acknowledged packages, with the
\* right count and the same identities, for any packages and contents.
THEOREM DocumentsFitTogether == IndexSpec => []DocumentsJoin
  BY GenInvariant, CacheKept, GenJoins, PTL

\* What a document lists are contents that were stored.
LEMMA ListedContents ==
    ASSUME CacheInv, GenInv, gen # None, NEW m \in Metans, gen.body[m] # None, NEW k \in Listed(m)
    PROVE k \in Pkgs /\ gen.body[m][k] \in Vers
  <1>1. gen.body[m] = db.frag[m]
    BY DEF GenInv
  <1>2. db.frag[m] \in [Pkgs -> Vers \union {None}]
    BY DEF CacheInv, TypeOK, Db
  <1> QED BY <1>1, <1>2 DEF Listed

-------------------------------------------------------------------------------
(* Sequences.                                                              *)

\* Natural numbers have a least element.
LEMMA LeastNatural ==
    ASSUME NEW T, T \subseteq Nat, T # {}
    PROVE \E x \in T : \A y \in T : x <= y
  <1> DEFINE R == {ss \in Nat \X Nat : ss[1] < ss[2]}
  <1>1. IsWellFoundedOn(R, Nat)
    BY NatLessThanWellFounded DEF OpToRel
  <1>2. PICK x \in T : \A y \in T : <<y, x>> \notin R
    <2> HIDE DEF R
    <2> QED BY <1>1, WFMin
  <1>3. ASSUME NEW y \in T PROVE x <= y
    <2>1. <<y, x>> \in Nat \X Nat
      OBVIOUS
    <2>2. ~(y < x)
      BY <1>2, <2>1
    <2> QED BY <2>2
  <1> QED BY <1>3

\* Induction, for a set of numbers.
LEMMA Induct ==
    ASSUME NEW T, 0 \in T, \A n \in Nat : n \in T => n + 1 \in T
    PROVE Nat \subseteq T
  <1> SUFFICES ASSUME Nat \ T # {} PROVE FALSE
    OBVIOUS
  <1>1. PICK x \in Nat \ T : \A y \in Nat \ T : x <= y
    BY LeastNatural
  <1>2. x - 1 \in Nat /\ x - 1 \in T
    BY <1>1
  <1> QED BY <1>1, <1>2

\* f starts with b and goes on by step.
Iterates(f, b, step, n) == f[0] = b /\ \A i \in 1 .. n : f[i] = step[i][f[i - 1]]

\* There is a function by recursion.
LEMMA Recursion ==
    ASSUME NEW S, NEW b \in S, NEW n \in Nat, NEW step \in [1 .. n -> [S -> S]]
    PROVE \E f \in [0 .. n -> S] : Iterates(f, b, step, n)
  <1> DEFINE Upto(k, f) == f[0] = b /\ \A i \in 1 .. k : f[i] = step[i][f[i - 1]]
             T == {k \in Nat : k <= n => \E f \in [0 .. k -> S] : Upto(k, f)}
  <1>1. 0 \in T
    <2>1. [i \in 0 .. 0 |-> b] \in [0 .. 0 -> S] /\ Upto(0, [i \in 0 .. 0 |-> b])
      OBVIOUS
    <2> QED BY <2>1
  <1>2. ASSUME NEW k \in Nat, k \in T PROVE k + 1 \in T
    <2> SUFFICES ASSUME k + 1 <= n PROVE \E f \in [0 .. k + 1 -> S] : Upto(k + 1, f)
      OBVIOUS
    <2>1. PICK f \in [0 .. k -> S] : Upto(k, f)
      BY <1>2
    <2> DEFINE g == [i \in 0 .. k + 1 |-> IF i <= k THEN f[i] ELSE step[k + 1][f[k]]]
    <2>2. f[k] \in S /\ step[k + 1][f[k]] \in S
      <3>1. f[k] \in S /\ step[k + 1] \in [S -> S]
        OBVIOUS
      <3> QED BY <3>1
    <2>3. g \in [0 .. k + 1 -> S]
      BY <2>2
    <2>4. g[0] = b
      BY <2>1
    <2>5. ASSUME NEW i \in 1 .. k + 1 PROVE g[i] = step[i][g[i - 1]]
      <3>1. CASE i <= k
        <4>1. i \in 1 .. k /\ g[i] = f[i] /\ g[i - 1] = f[i - 1]
          BY <3>1
        <4> QED BY <2>1, <4>1
      <3>2. CASE i = k + 1
        <4>1. g[i] = step[k + 1][f[k]] /\ g[i - 1] = f[k]
          BY <3>2
        <4> QED BY <3>2, <4>1
      <3> QED BY <3>1, <3>2
    <2> QED BY <2>3, <2>4, <2>5
  <1>3. Nat \subseteq T
    <2> HIDE DEF T
    <2> QED BY <1>1, <1>2, Induct
  <1>4. PICK f \in [0 .. n -> S] : Upto(n, f)
    BY <1>3
  <1> QED BY <1>4 DEF Iterates

\* f flattens ss step by step.
Flattens(f, ss) ==
    f[0] = <<>> /\ \A i, j \in 0 .. Len(ss) : j = i + 1 => f[j] = f[i] \o ss[j]

\* There is one that does.
LEMMA FlattenExists ==
    ASSUME NEW S, NEW ss \in Seq(Seq(S))
    PROVE \E f \in [0 .. Len(ss) -> Seq(S)] : Flattens(f, ss)
  <1> DEFINE n == Len(ss)
             U == Seq(S)
             none == <<>>
             step == [i \in 1 .. n |-> [s \in U |-> s \o ss[i]]]
  <1>0. \A i \in 1 .. n : ss[i] \in U
    OBVIOUS
  <1>1. n \in Nat /\ none \in U
    OBVIOUS
  <1>2. step \in [1 .. n -> [U -> U]]
    BY <1>0
  <1>3. PICK f \in [0 .. n -> U] : Iterates(f, none, step, n)
    <2> HIDE DEF n, step, U, none
    <2> QED BY <1>1, <1>2, Recursion
  <1>4. ASSUME NEW i \in 0 .. n, NEW j \in 0 .. n, j = i + 1 PROVE f[j] = f[i] \o ss[j]
    <2>1. j \in 1 .. n /\ j - 1 = i
      <3> HIDE DEF n
      <3> QED BY <1>1, <1>4
    <2>3. f[i] \in U
      <3> HIDE DEF n, U
      <3> QED OBVIOUS
    <2> HIDE DEF U
    <2>2. f[j] = step[j][f[j - 1]]
      <3> HIDE DEF step
      <3> QED BY <1>3, <2>1 DEF Iterates
    <2> QED BY <2>1, <2>2, <2>3
  <1>5. f[0] = <<>>
    BY <1>3 DEF Iterates
  <1> QED BY <1>4, <1>5 DEF Flattens

\* FlattenSeq, one sequence after the other.
LEMMA Flatten ==
    ASSUME NEW S, NEW ss \in Seq(Seq(S))
    PROVE \E f \in [0 .. Len(ss) -> Seq(S)] : Flattens(f, ss) /\ FlattenSeq(ss) = f[Len(ss)]
  <1> DEFINE n == Len(ss)
             U == Seq(S)
  <1>1. n \in Nat /\ \A i \in 1 .. n : ss[i] \in U
    OBVIOUS
  <1>2. PICK f \in [0 .. n -> U] : Flattens(f, ss)
    BY FlattenExists
  <1>3. f[0] = <<>> /\ \A i, j \in 0 .. n : j = i + 1 => f[j] = f[i] \o ss[j]
    BY <1>2 DEF Flattens
  <1>4. CASE n = 0
    <2>1. ss = <<>>
      BY <1>4
    <2>2. FlattenSeq(ss) = <<>>
      BY <2>1 DEF FlattenSeq
    <2> QED BY <1>2, <1>3, <1>4, <2>2
  <1>5. CASE n # 0
    <2> DEFINE Is(g) == g = [i \in 1 .. n |-> IF i = 1 THEN ss[i] ELSE g[i - 1] \o ss[i]]
               c == CHOOSE g : Is(g)
               r == [i \in 1 .. n |-> f[i]]
    <2>1. FlattenSeq(ss) = c[n]
      BY <1>5 DEF FlattenSeq
    <2>2. 1 \in 1 .. n /\ f[1] = ss[1]
      <3>1. 0 \in 0 .. n /\ 1 \in 0 .. n /\ 1 \in 1 .. n
        BY <1>1, <1>5
      <3>2. f[1] = f[0] \o ss[1]
        <4> HIDE DEF n, U
        <4>1. PICK i \in 0 .. n, j \in 0 .. n : i = 0 /\ j = 1 /\ j = i + 1
          BY <3>1
        <4> QED BY <1>3, <4>1
      <3> QED BY <3>1, <3>2, <1>3, <1>1
    <2> HIDE DEF U
    <2>3. ASSUME NEW g, Is(g) PROVE \A i \in 1 .. n : g[i] = f[i]
      <3>1. ASSUME NEW i \in 1 .. n, NEW j \in 1 .. n, j = i + 1 PROVE g[j] = g[i] \o ss[j]
        <4>1. g[j] = IF j = 1 THEN ss[j] ELSE g[j - 1] \o ss[j]
          BY <2>3
        <4>2. j # 1 /\ j - 1 = i
          BY <1>1, <3>1
        <4> HIDE DEF Is
        <4> QED BY <4>1, <4>2
      <3>2. g[1] = ss[1]
        BY <2>2, <2>3
      <3> HIDE DEF Is
      <3> DEFINE T == {i \in Nat : i \in 1 .. n => g[i] = f[i]}
      <3>3. 0 \in T
        OBVIOUS
      <3>4. ASSUME NEW i \in Nat, i \in T PROVE i + 1 \in T
        <4>1. PICK j \in Nat : j = i + 1
          OBVIOUS
        <4>2. ASSUME j \in 1 .. n PROVE g[j] = f[j]
          <5>1. CASE i = 0
            <6>1. j = 1
              BY <4>1, <5>1
            <6> QED BY <2>2, <3>2, <6>1
          <5>2. CASE i # 0
            <6>1. i \in 1 .. n /\ i \in 0 .. n /\ j \in 0 .. n
              BY <4>1, <4>2, <5>2, <1>1
            <6>2. g[j] = g[i] \o ss[j]
              BY <3>1, <4>1, <4>2, <6>1
            <6>3. f[j] = f[i] \o ss[j]
              <7> HIDE DEF n
              <7> QED BY <1>3, <4>1, <6>1
            <6>4. g[i] = f[i]
              BY <3>4, <6>1
            <6> QED BY <6>2, <6>3, <6>4
          <5> QED BY <5>1, <5>2
        <4> QED BY <4>1, <4>2
      <3>5. Nat \subseteq T
        <4> HIDE DEF T
        <4> QED BY <3>3, <3>4, Induct
      <3> QED BY <3>5
    <2>4. Is(r)
      <3>1. ASSUME NEW i \in 1 .. n PROVE r[i] = IF i = 1 THEN ss[i] ELSE r[i - 1] \o ss[i]
        <4>1. CASE i = 1
          BY <2>2, <4>1
        <4>2. CASE i # 1
          <5>1. PICK k \in 1 .. n : i = k + 1
            BY <4>2, <1>1
          <5>2. i - 1 = k /\ k \in 0 .. n /\ i \in 0 .. n
            BY <5>1, <1>1
          <5>3. f[i] = f[k] \o ss[i]
            <6> HIDE DEF n
            <6> QED BY <1>3, <5>1, <5>2
          <5>4. r[i] = f[i] /\ r[i - 1] = f[k]
            BY <5>1, <5>2
          <5> QED BY <4>2, <5>3, <5>4
        <4> QED BY <4>1, <4>2
      <3> QED BY <3>1
    <2>5. Is(c)
      <3> HIDE DEF Is
      <3> QED BY <2>4
    <2>6. c[n] = f[n]
      <3> HIDE DEF Is, c
      <3>1. n \in 1 .. n
        BY <1>1, <1>5
      <3> QED BY <2>3, <2>5, <3>1
    <2>7. FlattenSeq(ss) = f[n]
      BY <2>1, <2>6
    <2> QED BY <1>2, <2>7 DEF n, U
  <1> QED BY <1>4, <1>5

\* Induction up to a bound.
LEMMA InductUpto ==
    ASSUME NEW n \in Nat, NEW T, 0 \in T,
           \A i, j \in 0 .. n : i \in T /\ j = i + 1 => j \in T
    PROVE 0 .. n \subseteq T
  <1> DEFINE W == {i \in Nat : i \in 0 .. n => i \in T}
  <1>1. ASSUME NEW i \in Nat, i \in W PROVE i + 1 \in W
    <2> SUFFICES ASSUME i + 1 \in 0 .. n PROVE i + 1 \in T
      OBVIOUS
    <2>1. i \in 0 .. n /\ i \in T
      BY <1>1
    <2>2. PICK j \in 0 .. n : j = i + 1
      OBVIOUS
    <2> QED BY <2>1, <2>2
  <1>2. 0 \in W
    OBVIOUS
  <1>3. Nat \subseteq W
    <2> HIDE DEF W
    <2> QED BY <1>1, <1>2, Induct
  <1> QED BY <1>3

\* What flattening stays in.
LEMMA FlattenIn ==
    ASSUME NEW S, NEW G \in SUBSET Seq(S), <<>> \in G, \A x, y \in G : x \o y \in G,
           NEW ss \in Seq(G)
    PROVE FlattenSeq(ss) \in G
  <1>1. ss \in Seq(Seq(S)) /\ Len(ss) \in Nat /\ \A j \in 1 .. Len(ss) : ss[j] \in G
    OBVIOUS
  <1>2. PICK f \in [0 .. Len(ss) -> Seq(S)] : Flattens(f, ss) /\ FlattenSeq(ss) = f[Len(ss)]
    BY <1>1, Flatten
  <1> DEFINE n == Len(ss)
             T == {i \in 0 .. n : f[i] \in G}
  <1>3. 0 \in T
    BY <1>1, <1>2 DEF Flattens
  <1>4. ASSUME NEW i \in 0 .. n, NEW j \in 0 .. n, i \in T, j = i + 1 PROVE j \in T
    <2>1. f[j] = f[i] \o ss[j]
      BY <1>2, <1>4 DEF Flattens
    <2>2. ss[j] \in G
      BY <1>1, <1>4
    <2> QED BY <1>4, <2>1, <2>2
  <1>5. 0 .. n \subseteq T
    <2> HIDE DEF T, n
    <2>1. n \in Nat
      BY <1>1 DEF n
    <2> QED BY <1>3, <1>4, <2>1, InductUpto
  <1>6. n \in 0 .. n
    BY <1>1
  <1> QED BY <1>2, <1>5, <1>6

\* Flattening neither loses nor adds elements.
LEMMA FlattenRange ==
    ASSUME NEW S, NEW ss \in Seq(Seq(S))
    PROVE Range(FlattenSeq(ss)) = UNION {Range(ss[i]) : i \in DOMAIN ss}
  <1> DEFINE n == Len(ss)
             Upto(i) == UNION {Range(ss[k]) : k \in 1 .. i}
  <1>1. n \in Nat /\ DOMAIN ss = 1 .. n /\ \A i \in 1 .. n : ss[i] \in Seq(S)
    OBVIOUS
  <1>2. PICK f \in [0 .. n -> Seq(S)] : Flattens(f, ss) /\ FlattenSeq(ss) = f[n]
    BY Flatten
  <1> DEFINE T == {i \in 0 .. n : Range(f[i]) = Upto(i)}
  <1>3. 0 \in T
    <2>1. f[0] = <<>> /\ Range(<<>>) = {} /\ Upto(0) = {}
      BY <1>2 DEF Flattens, Range
    <2> QED BY <1>1, <2>1
  <1>4. ASSUME NEW i \in 0 .. n, NEW j \in 0 .. n, i \in T, j = i + 1 PROVE j \in T
    <2>1. f[j] = f[i] \o ss[j] /\ f[i] \in Seq(S) /\ ss[j] \in Seq(S)
      BY <1>1, <1>2, <1>4 DEF Flattens
    <2>2. Range(f[j]) = Range(f[i]) \union Range(ss[j])
      BY <2>1, RangeConcatenation
    <2>3. 1 .. j = (1 .. i) \union {j}
      BY <1>1, <1>4
    <2>4. Upto(j) = Upto(i) \union Range(ss[j])
      BY <2>3
    <2> QED BY <1>4, <2>2, <2>4
  <1>5. n \in T
    <2>1. n \in 0 .. n
      BY <1>1
    <2>2. 0 .. n \subseteq T
      <3> HIDE DEF n, T
      <3> QED BY <1>1, <1>3, <1>4, InductUpto
    <2> QED BY <2>1, <2>2
  <1> QED BY <1>1, <1>2, <1>5

\* What is kept of a sequence is of those that are kept.
LEMMA KeptIn ==
    ASSUME NEW E, NEW s \in Seq(E), NEW K
    PROVE FlattenSeq([i \in DOMAIN s |-> IF s[i] \in K THEN <<s[i]>> ELSE <<>>]) \in Seq(E \intersect K)
  <1> DEFINE G == Seq(E \intersect K)
             ss == [i \in DOMAIN s |-> IF s[i] \in K THEN <<s[i]>> ELSE <<>>]
  <1>1. ASSUME NEW i \in DOMAIN s PROVE ss[i] \in G
    <2>1. CASE s[i] \in K
      <3>1. s[i] \in E \intersect K
        BY <2>1
      <3> QED BY <2>1, <3>1
    <2>2. CASE s[i] \notin K
      BY <2>2
    <2> QED BY <2>1, <2>2
  <1>2. ss \in Seq(G)
    <2>1. DOMAIN s = 1 .. Len(s) /\ Len(s) \in Nat
      OBVIOUS
    <2>2. ss \in [1 .. Len(s) -> G]
      BY <1>1, <2>1
    <2> HIDE DEF ss, G
    <2> QED BY <2>1, <2>2
  <1>3. G \in SUBSET Seq(E \intersect K) /\ <<>> \in G /\ \A x, y \in G : x \o y \in G
    OBVIOUS
  <1>4. FlattenSeq(ss) \in G
    <2> HIDE DEF ss, G
    <2> QED BY <1>2, <1>3, FlattenIn
  <1> QED BY <1>4

-------------------------------------------------------------------------------
(* Versions.                                                               *)

\* First is the first place of a token, or 0.
LEMMA FirstIs ==
    ASSUME NEW S, NEW s \in Seq(S), NEW t
    PROVE /\ First(s, t) \in 0 .. Len(s)
          /\ First(s, t) = 0 <=> \A i \in 1 .. Len(s) : s[i] # t
          /\ First(s, t) # 0 => /\ s[First(s, t)] = t
                                /\ \A i \in 1 .. Len(s) : s[i] = t => First(s, t) <= i
  <1> DEFINE I == {i \in 1 .. Len(s) : s[i] = t}
  <1>1. First(s, t) = IF I # {} THEN Min(I) ELSE 0
    BY DEF First, SelectInSeq
  <1>2. Len(s) \in Nat /\ I \subseteq 1 .. Len(s)
    OBVIOUS
  <1>3. CASE I = {}
    BY <1>1, <1>2, <1>3
  <1>4. CASE I # {}
    <2>1. I \subseteq Nat
      BY <1>2
    <2>2. PICK x \in I : \A y \in I : x <= y
      <3> HIDE DEF I
      <3> QED BY <1>4, <2>1, LeastNatural
    <2>3. Min(I) \in I /\ \A y \in I : Min(I) <= y
      <3> HIDE DEF I
      <3> QED BY <2>2 DEF Min
    <2> QED BY <1>1, <1>2, <1>4, <2>3
  <1> QED BY <1>3, <1>4

\* What is before and after the first hyphen.
Ver(rest) ==
    IF First(rest, "-") = 0 THEN rest ELSE SubSeq(rest, 1, First(rest, "-") - 1)

Rel(rest) ==
    IF First(rest, "-") = 0 THEN <<>> ELSE SubSeq(rest, First(rest, "-") + 1, Len(rest))

\* As Text does it.
Join(ver, rel) == ver \o (IF rel = <<>> THEN <<>> ELSE <<"-">> \o rel)

\* They can be put together again.
LEMMA SplitJoin ==
    ASSUME NEW S, "-" \in S, NEW rest \in Seq(S),
           rest # <<>> => rest[Len(rest)] # "-"
    PROVE Join(Ver(rest), Rel(rest)) = rest
  <1> DEFINE dash == First(rest, "-")
             ver == Ver(rest)
             rel == Rel(rest)
  <1> /\ dash = First(rest, "-")
      /\ ver = IF dash = 0 THEN rest ELSE SubSeq(rest, 1, dash - 1)
      /\ rel = IF dash = 0 THEN <<>> ELSE SubSeq(rest, dash + 1, Len(rest))
    BY DEF Ver, Rel
  <1> SUFFICES Join(ver, rel) = rest
    OBVIOUS
  <1> HIDE DEF dash, ver, rel
  <1>1. CASE dash = 0
    BY <1>1, ConcatEmptySeq DEF Join
  <1>2. CASE dash # 0
    <2>1. dash \in 1 .. Len(rest) /\ rest[dash] = "-" /\ Len(rest) \in Nat
      BY <1>2, FirstIs
    <2>2. dash < Len(rest)
      BY <2>1
    <2>3. rel \in Seq(S) /\ Len(rel) # 0
      <3>1. \A i \in dash + 1 .. Len(rest) : rest[i] \in S
        BY <2>1
      <3>2. rel = SubSeq(rest, dash + 1, Len(rest)) /\ dash + 1 \in Int /\ Len(rest) \in Int
            /\ dash + 1 <= Len(rest)
        <4>1. dash + 1 \in Int /\ Len(rest) \in Int /\ dash + 1 <= Len(rest)
          BY <2>1, <2>2
        <4> QED BY <1>2, <4>1
      <3>3. SubSeq(rest, dash + 1, Len(rest)) \in Seq(S)
            /\ Len(SubSeq(rest, dash + 1, Len(rest))) = IF dash + 1 <= Len(rest) THEN Len(rest) - (dash + 1) + 1 ELSE 0
        <4> HIDE <1>2, <2>2
        <4> QED BY <3>1, <3>2, SubSeqProperties
      <3> QED BY <3>2, <3>3
    <2>4. rel # <<>>
      BY <2>3
    <2>5. ver \in Seq(S)
      <3>1. \A i \in 1 .. dash - 1 : rest[i] \in S
        BY <2>1
      <3>2. ver = SubSeq(rest, 1, dash - 1) /\ 1 \in Int /\ dash - 1 \in Int
        BY <1>2, <2>1
      <3> QED BY <3>1, <3>2, SubSeqProperties
    <2>6. SubSeq(rest, 1, dash) = ver \o <<"-">>
      <3>1. 1 \in 1 .. Len(rest) /\ dash \in 1 .. Len(rest)
        BY <2>1
      <3>2. SubSeq(rest, 1, dash) = SubSeq(rest, 1, dash - 1) \o <<rest[dash]>>
        BY <3>1, SubSeqRecursiveSecond
      <3> QED BY <1>2, <2>1, <3>2
    <2>7. SubSeq(rest, 1, dash) \o SubSeq(rest, dash + 1, Len(rest)) = SubSeq(rest, 1, Len(rest))
      <3>1. 1 \in 1 .. Len(rest) + 1 /\ dash \in 1 - 1 .. Len(rest) /\ Len(rest) \in dash .. Len(rest)
        BY <2>1
      <3> QED BY <3>1, ConcatAdjacentSubSeq
    <2>8. SubSeq(rest, 1, Len(rest)) = rest
      BY SubSeqFull
    <2>9. rest = (ver \o <<"-">>) \o rel
      BY <1>2, <2>6, <2>7, <2>8
    <2>10. (ver \o <<"-">>) \o rel = ver \o (<<"-">> \o rel)
      <3>1. <<"-">> \in Seq(S)
        OBVIOUS
      <3>2. PICK d \in Seq(S) : d = <<"-">>
        BY <3>1
      <3>3. ver \in Seq(S) /\ rel \in Seq(S)
        BY <2>3, <2>5
      <3>4. (ver \o d) \o rel = ver \o (d \o rel)
        BY ONLY <3>3, ConcatAssociative, d \in Seq(S)
      <3> QED BY <3>2, <3>4
    <2> QED BY <2>4, <2>9, <2>10 DEF Join
  <1> QED BY <1>1, <1>2

\* A text whose version has no hyphen splits into what it was put together from.
LEMMA JoinSplits ==
    ASSUME NEW S, "-" \in S, NEW ver \in Seq(S), NEW rel \in Seq(S),
           \A i \in 1 .. Len(ver) : ver[i] # "-"
    PROVE Ver(Join(ver, rel)) = ver /\ Rel(Join(ver, rel)) = rel
  <1> DEFINE rest == Join(ver, rel)
             dash == First(rest, "-")
  <1> dash = First(rest, "-")
    OBVIOUS
  <1>0. /\ Ver(rest) = IF dash = 0 THEN rest ELSE SubSeq(rest, 1, dash - 1)
        /\ Rel(rest) = IF dash = 0 THEN <<>> ELSE SubSeq(rest, dash + 1, Len(rest))
    BY DEF Ver, Rel
  <1> rest = Join(ver, rel)
    OBVIOUS
  <1> HIDE DEF rest, dash
  <1>1. CASE rel = <<>>
    <2>1. rest = ver
      BY <1>1, ConcatEmptySeq DEF Join
    <2>2. dash = 0
      BY <2>1, FirstIs
    <2> QED BY <1>0, <1>1, <2>1, <2>2 DEF rest
  <1>2. CASE rel # <<>>
    <2> DEFINE tail == <<"-">> \o rel
    <2>0. Len(ver) \in Nat /\ Len(rel) \in Nat
      OBVIOUS
    <2>1. rest = ver \o tail
      BY <1>2 DEF Join
    <2>2. tail \in Seq(S) /\ Len(tail) = 1 + Len(rel)
          /\ \A i \in 1 .. 1 + Len(rel) : tail[i] = IF i <= 1 THEN "-" ELSE rel[i - 1]
      <3>1. <<"-">> \in Seq(S) /\ Len(<<"-">>) = 1 /\ <<"-">>[1] = "-"
        OBVIOUS
      <3>2. PICK d \in Seq(S) : d = <<"-">>
        BY <3>1
      <3>3. Len(d) = 1 /\ d[1] = "-" /\ tail = d \o rel
        BY <3>1, <3>2
      <3>4. /\ d \o rel \in Seq(S) /\ Len(d \o rel) = Len(d) + Len(rel)
            /\ \A i \in 1 .. Len(d) + Len(rel) : (d \o rel)[i] = IF i <= Len(d) THEN d[i] ELSE rel[i - Len(d)]
        BY ConcatProperties
      <3>5. \A i \in 1 .. 1 + Len(rel) : i <= 1 => i = 1
        BY <2>0
      <3> HIDE DEF tail
      <3> QED BY <2>0, <3>3, <3>4, <3>5
    <2> HIDE DEF tail
    <2>3. rest \in Seq(S) /\ Len(rest) = Len(ver) + 1 + Len(rel)
          /\ \A i \in 1 .. Len(rest) : rest[i] = IF i <= Len(ver) THEN ver[i] ELSE tail[i - Len(ver)]
      <3>1. /\ ver \o tail \in Seq(S) /\ Len(ver \o tail) = Len(ver) + Len(tail)
            /\ \A i \in 1 .. Len(ver) + Len(tail) :
                  (ver \o tail)[i] = IF i <= Len(ver) THEN ver[i] ELSE tail[i - Len(ver)]
        BY <2>2, ConcatProperties
      <3>2. Len(ver) + Len(tail) = Len(ver) + 1 + Len(rel)
        BY <2>0, <2>2
      <3> QED BY <2>1, <3>1, <3>2
    <2>4. rest[Len(ver) + 1] = "-" /\ Len(ver) + 1 \in 1 .. Len(rest)
      <3>1. PICK i \in 1 .. Len(rest) : i = Len(ver) + 1
        BY <2>0, <2>3
      <3>2. rest[i] = tail[1] /\ tail[1] = "-"
        <4>1. ~(i <= Len(ver)) /\ i - Len(ver) = 1 /\ 1 \in 1 .. 1 + Len(rel)
          BY <2>0, <3>1
        <4> QED BY <2>2, <2>3, <4>1
      <3> QED BY <3>1, <3>2
    <2>5. dash = Len(ver) + 1
      <3>1. dash # 0 /\ dash \in 0 .. Len(rest) /\ rest[dash] = "-" /\ dash <= Len(ver) + 1
        <4>0. rest \in Seq(S)
          BY <2>3
        <4>1. /\ First(rest, "-") \in 0 .. Len(rest)
              /\ First(rest, "-") = 0 <=> \A i \in 1 .. Len(rest) : rest[i] # "-"
              /\ First(rest, "-") # 0 => /\ rest[First(rest, "-")] = "-"
                     /\ \A i \in 1 .. Len(rest) : rest[i] = "-" => First(rest, "-") <= i
          BY ONLY <4>0, FirstIs
        <4> QED BY <2>4, <4>1
      <3>2. ~(dash <= Len(ver))
        <4> SUFFICES ASSUME dash <= Len(ver) PROVE FALSE
          OBVIOUS
        <4>1. dash \in 1 .. Len(ver) /\ dash \in 1 .. Len(rest)
          BY <2>0, <3>1
        <4> QED BY <2>3, <3>1, <4>1
      <3> QED BY <2>0, <3>1, <3>2
    <2>6. SubSeq(rest, 1, dash - 1) = ver
      <3> DEFINE p == SubSeq(rest, 1, dash - 1)
      <3>1. dash - 1 = Len(ver) /\ 1 \in Int /\ dash - 1 \in Int
        BY <2>0, <2>5
      <3>2. \A i \in 1 .. dash - 1 : rest[i] \in S
        BY <2>3, <3>1
      <3>3. p \in Seq(S) /\ Len(p) = (IF 1 <= dash - 1 THEN dash - 1 - 1 + 1 ELSE 0)
            /\ \A i \in 1 .. dash - 1 - 1 + 1 : p[i] = rest[1 + i - 1]
        BY <3>1, <3>2, SubSeqProperties
      <3> HIDE DEF p
      <3>4. Len(p) = Len(ver)
        BY <2>0, <3>1, <3>3
      <3>5. ASSUME NEW i \in 1 .. Len(p) PROVE p[i] = ver[i]
        <4>1. i \in 1 .. dash - 1 - 1 + 1 /\ 1 + i - 1 = i /\ i \in 1 .. Len(rest) /\ i <= Len(ver)
          BY <2>0, <2>3, <3>1, <3>4
        <4> QED BY <2>3, <3>3, <4>1
      <3>6. p = ver
        BY <3>3, <3>4, <3>5, SeqEqual
      <3> QED BY <3>6 DEF p
    <2>7. SubSeq(rest, dash + 1, Len(rest)) = rel
      <3> DEFINE p == SubSeq(rest, dash + 1, Len(rest))
      <3>1. dash + 1 = Len(ver) + 2 /\ dash + 1 \in Int /\ Len(rest) \in Int
        BY <2>0, <2>3, <2>5
      <3>2. \A i \in dash + 1 .. Len(rest) : rest[i] \in S
        <4>1. \A i \in dash + 1 .. Len(rest) : i \in 1 .. Len(rest)
          BY <2>0, <2>3, <3>1
        <4> QED BY <2>3, <4>1
      <3>3. p \in Seq(S) /\ Len(p) = (IF dash + 1 <= Len(rest) THEN Len(rest) - (dash + 1) + 1 ELSE 0)
            /\ \A i \in 1 .. Len(rest) - (dash + 1) + 1 : p[i] = rest[dash + 1 + i - 1]
        BY <3>1, <3>2, SubSeqProperties
      <3> HIDE DEF p
      <3>4. Len(p) = Len(rel)
        BY <2>0, <2>3, <3>1, <3>3
      <3>5. ASSUME NEW i \in 1 .. Len(p) PROVE p[i] = rel[i]
        <4>1. i \in 1 .. Len(rest) - (dash + 1) + 1
          BY <2>0, <2>3, <3>1, <3>4
        <4>2. PICK j \in 1 .. Len(rest) : j = dash + 1 + i - 1 /\ j = Len(ver) + (i + 1)
          <5>1. dash + 1 + i - 1 = Len(ver) + (i + 1) /\ Len(ver) + (i + 1) \in 1 .. Len(rest)
            BY <2>0, <2>3, <2>5, <3>4
          <5> QED BY <5>1
        <4>3. ~(j <= Len(ver)) /\ j - Len(ver) = i + 1 /\ i + 1 \in 1 .. 1 + Len(rel)
              /\ ~(i + 1 <= 1) /\ i + 1 - 1 = i
          BY <2>0, <3>4, <4>2
        <4>4. p[i] = rest[j]
          BY <3>3, <4>1, <4>2
        <4>5. rest[j] = tail[i + 1]
          BY <2>3, <4>3
        <4>6. tail[i + 1] = rel[i]
          BY <2>2, <4>3
        <4> QED BY <4>4, <4>5, <4>6
      <3>6. p = rel
        BY <3>3, <3>4, <3>5, SeqEqual
      <3> QED BY <3>6 DEF p
    <2>8. dash # 0
      BY <2>0, <2>5
    <2> QED BY <1>0, <2>6, <2>7, <2>8 DEF rest
  <1> QED BY <1>1, <1>2

\* The number before a colon, if there is one.
LEMMA NumberIs ==
    ASSUME NEW token
    PROVE Number(token) = IF token \in DOMAIN Numbers THEN {Numbers[token]} ELSE {}
  BY DEF Number

\* An epoch is what is before a colon that comes second, if it spells a number.
HasEpoch(value) == Len(value) >= 2 /\ value[2] = ":" /\ value[1] \in DOMAIN Numbers

\* What follows the epoch.
Rest(value) == IF HasEpoch(value) THEN SubSeq(value, 3, Len(value)) ELSE value

\* ParseVersion, in these terms.
LEMMA ParseVersionIs ==
    ASSUME NEW S, NEW value \in Seq(S)
    PROVE ParseVersion(value) =
              [epoch |-> IF HasEpoch(value) THEN Numbers[value[1]] ELSE 0,
               ver |-> Ver(Rest(value)), rel |-> Rel(Rest(value))]
  <1> DEFINE rest == Rest(value)
             colon == First(value, ":")
             epoch == IF colon = 2 THEN Number(value[1]) ELSE {}
  <1>1. /\ colon \in 0 .. Len(value)
        /\ colon = 0 <=> \A i \in 1 .. Len(value) : value[i] # ":"
        /\ colon # 0 => /\ value[colon] = ":"
                        /\ \A i \in 1 .. Len(value) : value[i] = ":" => colon <= i
    BY FirstIs
  <1> HIDE DEF colon
  <1>2. CASE HasEpoch(value)
    <2>1. 2 \in 1 .. Len(value) /\ 1 \in 1 .. Len(value) /\ value[2] = ":" /\ value[1] # ":"
      BY <1>2, NumbersAssumption DEF HasEpoch
    <2>2. colon = 2
      <3>1. colon # 0 /\ colon <= 2 /\ colon # 1
        BY <1>1, <2>1
      <3> QED BY <1>1, <3>1
    <2>3. epoch = {Numbers[value[1]]}
      BY <1>2, <2>2, NumberIs DEF HasEpoch
    <2>4. rest = SubSeq(value, colon + 1, Len(value))
      BY <1>2, <2>2 DEF Rest
    <2>5. (CHOOSE e \in epoch : TRUE) = Numbers[value[1]]
      BY <2>3
    <2>6. (CHOOSE e \in epoch : TRUE) = Numbers[value[1]] /\ epoch # {}
      BY <2>3, <2>5
    <2> QED BY <1>2, <2>4, <2>6 DEF ParseVersion, Ver, Rel, colon
  <1>3. CASE ~HasEpoch(value)
    <2>1. epoch = {}
      <3> SUFFICES ASSUME colon = 2 PROVE value[1] \notin DOMAIN Numbers
        BY NumberIs
      <3> QED BY <1>1, <1>3 DEF HasEpoch
    <2>2. rest = value
      BY <1>3 DEF Rest
    <2> QED BY <1>3, <2>1, <2>2 DEF ParseVersion, Ver, Rel, colon
  <1> QED BY <1>2, <1>3

\* A value with an epoch is its number, a colon and the rest.
LEMMA EpochSplits ==
    ASSUME NEW S, ":" \in S, NEW value \in Seq(S), HasEpoch(value)
    PROVE value = <<value[1], ":">> \o Rest(value) /\ Rest(value) \in Seq(S)
          /\ (Rest(value) # <<>> => Rest(value)[Len(Rest(value))] = value[Len(value)])
  <1> DEFINE n == Len(value)
             head == <<value[1], ":">>
             rest == Rest(value)
  <1>1. n \in Nat /\ n >= 2 /\ value[2] = ":" /\ rest = SubSeq(value, 3, n)
    BY DEF HasEpoch, Rest
  <1>2. head \in Seq(S) /\ Len(head) = 2 /\ head[1] = value[1] /\ head[2] = ":"
    BY <1>1
  <1>3. rest \in Seq(S) /\ Len(rest) = n - 2 /\ \A i \in 1 .. n - 2 : rest[i] = value[2 + i]
    <2>1. \A i \in 3 .. n : value[i] \in S
      BY <1>1
    <2>2. /\ SubSeq(value, 3, n) \in Seq(S)
          /\ Len(SubSeq(value, 3, n)) = IF 3 <= n THEN n - 3 + 1 ELSE 0
          /\ \A i \in 1 .. n - 3 + 1 : SubSeq(value, 3, n)[i] = value[3 + i - 1]
      <3> HIDE DEF n
      <3>1. 3 \in Int /\ n \in Int
        BY <1>1
      <3> QED BY <2>1, <3>1, SubSeqProperties
    <2> HIDE DEF n, rest
    <2>3. \A i \in 1 .. n - 2 : i \in 1 .. n - 3 + 1 /\ 3 + i - 1 = 2 + i
      BY <1>1
    <2> QED BY <1>1, <2>2, <2>3
  <1> HIDE DEF head, rest
  <1>4. head \o rest = value
    <2>1. /\ head \o rest \in Seq(S) /\ Len(head \o rest) = Len(head) + Len(rest)
          /\ \A i \in 1 .. Len(head) + Len(rest) :
                (head \o rest)[i] = IF i <= Len(head) THEN head[i] ELSE rest[i - Len(head)]
      BY <1>2, <1>3, ConcatProperties
    <2> HIDE DEF n
    <2>2. Len(head) + Len(rest) = n
      BY <1>1, <1>2, <1>3
    <2>3. ASSUME NEW i \in 1 .. n PROVE (head \o rest)[i] = value[i]
      <3>1. CASE i <= 2
        <4>1. i = 1 \/ i = 2
          BY <1>1, <3>1
        <4> QED BY <1>1, <1>2, <2>1, <2>2, <3>1, <4>1
      <3>2. CASE ~(i <= 2)
        <4>1. i - 2 \in 1 .. n - 2 /\ 2 + (i - 2) = i
          BY <1>1, <3>2
        <4>2. rest[i - 2] = value[2 + (i - 2)]
          BY <1>3, <4>1
        <4> QED BY <1>2, <2>1, <2>2, <3>2, <4>1, <4>2
      <3> QED BY <3>1, <3>2
    <2> QED BY <2>1, <2>2, <2>3, SeqEqual DEF n
  <1>5. rest # <<>> => rest[Len(rest)] = value[n]
    <2> SUFFICES ASSUME rest # <<>> PROVE rest[Len(rest)] = value[n]
      OBVIOUS
    <2> HIDE DEF n
    <2>1. Len(rest) # 0
      BY <1>3
    <2>2. n - 2 \in 1 .. n - 2 /\ 2 + (n - 2) = n
      BY <1>1, <1>3, <2>1
    <2> QED BY <1>3, <2>2
  <1> QED BY <1>3, <1>4, <1>5 DEF n, rest, head

\* What a version is read as is what it means.
LEMMA ParseMeans ==
    ASSUME NEW S, "-" \in S, ":" \in S, NEW value \in Seq(S), value # <<>> => value[Len(value)] # "-"
    PROVE Means(value, ParseVersion(value))
  <1> DEFINE rest == Rest(value)
             v == ParseVersion(value)
             ver == Ver(rest)
             rel == Rel(rest)
  <1>1. v = [epoch |-> IF HasEpoch(value) THEN Numbers[value[1]] ELSE 0, ver |-> ver, rel |-> rel]
    BY ParseVersionIs
  <1>2. rest \in Seq(S) /\ (rest # <<>> => rest[Len(rest)] # "-")
    <2>1. CASE HasEpoch(value)
      <3>1. value # <<>>
        BY <2>1 DEF HasEpoch
      <3> QED BY <2>1, <3>1, EpochSplits
    <2>2. CASE ~HasEpoch(value)
      BY <2>2 DEF Rest
    <2> QED BY <2>1, <2>2
  <1>3. Join(ver, rel) = rest
    <2> HIDE DEF rest
    <2>1. "-" \in S
      OBVIOUS
    <2> QED BY <1>2, <2>1, SplitJoin
  <1>4. Text(v) = rest /\ v.epoch = IF HasEpoch(value) THEN Numbers[value[1]] ELSE 0
    <2> HIDE DEF v, rest, ver, rel
    <2> QED BY <1>1, <1>3 DEF Text, Join
  <1> HIDE DEF v, rest, ver, rel
  <1>5. CASE HasEpoch(value)
    <2>1. value = <<value[1], ":">> \o rest /\ value[1] \in DOMAIN Numbers
      BY <1>5, EpochSplits DEF HasEpoch, rest
    <2> QED BY <1>4, <1>5, <2>1 DEF Means, v
  <1>6. CASE ~HasEpoch(value)
    <2>1. value = rest
      BY <1>6 DEF Rest, rest
    <2> QED BY <1>4, <1>6, <2>1 DEF Means, HasEpoch, v
  <1> QED BY <1>5, <1>6

\* A value that means a version whose upstream part has no hyphen is read as that one.
LEMMA MeansParse ==
    ASSUME NEW S, "-" \in S, ":" \in S, DOMAIN Numbers \subseteq S,
           NEW value \in Seq(S), NEW epoch, NEW ver \in Seq(S), NEW rel \in Seq(S),
           "-" \notin Range(ver), Means(value, [epoch |-> epoch, ver |-> ver, rel |-> rel])
    PROVE ParseVersion(value) = [epoch |-> epoch, ver |-> ver, rel |-> rel]
  <1> DEFINE v == [epoch |-> epoch, ver |-> ver, rel |-> rel]
             rest == Rest(value)
  <1>1. Text(v) = Join(ver, rel)
    BY DEF Text, Join
  <1>2. Join(ver, rel) \in Seq(S)
    BY DEF Join
  <1>3. rest = Join(ver, rel) /\ epoch = IF HasEpoch(value) THEN Numbers[value[1]] ELSE 0
    <2>1. CASE ~HasEpoch(value) /\ epoch = 0 /\ value = Text(v)
      BY <1>1, <2>1 DEF Rest
    <2>2. ASSUME NEW n \in DOMAIN Numbers, epoch = Numbers[n], value = <<n, ":">> \o Text(v)
          PROVE rest = Join(ver, rel) /\ epoch = IF HasEpoch(value) THEN Numbers[value[1]] ELSE 0
      <3> DEFINE t == Join(ver, rel)
      <3>0. n \in S
        OBVIOUS
      <3>9. <<n, ":">> \in Seq(S) /\ Len(<<n, ":">>) = 2 /\ <<n, ":">>[1] = n /\ <<n, ":">>[2] = ":"
        BY <3>0
      <3>1. PICK h \in Seq(S) : h = <<n, ":">> /\ Len(h) = 2 /\ h[1] = n /\ h[2] = ":"
        BY <3>9
      <3> HIDE DEF t
      <3>2. value = h \o t /\ t \in Seq(S)
        BY <1>1, <1>2, <2>2, <3>1 DEF t
      <3>3. /\ Len(value) = 2 + Len(t)
            /\ \A i \in 1 .. 2 + Len(t) : value[i] = IF i <= 2 THEN h[i] ELSE t[i - 2]
        BY <3>1, <3>2, ConcatProperties
      <3>4. Len(t) \in Nat
        BY <3>2
      <3>5. value[1] = n /\ value[2] = ":" /\ Len(value) >= 2
        BY <3>1, <3>3, <3>4
      <3>6. HasEpoch(value)
        BY <3>5 DEF HasEpoch
      <3>7. value = h \o rest /\ rest \in Seq(S)
        BY <3>1, <3>5, <3>6, EpochSplits
      <3> HIDE DEF rest
      <3>8. rest = t
        BY ONLY <3>2, <3>7, h \in Seq(S), ConcatSimplifications
      <3> QED BY <2>2, <3>5, <3>6, <3>8 DEF t, rest
    <2>3. v.epoch = epoch
      OBVIOUS
    <2> QED BY <2>1, <2>2, <2>3 DEF Means, HasEpoch
  <1> HIDE DEF rest
  <1>4. ver = Ver(rest) /\ rel = Rel(rest)
    <2>1. \A i \in 1 .. Len(ver) : ver[i] # "-"
      BY DEF Range
    <2>2. "-" \in S
      OBVIOUS
    <2> QED BY <1>3, <2>1, <2>2, JoinSplits
  <1>5. ParseVersion(value) =
              [epoch |-> IF HasEpoch(value) THEN Numbers[value[1]] ELSE 0,
               ver |-> Ver(rest), rel |-> Rel(rest)]
    BY ParseVersionIs DEF rest
  <1> QED BY <1>3, <1>4, <1>5

-------------------------------------------------------------------------------
(* What the entries of a document say.                                     *)

\* An entry asks for the versions its dependency asks for, whatever other flags that
\* one has, and for none if it asks for none: no comparison is lost, turned round or
\* made strict.  (No dependency asks for both lower and higher versions.)
THEOREM FlagsKeepSense ==
    ASSUME NEW flags, ~({"LESS", "GREATER"} \subseteq flags)
    PROVE IF RepodataFlags(flags) = ""
          THEN {"LESS", "GREATER", "EQUAL"} \intersect flags = {}
          ELSE Sense[RepodataFlags(flags)] = flags \intersect {"LESS", "GREATER", "EQUAL"}
  <1> DEFINE asks == flags \intersect {"LESS", "GREATER", "EQUAL"}
  <1>1. /\ Sense["LT"] = {"LESS"} /\ Sense["LE"] = {"LESS", "EQUAL"} /\ Sense["EQ"] = {"EQUAL"}
        /\ Sense["GE"] = {"GREATER", "EQUAL"} /\ Sense["GT"] = {"GREATER"}
    BY DEF Sense
  <1>2. CASE "LESS" \in flags /\ "EQUAL" \in flags
    <2>1. RepodataFlags(flags) = "LE" /\ asks = {"LESS", "EQUAL"}
      BY <1>2 DEF RepodataFlags
    <2> QED
      BY <1>1, <2>1
  <1>3. CASE "LESS" \in flags /\ "EQUAL" \notin flags
    <2>1. RepodataFlags(flags) = "LT" /\ asks = {"LESS"}
      BY <1>3 DEF RepodataFlags
    <2> QED
      BY <1>1, <2>1
  <1>4. CASE "LESS" \notin flags /\ "GREATER" \in flags /\ "EQUAL" \in flags
    <2>1. RepodataFlags(flags) = "GE" /\ asks = {"GREATER", "EQUAL"}
      BY <1>4 DEF RepodataFlags
    <2> QED
      BY <1>1, <2>1
  <1>5. CASE "LESS" \notin flags /\ "GREATER" \in flags /\ "EQUAL" \notin flags
    <2>1. RepodataFlags(flags) = "GT" /\ asks = {"GREATER"}
      BY <1>5 DEF RepodataFlags
    <2> QED
      BY <1>1, <2>1
  <1>6. CASE "LESS" \notin flags /\ "GREATER" \notin flags /\ "EQUAL" \in flags
    <2>1. RepodataFlags(flags) = "EQ" /\ asks = {"EQUAL"}
      BY <1>6 DEF RepodataFlags
    <2> QED
      BY <1>1, <2>1
  <1>7. CASE "LESS" \notin flags /\ "GREATER" \notin flags /\ "EQUAL" \notin flags
    <2>1. RepodataFlags(flags) = "" /\ asks = {}
      BY <1>7 DEF RepodataFlags
    <2> QED
      BY <2>1
  <1> QED
    BY <1>2, <1>3, <1>4, <1>5, <1>6, <1>7

\* Dependencies as rpmbuild writes them.
Proper(dep) ==
    /\ ~({"LESS", "GREATER"} \subseteq dep.flags)
    /\ dep.version \in Seq(STRING)
    /\ dep.version # <<>> => dep.version[Len(dep.version)] # "-"

\* An entry asks for what its dependency asks for.
LEMMA EntryKeeps ==
    ASSUME NEW dep, Proper(dep)
    PROVE SameDependency(Entry(dep), dep)
  <1> DEFINE S == STRING \union {"-", ":"}
             flags == RepodataFlags(dep.flags)
  <1>1. dep.version \in Seq(S)
    BY DEF Proper
  <1>2. Means(dep.version, ParseVersion(dep.version))
    <2>1. "-" \in S /\ ":" \in S
      OBVIOUS
    <2> HIDE DEF S
    <2> QED BY <1>1, <2>1, ParseMeans DEF Proper
  <1>3. IF flags = "" THEN {"LESS", "GREATER", "EQUAL"} \intersect dep.flags = {}
        ELSE Sense[flags] = dep.flags \intersect {"LESS", "GREATER", "EQUAL"}
    BY FlagsKeepSense DEF Proper
  <1>4. Entry(dep) = [name |-> dep.name, flags |-> flags,
                      version |-> IF flags = "" THEN {} ELSE {ParseVersion(dep.version)}]
    BY DEF Entry
  <1> HIDE DEF flags
  <1>5. PICK asked : asked = IF flags = "" THEN {} ELSE {ParseVersion(dep.version)}
    OBVIOUS
  <1>6. /\ Entry(dep).name = dep.name /\ Entry(dep).flags = flags /\ Entry(dep).version = asked
        /\ \A version \in asked : version = ParseVersion(dep.version)
    <2>1. Entry(dep) = [name |-> dep.name, flags |-> flags, version |-> asked]
      BY <1>4, <1>5
    <2>2. \A version \in asked : version = ParseVersion(dep.version)
      BY <1>5
    <2> QED BY <2>1, <2>2
  <1> QED BY <1>2, <1>3, <1>6 DEF SameDependency

\* A provision of the package under its own version is read as just that.
LEMMA OwnVersion ==
    ASSUME NEW dep, dep.version \in Seq(STRING), "EQUAL" \in dep.flags,
           ~({"LESS", "GREATER"} \subseteq dep.flags),
           NEW rpm, rpm.ver \in Seq(STRING), rpm.rel \in Seq(STRING), "-" \notin Range(rpm.ver),
           Means(dep.version, HeaderVersion(rpm))
    PROVE Entry(dep).name = dep.name /\ Entry(dep).version = {HeaderVersion(rpm)}
  <1> DEFINE S == STRING \union {"-", ":"}
             epoch == HeaderVersion(rpm).epoch
  <1>1. HeaderVersion(rpm) = [epoch |-> epoch, ver |-> rpm.ver, rel |-> rpm.rel]
    BY DEF HeaderVersion
  <1>2. dep.version \in Seq(S) /\ rpm.ver \in Seq(S) /\ rpm.rel \in Seq(S)
    OBVIOUS
  <1>3. "-" \in S /\ ":" \in S /\ DOMAIN Numbers \subseteq S
    BY NumbersAssumption
  <1> HIDE DEF S, epoch
  <1>4. PICK v : v = dep.version
    OBVIOUS
  <1>5. PICK ver, rel, h : ver = rpm.ver /\ rel = rpm.rel /\ h = HeaderVersion(rpm)
    OBVIOUS
  <1>6. /\ v \in Seq(S) /\ ver \in Seq(S) /\ rel \in Seq(S) /\ "-" \notin Range(ver)
        /\ h = [epoch |-> epoch, ver |-> ver, rel |-> rel] /\ Means(v, h)
    BY <1>1, <1>2, <1>4, <1>5
  <1>7. ParseVersion(v) = h
    BY ONLY <1>3, <1>6, MeansParse
  <1>8. RepodataFlags(dep.flags) # ""
    BY FlagsKeepSense
  <1> QED BY <1>1, <1>4, <1>5, <1>7, <1>8 DEF Entry

\* The dependencies of a package survive in what PrimaryMetan writes.
Survives(rpm) ==
    LET format == PrimaryFormat(rpm)
        kept   == Filtered(rpm.requires, LAMBDA dep : "RPMLIB" \notin dep.flags)
    IN /\ Len(format.requires) = Len(kept)
       /\ \A i \in DOMAIN kept : SameDependency(format.requires[i], kept[i])
       /\ \A i \in DOMAIN rpm.provides : SameDependency(format.provides[i], rpm.provides[i])
       /\ \E entry \in Range(format.provides) :
             entry.name = rpm.name /\ entry.version = {HeaderVersion(rpm)}
       /\ Range(format.files) \subseteq Range(FilelistsFrag(rpm).files)

\* What PrimaryMetan writes of a properly built package keeps its dependencies.
LEMMA FormatSurvives ==
    ASSUME NEW rpm, BuiltProperly(rpm)
    PROVE Survives(rpm)
  <1> DEFINE kept == Filtered(rpm.requires, LAMBDA dep : "RPMLIB" \notin dep.flags)
             shown == Filtered(rpm.files, LAMBDA f : IsPrimary(f.path))
             format == PrimaryFormat(rpm)
  <1>1. /\ format.requires = [i \in DOMAIN kept |-> Entry(kept[i])]
        /\ format.provides = [i \in DOMAIN rpm.provides |-> Entry(rpm.provides[i])]
        /\ format.files = [i \in DOMAIN shown |-> FileEntry(shown[i])]
        /\ FilelistsFrag(rpm).files = [i \in DOMAIN rpm.files |-> FileEntry(rpm.files[i])]
    BY DEF PrimaryFormat, Requires, Entries, FileEntries, FilelistsFrag
  <1>2. kept \in Seq(Range(rpm.requires))
    <2> DEFINE s == rpm.requires
               E == Range(s)
               K == {dep \in E : "RPMLIB" \notin dep.flags}
    <2>1. s \in Seq(E)
      BY SeqOfRange DEF BuiltProperly
    <2>2. \A i \in DOMAIN s : s[i] \in E
      BY DEF Range
    <2>3. kept = FlattenSeq([i \in DOMAIN s |-> IF s[i] \in K THEN <<s[i]>> ELSE <<>>])
      <3>1. [i \in DOMAIN s |-> IF "RPMLIB" \notin s[i].flags THEN <<s[i]>> ELSE <<>>]
              = [i \in DOMAIN s |-> IF s[i] \in K THEN <<s[i]>> ELSE <<>>]
        BY <2>2
      <3> QED BY <3>1 DEF Filtered
    <2> HIDE DEF kept, K, E
    <2>4. kept \in Seq(E \intersect K)
      BY <2>1, <2>3, KeptIn
    <2> QED BY <2>4 DEF E
  <1>3. shown \in Seq(Range(rpm.files))
    <2> DEFINE s == rpm.files
               E == Range(s)
               K == {f \in E : IsPrimary(f.path)}
    <2>1. s \in Seq(E)
      BY DEF BuiltProperly, Range
    <2>2. \A i \in DOMAIN s : s[i] \in E
      BY DEF Range
    <2>3. shown = FlattenSeq([i \in DOMAIN s |-> IF s[i] \in K THEN <<s[i]>> ELSE <<>>])
      <3>1. [i \in DOMAIN s |-> IF IsPrimary(s[i].path) THEN <<s[i]>> ELSE <<>>]
              = [i \in DOMAIN s |-> IF s[i] \in K THEN <<s[i]>> ELSE <<>>]
        BY <2>2
      <3> QED BY <3>1 DEF Filtered
    <2> HIDE DEF shown, K, E
    <2>4. shown \in Seq(E \intersect K)
      BY <2>1, <2>3, KeptIn
    <2> QED BY <2>4 DEF E
  <1>4. ASSUME NEW dep \in Range(rpm.requires) \union Range(rpm.provides)
        PROVE SameDependency(Entry(dep), dep)
    <2>1. dep \in Dependency
      BY DEF BuiltProperly, Range
    <2>2. Proper(dep)
      BY <2>1 DEF BuiltProperly, Dependency, Proper, Last
    <2> QED BY <2>2, EntryKeeps
  <1> HIDE DEF kept, shown, format
  <1>5. Len(format.requires) = Len(kept) /\ \A i \in DOMAIN kept : SameDependency(format.requires[i], kept[i])
    <2>1. \A i \in DOMAIN kept : kept[i] \in Range(rpm.requires)
      BY <1>2
    <2>2. DOMAIN kept = 1 .. Len(kept) /\ Len(kept) \in Nat
      BY <1>2
    <2>3. Len(format.requires) = Len(kept)
      BY <1>1, <2>2
    <2> QED BY <1>1, <1>4, <2>1, <2>3
  <1>6. \A i \in DOMAIN rpm.provides : SameDependency(format.provides[i], rpm.provides[i])
    BY <1>1, <1>4 DEF Range
  <1>7. \E entry \in Range(format.provides) :
             entry.name = rpm.name /\ entry.version = {HeaderVersion(rpm)}
    <2>1. PICK i \in DOMAIN rpm.provides :
              LET dep == rpm.provides[i]
              IN dep.name = rpm.name /\ "EQUAL" \in dep.flags /\ Means(dep.version, HeaderVersion(rpm))
      BY DEF BuiltProperly, Range
    <2>2. PICK dep : dep = rpm.provides[i]
      OBVIOUS
    <2>3. dep \in Dependency /\ dep \in Range(rpm.provides)
      BY <2>2 DEF BuiltProperly, Range
    <2>4. /\ dep.version \in Seq(STRING) /\ ~({"LESS", "GREATER"} \subseteq dep.flags)
          /\ rpm.ver \in Seq(STRING) /\ rpm.rel \in Seq(STRING) /\ "-" \notin Range(rpm.ver)
      BY <2>3 DEF BuiltProperly, Dependency
    <2>5. Entry(dep).name = rpm.name /\ Entry(dep).version = {HeaderVersion(rpm)}
      BY <2>1, <2>2, <2>4, OwnVersion
    <2>6. Entry(dep) \in Range(format.provides)
      BY <1>1, <2>2 DEF Range
    <2> QED BY <2>5, <2>6
  <1>8. Range(format.files) \subseteq Range(FilelistsFrag(rpm).files)
    <2>1. \A i \in DOMAIN shown : \E j \in DOMAIN rpm.files : shown[i] = rpm.files[j]
      BY <1>3 DEF Range
    <2> QED BY <1>1, <2>1 DEF Range
  <1> QED BY <1>5, <1>6, <1>7, <1>8 DEF Survives, format, kept

\* The packages in primary.xml are among the properly built ones.
LEMMA ListedSurvive ==
    ASSUME CacheInv, GenInv, \A v \in Vers : BuiltProperly(Rpm[v])
    PROVE DependenciesSurvive
  <1> SUFFICES ASSUME gen # None, gen.body["primary"] # None, NEW k \in Listed("primary")
               PROVE LET rpm    == Rpm[gen.body["primary"][k]]
                         format == Fragment("primary", k).format
                         kept   == Filtered(rpm.requires, LAMBDA dep : "RPMLIB" \notin dep.flags)
                     IN /\ Len(format.requires) = Len(kept)
                        /\ \A i \in DOMAIN kept : SameDependency(format.requires[i], kept[i])
                        /\ \A i \in DOMAIN rpm.provides :
                              SameDependency(format.provides[i], rpm.provides[i])
                        /\ \E entry \in Range(format.provides) :
                              entry.name = rpm.name /\ entry.version = {HeaderVersion(rpm)}
                        /\ Range(format.files) \subseteq Range(FilelistsFrag(rpm).files)
    BY DEF DependenciesSurvive
  <1> DEFINE rpm == Rpm[gen.body["primary"][k]]
  <1>1. gen.body["primary"][k] \in Vers
    <2>1. "primary" \in Metans
      BY DEF Metans, Required
    <2> QED BY <2>1, ListedContents
  <1>2. Survives(rpm)
    <2>1. BuiltProperly(rpm)
      BY <1>1
    <2> HIDE DEF rpm
    <2> QED BY <2>1, FormatSurvives
  <1>3. Fragment("primary", k).format = PrimaryFormat(rpm)
    BY DEF Fragment, Compute, PrimaryFrag
  <1> QED BY <1>2, <1>3 DEF Survives

\* primary.xml tells resolvers what the headers say, for any set of properly built rpms.
THEOREM DependenciesAreKept ==
    ASSUME \A v \in Vers : BuiltProperly(Rpm[v])
    PROVE IndexSpec => []DependenciesSurvive
  <1>1. CacheInv /\ GenInv => DependenciesSurvive
    BY ListedSurvive
  <1> QED BY <1>1, CacheKept, GenInvariant, PTL

-------------------------------------------------------------------------------
(* The appstream document.                                                 *)

\* After i events of a file, opened[i] is open.
Opens(opened, events, ignored) ==
    /\ opened[0] = {<<>>}
    /\ \A i, j \in 0 .. Len(events) : j = i + 1 =>
           opened[j] = IF events[j].is \in ignored THEN opened[i] ELSE Reads(opened[i], events[j])

\* Balanced is about the one function there is.
LEMMA BalancedIs ==
    ASSUME NEW E, NEW events \in Seq(E), NEW ignored, NEW f, Opens(f, events, ignored)
    PROVE Balanced(events, ignored) <=> f[Len(events)] = {<<>>}
  <1> DEFINE n == Len(events)
             Is(g) == g = [i \in 0 .. n |->
                              IF i = 0 THEN {<<>>}
                              ELSE IF events[i].is \in ignored THEN g[i - 1]
                              ELSE Reads(g[i - 1], events[i])]
             c == CHOOSE g : Is(g)
             r == [i \in 0 .. n |-> f[i]]
  <1>1. n \in Nat
    OBVIOUS
  <1>2. f[0] = {<<>>} /\ \A i, j \in 0 .. n : j = i + 1 =>
            f[j] = IF events[j].is \in ignored THEN f[i] ELSE Reads(f[i], events[j])
    BY DEF Opens
  <1>3. Balanced(events, ignored) <=> c[n] = {<<>>}
    BY DEF Balanced
  <1>4. Is(r)
    <2>1. ASSUME NEW i \in 0 .. n
          PROVE r[i] = IF i = 0 THEN {<<>>}
                       ELSE IF events[i].is \in ignored THEN r[i - 1] ELSE Reads(r[i - 1], events[i])
      <3>1. CASE i = 0
        BY <1>2, <3>1
      <3>2. CASE i # 0
        <4>1. PICK k \in 0 .. n : i = k + 1
          <5>1. i - 1 \in 0 .. n /\ i = (i - 1) + 1
            BY <1>1, <3>2
          <5> QED BY <5>1
        <4>2. i - 1 = k
          BY <1>1, <4>1
        <4>3. r[i] = f[i] /\ r[k] = f[k]
          OBVIOUS
        <4>4. f[i] = IF events[i].is \in ignored THEN f[k] ELSE Reads(f[k], events[i])
          <5> HIDE DEF n
          <5> QED BY <1>2, <4>1
        <4> HIDE DEF r, n
        <4> QED BY <3>2, <4>2, <4>3, <4>4
      <3> QED BY <3>1, <3>2
    <2> QED BY <2>1
  <1>5. Is(c)
    <2> HIDE DEF Is
    <2> QED BY <1>4
  <1>6. 0 .. n \subseteq {i \in 0 .. n : c[i] = f[i]}
    <2> DEFINE T == {i \in 0 .. n : c[i] = f[i]}
    <2>1. \A i \in 0 .. n : c[i] = IF i = 0 THEN {<<>>}
                       ELSE IF events[i].is \in ignored THEN c[i - 1] ELSE Reads(c[i - 1], events[i])
      <3> HIDE DEF c
      <3> QED BY <1>5
    <2> HIDE DEF c, Is
    <2>2. 0 \in T
      <3>1. 0 \in 0 .. n
        BY <1>1
      <3>2. c[0] = {<<>>}
        <4> HIDE DEF n
        <4> QED BY <2>1, <3>1
      <3> QED BY <1>2, <3>1, <3>2
    <2>3. ASSUME NEW i \in 0 .. n, NEW j \in 0 .. n, i \in T, j = i + 1 PROVE j \in T
      <3>1. j # 0 /\ j - 1 = i
        BY <1>1, <2>3
      <3>2. c[j] = IF events[j].is \in ignored THEN c[i] ELSE Reads(c[i], events[j])
        <4> HIDE DEF n, T
        <4> QED BY <2>1, <3>1
      <3>3. f[j] = IF events[j].is \in ignored THEN f[i] ELSE Reads(f[i], events[j])
        <4> HIDE DEF n, T
        <4> QED BY <1>2, <2>3
      <3>4. c[i] = f[i]
        BY <2>3
      <3>5. c[j] = f[j]
        BY <3>2, <3>3, <3>4
      <3> QED BY <3>5
    <2>4. 0 .. n \subseteq T
      <3> HIDE DEF n, T
      <3> QED BY <1>1, <2>2, <2>3, InductUpto
    <2> QED BY <2>4
  <1>7. c[n] = f[n]
    <2> HIDE DEF c, n
    <2>1. n \in 0 .. n
      BY <1>1
    <2> QED BY <1>6, <2>1
  <1> QED BY <1>3, <1>7

\* Names that are open.
Stacks == SUBSET Seq(STRING)

\* One event leads from stacks to stacks.
LEMMA ReadsStacks ==
    ASSUME NEW open \in Stacks, NEW event \in Event
    PROVE Reads(open, event) \in Stacks
  <1>1. \A names \in open : names \in Seq(STRING)
    BY DEF Stacks
  <1>2. event.name \in STRING
    BY DEF Event
  <1>3. \A names \in open : <<event.name>> \o names \in Seq(STRING)
    BY <1>1, <1>2
  <1>4. \A names \in open : names # <<>> => Tail(names) \in Seq(STRING)
    BY <1>1
  <1> QED BY <1>3, <1>4 DEF Reads, Stacks

\* Every file can be read.
LEMMA OpensExists ==
    ASSUME NEW events \in Seq(Event), NEW ignored
    PROVE \E f \in [0 .. Len(events) -> Stacks] : Opens(f, events, ignored)
  <1> DEFINE n == Len(events)
             first == {<<>>}
             step == [i \in 1 .. n |-> [open \in Stacks |->
                        IF events[i].is \in ignored THEN open ELSE Reads(open, events[i])]]
  <1>1. n \in Nat /\ first \in Stacks /\ \A i \in 1 .. n : events[i] \in Event
    BY DEF Stacks
  <1>2. step \in [1 .. n -> [Stacks -> Stacks]]
    BY <1>1, ReadsStacks
  <1>3. PICK f \in [0 .. n -> Stacks] : Iterates(f, first, step, n)
    <2> HIDE DEF n, step, first
    <2> QED BY <1>1, <1>2, Recursion
  <1>4. ASSUME NEW i \in 0 .. n, NEW j \in 0 .. n, j = i + 1
        PROVE f[j] = IF events[j].is \in ignored THEN f[i] ELSE Reads(f[i], events[j])
    <2>1. j \in 1 .. n /\ j - 1 = i
      <3> HIDE DEF n
      <3> QED BY <1>1, <1>4
    <2>2. f[i] \in Stacks
      <3> HIDE DEF n
      <3> QED OBVIOUS
    <2>3. f[j] = step[j][f[i]]
      <3> HIDE DEF step, n
      <3> QED BY <1>3, <2>1 DEF Iterates
    <2> QED BY <2>1, <2>2, <2>3
  <1>5. f[0] = {<<>>}
    BY <1>3 DEF Iterates
  <1> QED BY <1>4, <1>5 DEF Opens

\* What is malformed stays so: a balanced file has no error in it.
LEMMA NoError ==
    ASSUME NEW E, NEW events \in Seq(E), NEW ignored, "error" \notin ignored,
           NEW f, Opens(f, events, ignored), f[Len(events)] = {<<>>},
           NEW e \in 1 .. Len(events)
    PROVE events[e].is # "error"
  <1> SUFFICES ASSUME events[e].is = "error" PROVE FALSE
    OBVIOUS
  <1> DEFINE n == Len(events)
             T == {i \in 0 .. n : i >= e => f[i] = {}}
  <1>1. n \in Nat /\ e \in 1 .. n
    OBVIOUS
  <1>2. \A i, j \in 0 .. n : j = i + 1 =>
            f[j] = IF events[j].is \in ignored THEN f[i] ELSE Reads(f[i], events[j])
    BY DEF Opens
  <1>3. 0 \in T
    BY <1>1
  <1>4. ASSUME NEW i \in 0 .. n, NEW j \in 0 .. n, i \in T, j = i + 1 PROVE j \in T
    <2>1. f[j] = IF events[j].is \in ignored THEN f[i] ELSE Reads(f[i], events[j])
      <3> HIDE DEF n, T
      <3> QED BY <1>2, <1>4
    <2>2. CASE j = e
      <3>1. f[j] = {}
        BY <2>1, <2>2 DEF Reads
      <3> QED BY <3>1
    <2>3. CASE j > e
      <3>1. f[i] = {}
        BY <1>1, <1>4, <2>3
      <3>2. f[j] = {}
        BY <2>1, <3>1 DEF Reads
      <3> QED BY <3>2
    <2>4. CASE j < e
      BY <1>1, <2>4
    <2> QED BY <1>1, <2>2, <2>3, <2>4
  <1>5. 0 .. n \subseteq T
    <2> HIDE DEF n, T
    <2> QED BY <1>1, <1>3, <1>4, InductUpto
  <1>6. n \in 0 .. n /\ n >= e
    BY <1>1
  <1>7. f[n] = {}
    BY <1>5, <1>6
  <1> QED BY <1>7

\* Reading a sequence of events leaves this open.
EndsIn(events, open) ==
    \E f \in [0 .. Len(events) -> Stacks] : Opens(f, events, {}) /\ f[Len(events)] = open

\* Events of a fragment.
OutEvent(name) == Event \union {[is |-> "pkgname", name |-> name]}

\* One event more.
LEMMA ReadOne ==
    ASSUME NEW E, NEW x \in Seq(E), NEW e \in E, NEW open, NEW next \in Stacks,
           EndsIn(x, open), next = Reads(open, e)
    PROVE EndsIn(x \o <<e>>, next)
  <1> DEFINE n == Len(x)
             y == x \o <<e>>
  <1>1. PICK f \in [0 .. n -> Stacks] : Opens(f, x, {}) /\ f[n] = open
    BY DEF EndsIn
  <1>2. n \in Nat /\ Len(y) = n + 1 /\ y[n + 1] = e /\ \A i \in 1 .. n : y[i] = x[i]
    OBVIOUS
  <1> DEFINE h == [i \in 0 .. n + 1 |-> IF i <= n THEN f[i] ELSE next]
  <1>3. f[0] = {<<>>} /\ \A i, j \in 0 .. n : j = i + 1 =>
            f[j] = IF x[j].is \in {} THEN f[i] ELSE Reads(f[i], x[j])
    BY <1>1 DEF Opens
  <1> HIDE DEF n, y
  <1>4. h \in [0 .. n + 1 -> Stacks] /\ h[0] = f[0] /\ h[n + 1] = next
    BY <1>1, <1>2
  <1>5. ASSUME NEW i \in 0 .. n + 1, NEW j \in 0 .. n + 1, j = i + 1
        PROVE h[j] = IF y[j].is \in {} THEN h[i] ELSE Reads(h[i], y[j])
    <2>1. CASE j <= n
      <3>1. i \in 0 .. n /\ j \in 0 .. n /\ j \in 1 .. n /\ i <= n
        BY <1>2, <1>5, <2>1
      <3>2. h[i] = f[i] /\ h[j] = f[j] /\ y[j] = x[j]
        BY <1>2, <2>1, <3>1
      <3> HIDE DEF h
      <3> QED BY <1>3, <1>5, <3>1, <3>2
    <2>2. CASE ~(j <= n)
      <3>1. j = n + 1 /\ i = n /\ i <= n
        BY <1>2, <1>5, <2>2
      <3>2. h[j] = next /\ h[i] = f[n] /\ y[j] = e
        BY <1>2, <1>5, <2>2, <3>1
      <3> HIDE DEF h
      <3> QED BY <1>1, <3>2
    <2> QED BY <2>1, <2>2
  <1>6. Opens(h, y, {})
    <2> HIDE DEF h
    <2> QED BY <1>2, <1>3, <1>4, <1>5 DEF Opens
  <1>7. EndsIn(y, next)
    <2> HIDE DEF h
    <2> QED BY <1>2, <1>4, <1>6 DEF EndsIn
  <1> QED BY <1>7 DEF y

\* No events leave nothing open.
LEMMA ReadNone == EndsIn(<<>>, {<<>>})
  <1> DEFINE f == [i \in 0 .. 0 |-> {<<>>}]
  <1>1. f \in [0 .. Len(<<>>) -> Stacks] /\ f[0] = {<<>>}
    BY DEF Stacks
  <1>2. Opens(f, <<>>, {})
    BY DEF Opens
  <1> QED BY <1>1, <1>2 DEF EndsIn

\* Balanced sequences can be read one after the other.
LEMMA ReadBoth ==
    ASSUME NEW E, NEW x \in Seq(E), NEW y \in Seq(E), NEW open,
           EndsIn(x, {<<>>}), EndsIn(y, open)
    PROVE EndsIn(x \o y, open)
  <1> DEFINE n == Len(x)
             m == Len(y)
             z == x \o y
  <1>1. PICK f \in [0 .. n -> Stacks] : Opens(f, x, {}) /\ f[n] = {<<>>}
    BY DEF EndsIn
  <1>2. PICK g \in [0 .. m -> Stacks] : Opens(g, y, {}) /\ g[m] = open
    BY DEF EndsIn
  <1>3. n \in Nat /\ m \in Nat /\ Len(z) = n + m
        /\ \A i \in 1 .. n + m : z[i] = IF i <= n THEN x[i] ELSE y[i - n]
    BY ConcatProperties
  <1> DEFINE h == [i \in 0 .. n + m |-> IF i <= n THEN f[i] ELSE g[i - n]]
  <1>4. f[0] = {<<>>} /\ \A i, j \in 0 .. n : j = i + 1 =>
            f[j] = IF x[j].is \in {} THEN f[i] ELSE Reads(f[i], x[j])
    BY <1>1 DEF Opens
  <1>5. g[0] = {<<>>} /\ \A i, j \in 0 .. m : j = i + 1 =>
            g[j] = IF y[j].is \in {} THEN g[i] ELSE Reads(g[i], y[j])
    BY <1>2 DEF Opens
  <1> HIDE DEF n, m, z
  <1>6. h \in [0 .. n + m -> Stacks] /\ h[0] = f[0] /\ h[n + m] = g[m]
    <2>1. \A i \in 0 .. n + m : ~(i <= n) => i - n \in 0 .. m
      BY <1>3
    <2>2. h \in [0 .. n + m -> Stacks]
      BY <1>1, <1>2, <1>3, <2>1
    <2>3. h[0] = f[0]
      BY <1>3
    <2>4. h[n + m] = g[m]
      <3>1. CASE m = 0
        <4>1. n + m = n /\ n \in 0 .. n + m /\ n <= n
          BY <1>3, <3>1
        <4>2. h[n] = f[n]
          BY <4>1
        <4> HIDE DEF h
        <4> QED BY <1>1, <1>5, <3>1, <4>1, <4>2
      <3>2. CASE m # 0
        <4>1. n + m \in 0 .. n + m /\ ~(n + m <= n) /\ n + m - n = m
          BY <1>3, <3>2
        <4>2. PICK i \in 0 .. n + m : i = n + m /\ ~(i <= n) /\ i - n = m
          BY <1>3, <4>1
        <4>3. h[i] = g[i - n]
          BY <4>2
        <4> HIDE DEF h
        <4> QED BY <4>2, <4>3
      <3> QED BY <3>1, <3>2
    <2> QED BY <2>2, <2>3, <2>4
  <1>7. ASSUME NEW i \in 0 .. n + m, NEW j \in 0 .. n + m, j = i + 1
        PROVE h[j] = IF z[j].is \in {} THEN h[i] ELSE Reads(h[i], z[j])
    <2>1. CASE j <= n
      <3>1. i \in 0 .. n /\ j \in 0 .. n /\ j \in 1 .. n + m /\ i <= n
        BY <1>3, <1>7, <2>1
      <3>2. h[i] = f[i] /\ h[j] = f[j] /\ z[j] = x[j]
        BY <1>3, <2>1, <3>1
      <3> HIDE DEF h
      <3> QED BY <1>4, <1>7, <3>1, <3>2
    <2>2. CASE ~(j <= n)
      <3>1. PICK a \in 0 .. m, b \in 0 .. m : a = i - n /\ b = j - n
        <4>1. i - n \in 0 .. m /\ j - n \in 0 .. m
          BY <1>3, <1>7, <2>2
        <4> QED BY <4>1
      <3>2. b = a + 1 /\ j \in 1 .. n + m
        BY <1>3, <1>7, <2>2, <3>1
      <3>3. h[j] = g[b] /\ z[j] = y[b]
        BY <1>3, <2>2, <3>1, <3>2
      <3>4. h[i] = g[a]
        <4>1. CASE i <= n
          <5>1. i = n /\ a = 0
            BY <1>3, <1>7, <2>2, <3>1, <4>1
          <5>2. h[i] = f[i]
            BY <4>1
          <5> QED BY <1>1, <1>5, <5>1, <5>2
        <4>2. CASE ~(i <= n)
          BY <3>1, <4>2
        <4> QED BY <4>1, <4>2
      <3>5. g[b] = IF y[b].is \in {} THEN g[a] ELSE Reads(g[a], y[b])
        <4> HIDE DEF h
        <4> QED BY <1>5, <3>2
      <3> HIDE DEF h
      <3> QED BY <3>3, <3>4, <3>5
    <2> QED BY <2>1, <2>2
  <1>8. Opens(h, z, {})
    <2> HIDE DEF h
    <2> QED BY <1>3, <1>4, <1>6, <1>7 DEF Opens
  <1>9. EndsIn(z, open)
    <2> HIDE DEF h
    <2> QED BY <1>2, <1>3, <1>6, <1>8 DEF EndsIn
  <1> QED BY <1>9 DEF z

\* What transform writes of a balanced file is balanced, and refers to what the file
\* refers to.
LEMMA TransformBalanced ==
    ASSUME NEW name, NEW events \in Seq(Event),
           Balanced(events, {"decl", "pi", "doctype"})
    PROVE /\ EndsIn(Transform(name, events), {<<>>})
          /\ Transform(name, events) \in Seq(OutEvent(name))
          /\ RefersTo(Transform(name, events)) = RefersTo(events)
  <1> DEFINE n == Len(events)
             Out == OutEvent(name)
             ignored == {"decl", "pi", "doctype"}
             label == [is |-> "pkgname", name |-> name]
             ss == [i \in DOMAIN events |-> Transformed(name, events[i])]
  <1>1. n \in Nat /\ DOMAIN events = 1 .. n /\ \A i \in 1 .. n : events[i] \in Event
    OBVIOUS
  <1>2. PICK f \in [0 .. n -> Stacks] : Opens(f, events, ignored)
    BY OpensExists
  <1>3. f[n] = {<<>>}
    BY <1>2, BalancedIs
  <1>4. \A i \in 1 .. n : events[i].is # "error"
    BY <1>2, <1>3, NoError
  <1>5. Transform(name, events) = FlattenSeq(ss)
    <2>1. \A i \in 1 .. Len(events) : ~(events[i].is = "error")
      BY <1>4
    <2>2. SelectInSeq(events, LAMBDA e : e.is = "error") = 0
      BY <2>1 DEF SelectInSeq
    <2> QED BY <2>2 DEF Transform
  <1>6. Event \subseteq Out /\ label \in Out
    BY DEF OutEvent
  <1>7. ss \in Seq(Seq(Out)) /\ Len(ss) = n /\ \A i \in 1 .. n : ss[i] = Transformed(name, events[i])
    <2>1. ASSUME NEW i \in 1 .. n PROVE Transformed(name, events[i]) \in Seq(Out)
      <3>1. PICK e \in Out : e = events[i]
        BY <1>1, <1>6
      <3> HIDE DEF Out
      <3> QED BY <1>6, <3>1 DEF Transformed
    <2>2. ss \in [1 .. n -> Seq(Out)]
      BY <1>1, <2>1
    <2>3. \A i \in 1 .. n : ss[i] = Transformed(name, events[i])
      BY <1>1
    <2> HIDE DEF ss, Out
    <2> QED BY <1>1, <2>2, <2>3
  <1> HIDE DEF ss, Out, label, ignored
  <1>8. PICK F \in [0 .. n -> Seq(Out)] : Flattens(F, ss) /\ FlattenSeq(ss) = F[n]
    BY <1>7, Flatten
  <1> DEFINE T == {i \in 0 .. n : EndsIn(F[i], f[i])}
  <1>9. 0 \in T
    <2>1. F[0] = <<>> /\ f[0] = {<<>>} /\ 0 \in 0 .. n
      BY <1>1, <1>2, <1>8 DEF Flattens, Opens
    <2> QED BY <2>1, ReadNone
  <1>10. ASSUME NEW i \in 0 .. n, NEW j \in 0 .. n, i \in T, j = i + 1 PROVE j \in T
    <2> DEFINE e == events[j]
    <2>1. j \in 1 .. n /\ e \in Event /\ e \in Out
      BY <1>1, <1>6, <1>10
    <2>2. F[j] = F[i] \o Transformed(name, e)
      BY <1>7, <1>8, <1>10, <2>1 DEF Flattens
    <2>3. f[j] = IF e.is \in ignored THEN f[i] ELSE Reads(f[i], e)
      BY <1>2, <1>10 DEF Opens
    <2>4. EndsIn(F[i], f[i])
      BY <1>10
    <2>5. F[i] \in Seq(Out) /\ f[j] \in Stacks /\ f[i] \in Stacks
      BY <1>2, <1>8
    <2> HIDE DEF e, T
    <2>6. CASE e.is = "start" /\ e.name = "component"
      <3>1. Transformed(name, e) = <<e, label>>
        BY <2>6 DEF Transformed, label
      <3>2. f[j] = Reads(f[i], e)
        BY <2>3, <2>6 DEF ignored
      <3>3. EndsIn(F[i] \o <<e>>, f[j])
        BY <2>1, <2>4, <2>5, <3>2, ReadOne
      <3>4. Reads(f[j], label) = f[j]
        BY DEF Reads, label
      <3>5. F[i] \o <<e>> \in Seq(Out)
        BY <2>1, <2>5
      <3>6. PICK x \in Seq(Out) : x = F[i] \o <<e>>
        BY <3>5
      <3>7. EndsIn(x \o <<label>>, f[j])
        <4>1. EndsIn(x, f[j]) /\ x \in Seq(Out)
          BY <3>3, <3>6
        <4> QED BY ONLY <1>6, <2>5, <3>4, <4>1, ReadOne
      <3>8. F[j] = x \o <<label>>
        BY <1>6, <2>1, <2>2, <2>5, <3>1, <3>6
      <3>9. EndsIn(F[j], f[j])
        BY <3>7, <3>8
      <3> QED BY <3>9 DEF T
    <2>7. CASE e.is \in ignored
      <3>1. Transformed(name, e) = <<>>
        BY <2>7 DEF Transformed, ignored
      <3>2. F[j] = F[i] /\ f[j] = f[i]
        BY <2>2, <2>3, <2>5, <2>7, <3>1
      <3> QED BY <2>4, <3>2 DEF T
    <2>8. CASE e.is \notin ignored /\ ~(e.is = "start" /\ e.name = "component")
      <3>1. Transformed(name, e) = <<e>>
        BY <2>8 DEF Transformed, ignored
      <3>2. f[j] = Reads(f[i], e)
        BY <2>3, <2>8
      <3>3. EndsIn(F[i] \o <<e>>, f[j])
        BY <2>1, <2>4, <2>5, <3>2, ReadOne
      <3>4. EndsIn(F[j], f[j])
        BY <2>2, <3>1, <3>3
      <3> QED BY <3>4 DEF T
    <2> QED BY <2>6, <2>7, <2>8
  <1>11. n \in T
    <2>1. n \in 0 .. n
      BY <1>1
    <2>2. 0 .. n \subseteq T
      <3> HIDE DEF n, T
      <3> QED BY <1>1, <1>9, <1>10, InductUpto
    <2> QED BY <2>1, <2>2
  <1>12. EndsIn(F[n], {<<>>}) /\ F[n] \in Seq(Out)
    <2>1. n \in 0 .. n
      BY <1>1
    <2> QED BY <1>3, <1>8, <1>11, <2>1
  <1>13. RefersTo(FlattenSeq(ss)) = RefersTo(events)
    <2>1. Range(FlattenSeq(ss)) = UNION {Range(ss[i]) : i \in 1 .. n}
      <3>1. DOMAIN ss = 1 .. n
        BY <1>1, <1>7
      <3> QED BY <1>7, <3>1, FlattenRange
    <2>2. ASSUME NEW i \in 1 .. n, NEW x, x.is = "ref"
          PROVE x \in Range(ss[i]) <=> x = events[i]
      <3> DEFINE e == events[i]
      <3>1. ss[i] = Transformed(name, e)
        BY <1>7
      <3>2. CASE e.is = "start" /\ e.name = "component"
        <4>1. ss[i] = <<e, label>>
          BY <3>1, <3>2 DEF Transformed, label
        <4>2. Range(ss[i]) = {e, label}
          BY <4>1 DEF Range
        <4> QED BY <2>2, <3>2, <4>2 DEF label
      <3>3. CASE e.is \in ignored
        <4>1. ss[i] = <<>>
          BY <3>1, <3>3 DEF Transformed, ignored
        <4> QED BY <2>2, <3>3, <4>1 DEF Range, ignored
      <3>4. CASE e.is \notin ignored /\ ~(e.is = "start" /\ e.name = "component")
        <4>1. ss[i] = <<e>>
          BY <3>1, <3>4 DEF Transformed, ignored
        <4> QED BY <4>1 DEF Range
      <3> QED BY <3>2, <3>3, <3>4
    <2>3. \A x : x.is = "ref" => (x \in Range(FlattenSeq(ss)) <=> x \in Range(events))
      <3>1. Range(events) = {events[i] : i \in 1 .. n}
        BY <1>1 DEF Range
      <3> QED BY <2>1, <2>2, <3>1
    <2> QED BY <2>3 DEF RefersTo
  <1> QED BY <1>5, <1>8, <1>12, <1>13 DEF Out

\* Every component is followed by the package that it is of.
Labelled(name, events) ==
    \A i \in DOMAIN events :
        events[i].is = "start" /\ events[i].name = "component" =>
            i < Len(events) /\ events[i + 1] = [is |-> "pkgname", name |-> name]

\* One labelled sequence after another is labelled.
LEMMA LabelledBoth ==
    ASSUME NEW name, NEW x \in Seq(OutEvent(name)), NEW y \in Seq(OutEvent(name)),
           Labelled(name, x), Labelled(name, y)
    PROVE Labelled(name, x \o y)
  <1> DEFINE n == Len(x)
             m == Len(y)
             z == x \o y
  <1>1. n \in Nat /\ m \in Nat /\ Len(z) = n + m /\ DOMAIN z = 1 .. n + m
        /\ \A i \in 1 .. n + m : z[i] = IF i <= n THEN x[i] ELSE y[i - n]
    BY ConcatProperties, LenProperties
  <1>2. \A i \in 1 .. n : x[i].is = "start" /\ x[i].name = "component" =>
            i < n /\ x[i + 1] = [is |-> "pkgname", name |-> name]
    BY DEF Labelled
  <1>3. \A i \in 1 .. m : y[i].is = "start" /\ y[i].name = "component" =>
            i < m /\ y[i + 1] = [is |-> "pkgname", name |-> name]
    BY DEF Labelled
  <1> HIDE DEF n, m, z
  <1>4. ASSUME NEW i \in 1 .. n + m, z[i].is = "start", z[i].name = "component"
        PROVE i < n + m /\ z[i + 1] = [is |-> "pkgname", name |-> name]
    <2>1. CASE i <= n
      <3>1. i \in 1 .. n /\ z[i] = x[i]
        BY <1>1, <2>1
      <3>2. i < n /\ x[i + 1] = [is |-> "pkgname", name |-> name]
        BY <1>2, <1>4, <3>1
      <3>3. i + 1 \in 1 .. n + m /\ i + 1 <= n
        BY <1>1, <3>2
      <3>4. z[i + 1] = x[i + 1]
        BY <1>1, <3>3
      <3> QED BY <1>1, <3>2, <3>4
    <2>2. CASE ~(i <= n)
      <3>1. PICK k \in 1 .. m : k = i - n
        <4>1. i - n \in 1 .. m
          BY <1>1, <2>2
        <4> QED BY <4>1
      <3>2. z[i] = y[k]
        BY <1>1, <2>2, <3>1
      <3>3. k < m /\ y[k + 1] = [is |-> "pkgname", name |-> name]
        BY <1>3, <1>4, <3>2
      <3>4. i + 1 \in 1 .. n + m /\ ~(i + 1 <= n) /\ i + 1 - n = k + 1 /\ i < n + m
        BY <1>1, <2>2, <3>1, <3>3
      <3>5. z[i + 1] = y[i + 1 - n]
        BY <1>1, <3>4
      <3> QED BY <3>3, <3>4, <3>5
    <2> QED BY <2>1, <2>2
  <1> QED BY <1>1, <1>4 DEF Labelled, z

\* What transform writes is labelled, also of a file that ends in an error.
LEMMA TransformLabelled ==
    ASSUME NEW name, NEW events \in Seq(Event)
    PROVE Transform(name, events) \in Seq(OutEvent(name)) /\ Labelled(name, Transform(name, events))
  <1> DEFINE Out == OutEvent(name)
             label == [is |-> "pkgname", name |-> name]
             G == {s \in Seq(Out) : Labelled(name, s)}
             error == SelectInSeq(events, LAMBDA e : e.is = "error")
             read == IF error = 0 THEN events ELSE SubSeq(events, 1, error - 1)
             ss == [i \in DOMAIN read |-> Transformed(name, read[i])]
  <1>1. read \in Seq(Event)
    <2>1. error \in 0 .. Len(events)
      <3> DEFINE I == {i \in 1 .. Len(events) : events[i].is = "error"}
      <3>1. error = IF I # {} THEN Min(I) ELSE 0
        BY DEF SelectInSeq
      <3>2. I \subseteq Nat /\ Len(events) \in Nat /\ \A i \in I : i \in 0 .. Len(events)
        OBVIOUS
      <3> HIDE DEF I
      <3>3. CASE I # {}
        <4>1. Min(I) \in I
          BY <3>2, <3>3, LeastNatural DEF Min
        <4> QED BY <3>1, <3>2, <3>3, <4>1
      <3> QED BY <3>1, <3>2, <3>3
    <2> HIDE DEF error
    <2>2. CASE error = 0
      BY <2>2
    <2>3. CASE error # 0
      <3>1. 1 \in Int /\ error - 1 \in Int /\ \A i \in 1 .. error - 1 : events[i] \in Event
        BY <2>1, <2>3
      <3>2. SubSeq(events, 1, error - 1) \in Seq(Event)
        BY <3>1, SubSeqProperties
      <3> QED BY <2>3, <3>2
    <2> QED BY <2>2, <2>3
  <1>2. Transform(name, events) = FlattenSeq(ss)
    BY DEF Transform
  <1>3. Event \subseteq Out /\ label \in Out /\ label.is = "pkgname"
    BY DEF OutEvent
  <1> HIDE DEF read
  <1>4. ASSUME NEW e \in Event PROVE Transformed(name, e) \in G
    <2>1. e \in Out
      BY <1>3
    <2>2. CASE e.is = "start" /\ e.name = "component"
      <3>1. Transformed(name, e) = <<e, label>>
        BY <2>2 DEF Transformed
      <3>2. PICK x \in Seq(Out) : x = <<e, label>> /\ Len(x) = 2 /\ x[1] = e /\ x[2] = label
        <4> HIDE DEF Out, label
        <4>1. <<e, label>> \in Seq(Out) /\ Len(<<e, label>>) = 2
              /\ <<e, label>>[1] = e /\ <<e, label>>[2] = label
          BY <1>3, <2>1
        <4> QED BY <4>1
      <3>3. Labelled(name, x)
        <4>1. \A i \in DOMAIN x : i = 1 \/ i = 2
          BY <3>2
        <4> QED BY <1>3, <3>2, <4>1 DEF Labelled
      <3> QED BY <3>1, <3>2, <3>3
    <2>3. CASE ~(e.is = "start" /\ e.name = "component")
      <3>1. Transformed(name, e) \in {<<>>, <<e>>}
        BY <2>3 DEF Transformed
      <3>2. <<>> \in G
        BY DEF Labelled
      <3>3. <<e>> \in G
        BY <2>1, <2>3 DEF Labelled
      <3> QED BY <3>1, <3>2, <3>3
    <2> QED BY <2>2, <2>3
  <1>5. ss \in Seq(G)
    <2>1. DOMAIN read = 1 .. Len(read) /\ Len(read) \in Nat /\ \A i \in 1 .. Len(read) : read[i] \in Event
      BY <1>1
    <2>2. ss \in [1 .. Len(read) -> G]
      <3> HIDE DEF G
      <3> QED BY <1>4, <2>1
    <2> HIDE DEF ss, G
    <2> QED BY <2>1, <2>2
  <1>6. G \in SUBSET Seq(Out) /\ <<>> \in G /\ \A x, y \in G : x \o y \in G
    <2>1. <<>> \in G
      BY DEF Labelled
    <2>2. ASSUME NEW x \in G, NEW y \in G PROVE x \o y \in G
      <3>1. x \o y \in Seq(Out)
        OBVIOUS
      <3>2. Labelled(name, x \o y)
        BY LabelledBoth
      <3> QED BY <3>1, <3>2
    <2> QED BY <2>1, <2>2
  <1>7. FlattenSeq(ss) \in G
    <2> HIDE DEF ss, G, Out
    <2> QED BY <1>5, <1>6, FlattenIn
  <1> QED BY <1>2, <1>7

\* The metainfo files of a package are files of it.
LEMMA MetainfoFiles ==
    ASSUME NEW rpm, rpm.files \in Seq(Range(rpm.files))
    PROVE Metainfo(rpm) \in Seq(Range(rpm.files))
  <1> DEFINE s == rpm.files
             E == Range(s)
             K == {f \in E : ~f.ghost /\ IsAppstreamFile(f.path)}
             files == Metainfo(rpm)
  <1>1. \A i \in DOMAIN s : s[i] \in E
    BY DEF Range
  <1>2. files = FlattenSeq([i \in DOMAIN s |-> IF s[i] \in K THEN <<s[i]>> ELSE <<>>])
    <2>1. [i \in DOMAIN s |-> IF ~s[i].ghost /\ IsAppstreamFile(s[i].path) THEN <<s[i]>> ELSE <<>>]
            = [i \in DOMAIN s |-> IF s[i] \in K THEN <<s[i]>> ELSE <<>>]
      BY <1>1
    <2> QED BY <2>1 DEF Metainfo, Filtered
  <1>3. s \in Seq(E)
    OBVIOUS
  <1> HIDE DEF files, K, E, s
  <1>4. files \in Seq(E \intersect K)
    BY <1>2, <1>3, KeptIn
  <1> QED BY <1>4 DEF E, files, s

\* The fragment of well-formed metainfo is well-formed exactly if no file refers to an
\* entity of its own; it is labelled in any case.
LEMMA FragmentWellFormed ==
    ASSUME NEW rpm, ReadAsXml(rpm)
    PROVE /\ (\A file \in Range(Metainfo(rpm)) : WellFormedFile(file)) =>
                 (WellFormed(AppstreamFrag(rpm)) <=>
                      \A file \in Range(Metainfo(rpm)) : RefersTo(file.events) \subseteq Predefined)
          /\ Labelled(rpm.name, AppstreamFrag(rpm))
  <1> DEFINE files == Metainfo(rpm)
             name == rpm.name
             Out == OutEvent(name)
             ss == [i \in DOMAIN files |-> Transform(name, files[i].events)]
  <1>1. files \in Seq(Range(rpm.files)) /\ DOMAIN files = 1 .. Len(files) /\ Len(files) \in Nat
    BY MetainfoFiles DEF ReadAsXml
  <1>2. AppstreamFrag(rpm) = FlattenSeq(ss)
    BY DEF AppstreamFrag
  <1>3. \A i \in DOMAIN files : files[i].events \in Seq(Event)
    <2>1. \A i \in DOMAIN files : files[i] \in Range(rpm.files)
      BY <1>1
    <2> HIDE DEF files
    <2> QED BY <2>1 DEF ReadAsXml
  <1> HIDE DEF files
  <1>4. Range(files) = {files[i] : i \in 1 .. Len(files)}
    BY <1>1 DEF Range
  <1>5. ASSUME \A file \in Range(files) : WellFormedFile(file)
        PROVE WellFormed(FlattenSeq(ss)) <=>
                  \A file \in Range(files) : RefersTo(file.events) \subseteq Predefined
    <2> DEFINE G == {s \in Seq(Out) : EndsIn(s, {<<>>})}
    <2>1. ss \in Seq(G)
      <3>1. \A i \in 1 .. Len(files) : Transform(name, files[i].events) \in G
        BY <1>1, <1>3, <1>4, <1>5, TransformBalanced DEF WellFormedFile
      <3> HIDE DEF G
      <3>2. ss \in [1 .. Len(files) -> G]
        BY <1>1, <3>1
      <3> HIDE DEF ss
      <3> QED BY <1>1, <3>2
    <2>2. G \in SUBSET Seq(Out) /\ <<>> \in G /\ \A x, y \in G : x \o y \in G
      <3>1. <<>> \in G
        BY ReadNone
      <3>2. ASSUME NEW x \in G, NEW y \in G PROVE x \o y \in G
        <4>1. x \in Seq(Out) /\ y \in Seq(Out) /\ EndsIn(x, {<<>>}) /\ EndsIn(y, {<<>>})
          OBVIOUS
        <4> HIDE DEF Out
        <4>2. EndsIn(x \o y, {<<>>})
          BY <4>1, ReadBoth
        <4>3. x \o y \in Seq(Out)
          BY <4>1
        <4> QED BY <4>2, <4>3
      <3> QED BY <3>1, <3>2
    <2>3. FlattenSeq(ss) \in G
      <3> HIDE DEF ss, G, Out
      <3> QED BY <2>1, <2>2, FlattenIn
    <2>4. PICK x \in Seq(Out) : x = FlattenSeq(ss) /\ EndsIn(x, {<<>>})
      <3> HIDE DEF ss, Out
      <3> QED BY <2>3
    <2>5. PICK f : Opens(f, x, {}) /\ f[Len(x)] = {<<>>}
      BY <2>4 DEF EndsIn
    <2>6. Balanced(x, {})
      <3> HIDE DEF Out
      <3> QED BY <2>5, BalancedIs
    <2>7. \A i \in 1 .. Len(files) : RefersTo(ss[i]) = RefersTo(files[i].events)
      BY <1>1, <1>3, <1>4, <1>5, TransformBalanced DEF WellFormedFile
    <2>8. Range(x) = UNION {Range(ss[i]) : i \in 1 .. Len(files)}
      <3>1. ss \in Seq(Seq(Out)) /\ DOMAIN ss = 1 .. Len(files)
        <4>1. DOMAIN ss = 1 .. Len(files)
          BY <1>1
        <4> HIDE DEF ss, Out
        <4> QED BY <2>1, <4>1
      <3> HIDE DEF ss, Out
      <3> QED BY <2>4, <3>1, FlattenRange
    <2>9. RefersTo(x) = UNION {RefersTo(ss[i]) : i \in 1 .. Len(files)}
      <3> HIDE DEF ss
      <3> QED BY <2>8 DEF RefersTo
    <2>10. RefersTo(x) \subseteq Predefined <=>
              \A file \in Range(files) : RefersTo(file.events) \subseteq Predefined
      <3> HIDE DEF ss
      <3> QED BY <1>4, <2>7, <2>9
    <2> QED BY <2>4, <2>6, <2>10 DEF WellFormed
  <1>6. Labelled(name, FlattenSeq(ss))
    <2> DEFINE G == {s \in Seq(Out) : Labelled(name, s)}
    <2>1. ss \in Seq(G)
      <3>1. \A i \in 1 .. Len(files) : Transform(name, files[i].events) \in G
        BY <1>1, <1>3, TransformLabelled
      <3> HIDE DEF G
      <3>2. ss \in [1 .. Len(files) -> G]
        BY <1>1, <3>1
      <3> HIDE DEF ss
      <3> QED BY <1>1, <3>2
    <2>2. G \in SUBSET Seq(Out) /\ <<>> \in G /\ \A x, y \in G : x \o y \in G
      <3>1. <<>> \in G
        BY DEF Labelled
      <3>2. ASSUME NEW x \in G, NEW y \in G PROVE x \o y \in G
        <4>1. x \o y \in Seq(Out)
          OBVIOUS
        <4>2. Labelled(name, x \o y)
          BY LabelledBoth
        <4> QED BY <4>1, <4>2
      <3> QED BY <3>1, <3>2
    <2>3. FlattenSeq(ss) \in G
      <3> HIDE DEF ss, G, Out
      <3> QED BY <2>1, <2>2, FlattenIn
    <2> QED BY <2>3
  <1> QED BY <1>2, <1>5, <1>6 DEF files

\* The packages in appstream.xml are among the readable ones.
LEMMA ListedWellFormed ==
    ASSUME CacheInv, GenInv, \A v \in Vers : ReadAsXml(Rpm[v])
    PROVE AppstreamWellFormed
  <1> SUFFICES ASSUME gen # None, gen.body["appstream"] # None, NEW k \in Listed("appstream")
               PROVE LET rpm    == Rpm[gen.body["appstream"][k]]
                         events == Fragment("appstream", k)
                         files  == Range(Metainfo(rpm))
                     IN /\ (\A file \in files : WellFormedFile(file)) =>
                               (WellFormed(events) <=>
                                    \A file \in files : RefersTo(file.events) \subseteq Predefined)
                        /\ \A i \in DOMAIN events :
                              events[i].is = "start" /\ events[i].name = "component" =>
                                  i < Len(events) /\ events[i + 1] = [is |-> "pkgname", name |-> rpm.name]
    BY DEF AppstreamWellFormed
  <1> DEFINE rpm == Rpm[gen.body["appstream"][k]]
  <1>1. gen.body["appstream"][k] \in Vers
    <2>1. "appstream" \in Metans
      BY DEF Metans
    <2> QED BY <2>1, ListedContents
  <1>2. ReadAsXml(rpm)
    BY <1>1
  <1>3. Fragment("appstream", k) = AppstreamFrag(rpm)
    BY DEF Fragment, Compute
  <1> HIDE DEF rpm
  <1>4. /\ (\A file \in Range(Metainfo(rpm)) : WellFormedFile(file)) =>
               (WellFormed(AppstreamFrag(rpm)) <=>
                    \A file \in Range(Metainfo(rpm)) : RefersTo(file.events) \subseteq Predefined)
        /\ Labelled(rpm.name, AppstreamFrag(rpm))
    BY <1>2, FragmentWellFormed
  <1> QED BY <1>3, <1>4 DEF Labelled, rpm

\* What a package with well-formed metainfo adds to appstream.xml is well-formed exactly
\* if its metainfo refers to no entity of its own, and every component in it names the
\* package, for any set of rpms.
THEOREM AppstreamIsWellFormed ==
    ASSUME \A v \in Vers : ReadAsXml(Rpm[v])
    PROVE IndexSpec => []AppstreamWellFormed
  <1>1. CacheInv /\ GenInv => AppstreamWellFormed
    BY ListedWellFormed
  <1> QED BY <1>1, CacheKept, GenInvariant, PTL
===============================================================================
