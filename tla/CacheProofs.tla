------------------------------ MODULE CacheProofs ------------------------------
(***************************************************************************)
(* Theorems about Cache, for any set of packages and contents.              *)
(*                                                                         *)
(* What the committed database promises only survives a commit if the open   *)
(* transaction keeps the same promises, and the purge of update_frags is     *)
(* only exact if a mark is "new" exactly for what the batch received and the  *)
(* transaction still holds everything else: BatchInv.                       *)
(***************************************************************************)
EXTENDS Cache, TLAPS

\* What an open transaction knows of its batch.
BatchInv ==
    txn # None =>
        /\ AgreeOn(txn)
        /\ OneContent(txn)
        /\ got = {k \in Pkgs : txn.mark[k] = "new"}
        /\ Present(txn) = Present(db) \union got
        /\ \A m \in Metans, k \in Pkgs \ got : txn.frag[m][k] = db.frag[m][k]

CacheInv == TypeOK /\ KeysAgree /\ SameContent /\ BatchInv

\* The operators on databases keep the type, the agreement of the key sets and
\* the unity of content.
LEMMA AgedFacts ==
    ASSUME NEW d \in Db, AgreeOn(d), OneContent(d)
    PROVE  /\ Aged(d) \in Db /\ AgreeOn(Aged(d)) /\ OneContent(Aged(d))
           /\ Present(Aged(d)) = Present(d)
           /\ Aged(d).frag = d.frag
           /\ \A k \in Pkgs : Aged(d).mark[k] # "new"
  BY CacheAssumption DEF Aged, Db, AgreeOn, OneContent, Present, Marks

LEMMA MarkedFacts ==
    ASSUME NEW d \in Db, NEW k \in Pkgs, k \in Present(d), AgreeOn(d), OneContent(d)
    PROVE  /\ Marked(d, k) \in Db /\ AgreeOn(Marked(d, k)) /\ OneContent(Marked(d, k))
           /\ Present(Marked(d, k)) = Present(d)
           /\ Marked(d, k).frag = d.frag
           /\ \A p \in Pkgs : Marked(d, k).mark[p] = IF p = k THEN "new" ELSE d.mark[p]
  BY CacheAssumption DEF Marked, Db, AgreeOn, OneContent, Present, Marks

LEMMA PutFacts ==
    ASSUME NEW d \in Db, NEW k \in Pkgs, NEW v \in Vers, AgreeOn(d), OneContent(d)
    PROVE  LET e == Saved(Marked(d, k), k, v) IN
           /\ e \in Db /\ AgreeOn(e) /\ OneContent(e)
           /\ Present(e) = Present(d) \union {k}
           /\ \A m \in Metans, p \in Pkgs \ {k} : e.frag[m][p] = d.frag[m][p]
           /\ \A p \in Pkgs : e.mark[p] = IF p = k THEN "new" ELSE d.mark[p]
  <1> DEFINE e == Saved(Marked(d, k), k, v)
  <1>1. e.mark = [d.mark EXCEPT ![k] = "new"]
    BY DEF Saved, Marked, Db
  <1>2. \A m \in Metans : e.frag[m] = IF m \in Required \/ v \in AppVers
                                      THEN [d.frag[m] EXCEPT ![k] = v] ELSE d.frag[m]
    BY DEF Saved, Marked, Db
  <1>3. e \in Db
    BY CacheAssumption DEF Saved, Marked, Db, Marks
  <1>4. v # None /\ Required \subseteq Metans /\ "primary" \in Required /\ "appstream" \in Metans
    BY CacheAssumption DEF Required, Metans
  <1>5. \A m \in Metans, p \in Pkgs :
          e.frag[m][p] = IF p = k /\ (m \in Required \/ v \in AppVers) THEN v ELSE d.frag[m][p]
    <2>1. ASSUME NEW m \in Metans PROVE d.frag[m] \in [Pkgs -> Vers \union {None}]
      BY <2>1 DEF Db
    <2> QED
      BY <1>2, <2>1
  <1>6. d.mark \in [Pkgs -> Marks \union {None}]
    BY DEF Db
  <1> HIDE DEF e
  <1>10. AgreeOn(e)
    BY CacheAssumption, <1>1, <1>4, <1>5, <1>6 DEF AgreeOn
  <1>11. OneContent(e)
    BY <1>4, <1>5 DEF OneContent
  <1>7. Present(e) = Present(d) \union {k}
    BY CacheAssumption, <1>1, <1>6 DEF Present
  <1>8. \A m \in Metans, p \in Pkgs \ {k} : e.frag[m][p] = d.frag[m][p]
    BY <1>5
  <1>9. \A p \in Pkgs : e.mark[p] = IF p = k THEN "new" ELSE d.mark[p]
    BY <1>1, <1>6
  <1> QED
    BY <1>3, <1>10, <1>11, <1>7, <1>8, <1>9 DEF e

LEMMA WithoutFacts ==
    ASSUME NEW d \in Db, NEW ks \in SUBSET Pkgs, AgreeOn(d), OneContent(d)
    PROVE  /\ Without(d, ks) \in Db /\ AgreeOn(Without(d, ks)) /\ OneContent(Without(d, ks))
           /\ Present(Without(d, ks)) = Present(d) \ ks
  <1> DEFINE e == Without(d, ks)
  <1>1. \A k \in Pkgs : e.mark[k] = IF k \in ks THEN None ELSE d.mark[k]
    BY DEF Without
  <1>2. \A m \in Metans, k \in Pkgs : e.frag[m][k] = IF k \in ks THEN None ELSE d.frag[m][k]
    BY DEF Without
  <1>3. e \in Db
    <2>1. ASSUME NEW m \in Metans PROVE d.frag[m] \in [Pkgs -> Vers \union {None}]
      BY <2>1 DEF Db
    <2>2. d.mark \in [Pkgs -> Marks \union {None}]
      BY DEF Db
    <2> QED
      BY <2>1, <2>2 DEF Without, Db
  <1>4. Required \subseteq Metans /\ "primary" \in Required /\ "appstream" \in Metans
    BY DEF Required, Metans
  <1> HIDE DEF e
  <1>5. AgreeOn(e)
    BY <1>1, <1>2, <1>4 DEF AgreeOn
  <1>6. OneContent(e)
    BY <1>2, <1>4 DEF OneContent
  <1>7. Present(e) = Present(d) \ ks
    BY <1>1 DEF Present
  <1> QED
    BY <1>3, <1>5, <1>6, <1>7 DEF e

LEMMA CacheInit == Init => CacheInv
  BY CacheAssumption DEF Init, CacheInv, TypeOK, KeysAgree, SameContent, BatchInv, AgreeOn, OneContent,
     Empty, Db, Metans, Required

\* One step, from a state that satisfies the invariant.
LEMMA CacheStep == CacheInv /\ [Next]_vars => CacheInv'
  <1> SUFFICES ASSUME CacheInv, [Next]_vars PROVE CacheInv'
    OBVIOUS
  <1> USE CacheAssumption DEF CacheInv, TypeOK, KeysAgree, SameContent, BatchInv
  <1>0. \A d \in Db : d # None
    BY NoneIsNoDb
  <1>1. ASSUME NEW kind \in {"add", "update"}, Begin(kind) PROVE CacheInv'
    BY <1>0, <1>1, AgedFacts DEF Begin
  <1>2. ASSUME NEW k \in Pkgs, NEW v \in Vers, ReceivePut(k, v) PROVE CacheInv'
    BY <1>0, <1>2, PutFacts DEF ReceivePut
  <1>3. ASSUME NEW k \in Pkgs, ReceiveCached(k) PROVE CacheInv'
    BY <1>0, <1>3, MarkedFacts DEF ReceiveCached
  <1>4. CASE CommitAdd
    BY <1>0, <1>4 DEF CommitAdd
  <1>5. CASE CommitUpdate
    BY <1>0, <1>5, WithoutFacts DEF CommitUpdate, StaleOf
  <1>6. CASE Rollback
    BY <1>6 DEF Rollback
  <1>7. ASSUME NEW ks \in SUBSET Pkgs, DeletePkgs(ks) PROVE CacheInv'
    BY <1>7, WithoutFacts DEF DeletePkgs
  <1>8. CASE UNCHANGED vars
    BY <1>8 DEF vars
  <1> QED
    BY <1>1, <1>2, <1>3, <1>4, <1>5, <1>6, <1>7, <1>8 DEF Next

THEOREM CacheInvariant == Spec => []CacheInv
  BY CacheInit, CacheStep, PTL DEF Spec

\* The types, for any sets of packages and contents.
THEOREM CacheTypeCorrect == Spec => []TypeOK
  BY CacheInvariant, PTL DEF CacheInv

\* The mark database and the Metans' databases acknowledge the same packages.
THEOREM DatabasesAgree == Spec => []KeysAgree
  BY CacheInvariant, PTL DEF CacheInv

\* All fragments of a package come from the same file content.
THEOREM FragmentsFitTogether == Spec => []SameContent
  BY CacheInvariant, PTL DEF CacheInv

\* update_frags leaves exactly what it received; add_frags touches nothing else.
THEOREM BatchesExact == Spec => BatchesAreExact
  <1> DEFINE Exact ==
        /\ job = "update" /\ db' # db => Present(db') = got
        /\ job = "add" /\ db' # db =>
             /\ Present(db') = Present(db) \union got
             /\ \A m \in Metans, k \in Pkgs \ got : db'.frag[m][k] = db.frag[m][k]
  <1>1. CacheInv /\ [Next]_vars => Exact
    <2> SUFFICES ASSUME CacheInv, Next PROVE Exact
      BY DEF vars
    <2> USE CacheAssumption DEF CacheInv, TypeOK, BatchInv
    <2>1. CASE CommitAdd
      BY <2>1 DEF CommitAdd
    <2>2. CASE CommitUpdate
      <3>1. Present(db') = Present(txn) \ StaleOf(txn)
        BY <2>2, WithoutFacts DEF CommitUpdate, StaleOf
      <3>2. \A k \in Pkgs : txn.mark[k] \in {None, "old", "new"}
        BY <2>2 DEF CommitUpdate, Db, Marks
      <3>3. Present(txn) \ StaleOf(txn) = got
        BY <2>2, <3>2 DEF CommitUpdate, Present, StaleOf
      <3> QED
        BY <2>2, <3>1, <3>3 DEF CommitUpdate
    <2>3. CASE \E ks \in SUBSET Pkgs : DeletePkgs(ks)
      BY <2>3 DEF DeletePkgs
    <2> QED
      BY <2>1, <2>2, <2>3 DEF Next, Begin, ReceivePut, ReceiveCached, Rollback
  <1> QED
    BY <1>1, CacheInvariant, PTL DEF Spec, BatchesAreExact
===============================================================================
