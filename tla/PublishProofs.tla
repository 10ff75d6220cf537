----------------------------- MODULE PublishProofs ----------------------------
(***************************************************************************)
(* Proofs about Publish.  Two inductive invariants: one for every instance,  *)
(* about what the running closure has done so far (Progress), and one for     *)
(* clients that never send the same file twice (Fresh).                     *)
(***************************************************************************)
EXTENDS Publish, TLAPS

\* A closure that has come to the signature has written repomd.xml; one that has
\* come to repomd.xml has written every metan's file; none is settled yet.
Progress ==
    /\ \A m \in done : <<m, pkgs>> \in files
    /\ pc \in {"repomd", "sign"} => done = Metans
    /\ pc = "sign" => repomd = Entries /\ sig # None
    /\ pc # "idle" => ~settled
    /\ SettledIsCurrent

\* Files that are sent once are in at most one place: named by one datatype, by
\* the running write_custom, or waiting to be deleted.
Fresh ==
    /\ \A t \in Types : cus[t] # None => cus[t] \in sent
    /\ \A t, d \in Types : cus[t] # None /\ cus[t] = cus[d] => t = d
    /\ \A e \in repomd : e[2] \in Uploads => e[2] \in sent
    /\ upload # None => /\ upload \in files \intersect sent
                        /\ \A t \in Types : cus[t] # upload
                        /\ \A e \in repomd : e[2] # upload
    /\ doomed # None => \A t \in Types : cus[t] # doomed
    /\ CustomFilesExist
    /\ PublishedFilesExist

\* The entries of repomd.xml are entries that repomd.xml may have.
LEMMA EntriesListed == TypeOK => Entries \subseteq Listed
BY DEF TypeOK, Entries, Listed

\* Every step preserves the types and the running closure's progress.
LEMMA ProgressStep == TypeOK /\ Progress /\ [Next]_vars => TypeOK' /\ Progress'
<1> SUFFICES ASSUME TypeOK, Progress, [Next]_vars
             PROVE  TypeOK' /\ Progress'
    OBVIOUS
<1> USE DEF TypeOK, Progress, SettledIsCurrent, Files
<1>1. ASSUME NEW t \in Types, Forget(t)
      PROVE  TypeOK' /\ Progress'
    BY <1>1 DEF Forget, ThenDelete
<1>2. ASSUME NEW t \in Types, NEW u \in Uploads, StoreFile(t, u)
      PROVE  TypeOK' /\ Progress'
    BY <1>2, PublishAssumption DEF StoreFile
<1>3. CASE Record
    BY <1>3 DEF Record, ThenDelete
<1>4. CASE Drop
    BY <1>4 DEF Drop, ThenDelete
<1>5. ASSUME NEW P \in SUBSET Pkgs, ChangePkgs(P)
      PROVE  TypeOK' /\ Progress'
    BY <1>5 DEF ChangePkgs
<1>6. ASSUME NEW k \in Sigs \union {None}, SetSig(k)
      PROVE  TypeOK' /\ Progress'
    BY <1>6 DEF SetSig, closure
<1>7. ASSUME NEW m \in Metans, WriteMetan(m)
      PROVE  TypeOK' /\ Progress'
    BY <1>7 DEF WriteMetan
<1>8. CASE OpenRepomd
    BY <1>8 DEF OpenRepomd
<1>9. CASE WriteRepomd
    <2>1. Entries \subseteq Listed
        BY EntriesListed
    <2>2. Entries' = Entries
        BY <1>9 DEF WriteRepomd, Entries
    <2>3. QED
        BY <1>9, <2>1, <2>2 DEF WriteRepomd, End
<1>10. CASE Sign
    <2>1. Entries' = Entries
        BY <1>10 DEF Sign, Entries
    <2>2. QED
        BY <1>10, <2>1 DEF Sign, End
<1>11. CASE Fail
    <2>1. Entries' = Entries
        BY <1>11 DEF Fail, Entries
    <2>2. QED
        BY <1>11, <2>1 DEF Fail, End
<1>12. CASE UNCHANGED vars
    <2>1. Entries' = Entries
        BY <1>12 DEF vars, Entries
    <2>2. QED
        BY <1>12, <2>1 DEF vars, closure
<1>13. QED
    BY <1>1, <1>2, <1>3, <1>4, <1>5, <1>6, <1>7, <1>8, <1>9, <1>10, <1>11, <1>12 DEF Next

\* The invariant behind the next two theorems, for every instance.
THEOREM PublishInvariant == Spec => [](TypeOK /\ Progress)
<1>1. Init => TypeOK /\ Progress
    BY DEF Init, TypeOK, Progress, SettledIsCurrent, Files, Listed
<1>2. QED
    BY <1>1, ProgressStep, PTL DEF Spec

\* Every variable of Publish keeps its type, and the closure's arguments exist
\* exactly while it needs them.
THEOREM PublishTypeCorrect == Spec => []TypeOK
BY PublishInvariant, PTL

\* A successful operation leaves a repomd.xml that lists the cache as it is, with
\* a matching signature, whatever failed before it.
THEOREM SuccessIsCurrent == Spec => []SettledIsCurrent
<1>1. Progress => SettledIsCurrent
    BY DEF Progress
<1>2. QED
    BY PublishInvariant, <1>1, PTL

-------------------------------------------------------------------------------
\* An entry of repomd.xml is a custom datatype's exactly if its file was uploaded.
LEMMA ListedFacts ==
    ASSUME NEW e \in Listed
    PROVE  e[1] \in Types <=> e[2] \in Uploads
BY PublishAssumption DEF Listed

\* With files that are never sent twice, every step preserves Fresh.
LEMMA FreshStep ==
    ASSUME ~MayRepeat
    PROVE  TypeOK /\ Progress /\ Fresh /\ [Next]_vars => Fresh'
<1> SUFFICES ASSUME TypeOK, Progress, Fresh, [Next]_vars
             PROVE  Fresh'
    OBVIOUS
<1> USE DEF TypeOK, Fresh, CustomFilesExist, PublishedFilesExist
<1>1. ASSUME NEW t \in Types, Forget(t)
      PROVE  Fresh'
    <2>1. \A d \in Types : cus'[d] = IF d = t THEN None ELSE cus[d]
        BY <1>1 DEF Forget
    <2>2. \A e \in repomd : e[1] \in Types => e[2] # None
        BY ListedFacts, PublishAssumption
    <2>3. PublishedFilesExist'
        BY <1>1, <2>1, <2>2 DEF Forget
    <2>4. doomed' # None => \A d \in Types : cus'[d] # doomed'
        BY <1>1, <2>1 DEF Forget, ThenDelete
    <2>5. QED
        BY <1>1, <2>1, <2>3, <2>4 DEF Forget, ThenDelete
<1>2. ASSUME NEW t \in Types, NEW u \in Uploads, StoreFile(t, u)
      PROVE  Fresh'
    BY <1>2 DEF StoreFile
<1>3. CASE Record
    BY <1>3 DEF Record, ThenDelete
<1>4. CASE Drop
    <2>1. files' = files \ {doomed} /\ doomed \in Uploads /\ UNCHANGED <<cus, repomd, sent>>
        BY <1>4 DEF Drop
    <2>2. doomed' = None /\ upload' = None
        BY <1>4 DEF Drop, ThenDelete
    <2>3. \A t \in Types : cus[t] # doomed
        BY <2>1, PublishAssumption
    <2>4. ASSUME NEW e \in repomd, e[2] \notin files'
          PROVE  e[1] \in Types /\ cus[e[1]] # e[2]
        <3>1. CASE e[2] = doomed
            BY <3>1, <2>1, <2>3, ListedFacts
        <3>2. CASE e[2] # doomed
            BY <3>2, <2>1, <2>4
        <3>3. QED
            BY <3>1, <3>2
    <2>5. PublishedFilesExist'
        BY <2>1, <2>4
    <2>6. QED
        BY <2>1, <2>2, <2>3, <2>5
<1>5. ASSUME NEW P \in SUBSET Pkgs, ChangePkgs(P)
      PROVE  Fresh'
    BY <1>5 DEF ChangePkgs
<1>6. ASSUME NEW k \in Sigs \union {None}, SetSig(k)
      PROVE  Fresh'
    BY <1>6 DEF SetSig, closure
<1>7. ASSUME NEW m \in Metans, WriteMetan(m)
      PROVE  Fresh'
    BY <1>7 DEF WriteMetan
<1>8. CASE OpenRepomd
    BY <1>8 DEF OpenRepomd
<1>9. CASE WriteRepomd
    BY <1>9, PublishAssumption DEF WriteRepomd, End, Entries, Progress
<1>10. CASE Sign
    BY <1>10 DEF Sign, End
<1>11. CASE Fail
    BY <1>11 DEF Fail, End
<1>12. CASE UNCHANGED vars
    BY <1>12 DEF vars, closure
<1>13. QED
    BY <1>1, <1>2, <1>3, <1>4, <1>5, <1>6, <1>7, <1>8, <1>9, <1>10, <1>11, <1>12 DEF Next

\* The invariant behind the last two theorems.
THEOREM FreshInvariant ==
    ASSUME ~MayRepeat
    PROVE  Spec => []Fresh
<1>1. Init => Fresh
    BY DEF Init, Fresh, CustomFilesExist, PublishedFilesExist
<1>2. TypeOK /\ Progress /\ Fresh /\ [Next]_vars => Fresh'
    BY FreshStep
<1>3. QED
    BY <1>1, <1>2, PublishInvariant, PTL DEF Spec

\* If no file is sent twice, the database of custom datatypes never names a file
\* that is gone.
THEOREM CustomFilesKept ==
    ASSUME ~MayRepeat
    PROVE  Spec => []CustomFilesExist
<1>1. Fresh => CustomFilesExist
    BY DEF Fresh
<1>2. QED
    BY FreshInvariant, <1>1, PTL

\* If no file is sent twice, repomd.xml never names a missing file other than one
\* whose datatype was replaced or deleted since.
THEOREM PublishedFilesKept ==
    ASSUME ~MayRepeat
    PROVE  Spec => []PublishedFilesExist
<1>1. Fresh => PublishedFilesExist
    BY DEF Fresh
<1>2. QED
    BY FreshInvariant, <1>1, PTL
===============================================================================
