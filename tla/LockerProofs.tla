----------------------------- MODULE LockerProofs -----------------------------
(***************************************************************************)
(* Theorems about Locker for any number of requests, repositories and keys. *)
(*                                                                         *)
(* HandleExact is not inductive: it counts the handles in requests' hands,  *)
(* so it needs to know in which places a request has one (OwnPlaces); and   *)
(* that no handle leaves the map under a closure (InsideHasHandle) needs    *)
(* that an opener cannot find the map entry occupied, which is HandleExact  *)
(* again.  LockerInv is their conjunction with the exclusion of writers and,*)
(* for the refinement, of two requests that rename the same data file.      *)
(***************************************************************************)
EXTENDS Locker, FiniteSetTheorems, WellFoundedInduction, TLAPS

\* A request has a handle of its own exactly between opening or taking it and
\* inserting, closing or deleting it.
OwnPlaces ==
    \A q \in Reqs : own[q] # None <=> pc[q] \in {"loadkey", "insert", "compact", "delrow", "rmdir"}

\* A request that runs a write closure runs alone on its repository; only key
\* changes pass through "setsig".
WriterAlone ==
    /\ \A r \in Repos : \A p, q \in Runners(r) :
          p # q => req[p].op = "read" /\ req[q].op = "read"
    /\ \A q \in Reqs : pc[q] = "setsig" => req[q].op # "read"

Renaming == {"rename1", "rename2"}

\* A data.compact keeps a second compaction away until it has its new name.
RenamerAlone ==
    \A q \in Reqs : pc[q] \in Renaming =>
        /\ req[q].repo \in copying
        /\ \A p \in Reqs : pc[p] \in Renaming /\ req[p].repo = req[q].repo => p = q

LockerInv ==
    /\ TypeOK /\ OwnPlaces /\ HandleExact /\ InsideHasHandle
    /\ WriterAlone /\ RenamerAlone

\* A request that is being served has its locals.
LEMMA RequestTypes ==
    ASSUME TypeOK, NEW q \in Reqs, pc[q] \notin Ended
    PROVE  req[q] \in Request /\ req[q] # None /\ req[q].repo \in Repos
  BY DEF TypeOK, Request

\* Handles and requests are never taken for None, and updating a field of one
\* keeps its type.
LEMMA HandleFacts ==
    /\ \A h \in Handle : h # None
    /\ \A h \in Handle, m \in Mats \union {None} :
          [h EXCEPT !.sig = m] \in Handle /\ [h EXCEPT !.sig = m].live = h.live
    /\ \A h \in Handle : [h EXCEPT !.live = FALSE] \in Handle
    /\ \A m \in Mats \union {None} : [sig |-> m, live |-> TRUE] \in Handle
  BY NoneAssumption DEF Handle

LEMMA RequestFacts ==
    /\ \A x \in Request : x # None
    /\ \A x \in Request, m \in Mats \union {None} :
          LET y == [x EXCEPT !.mat = m] IN
          y \in Request /\ y.repo = x.repo /\ y.op = x.op /\ y.want = x.want /\ y.row = x.row
    /\ \A x \in Request, k \in Keys \union {NoKey} :
          LET y == [x EXCEPT !.row = k] IN
          y \in Request /\ y.repo = x.repo /\ y.op = x.op /\ y.want = x.want /\ y.row = k
    /\ \A x \in Request :
          LET y == [x EXCEPT !.cold = TRUE] IN
          y \in Request /\ y.repo = x.repo /\ y.op = x.op /\ y.want = x.want /\ y.row = x.row
    /\ \A op \in Ops, r \in Repos, k \in Keys \union {NoKey} :
          LET y == [op |-> op, repo |-> r, want |-> k, mat |-> None, row |-> NoKey, cold |-> FALSE] IN
          y \in Request /\ y.repo = r /\ y.op = op /\ y.want = k
    /\ \A x \in Request : /\ x.repo \in Repos /\ x.op \in Ops
                          /\ x.want \in Keys \union {NoKey} /\ x.row \in Keys \union {NoKey}
                          /\ x.mat \in Mats \union {None}
  BY NoneAssumption DEF Request

\* Renaming data.mdb makes handles stale; it neither makes nor destroys one.
LEMMA RelinkFacts ==
    ASSUME TypeOK, NEW r \in Repos, Relink(r)
    PROVE  /\ cached' \in [Repos -> Handle \union {None}]
           /\ own' \in [Reqs -> Handle \union {None}]
           /\ \A s \in Repos : cached'[s] = None <=> cached[s] = None
           /\ \A p \in Reqs : own'[p] = None <=> own[p] = None
  <1>1. cached' \in [Repos -> Handle \union {None}] /\ \A s \in Repos : cached'[s] = None <=> cached[s] = None
    BY HandleFacts DEF TypeOK, Relink
  <1>2. own' \in [Reqs -> Handle \union {None}] /\ \A p \in Reqs : own'[p] = None <=> own[p] = None
    BY HandleFacts DEF TypeOK, Relink
  <1> QED
    BY <1>1, <1>2

LEMMA InitInv == Init => LockerInv
  BY NoneAssumption DEF Init, LockerInv, TypeOK, OwnPlaces, HandleExact, InsideHasHandle, WriterAlone,
     Holders, Runners, Running, Inside, Ended, Places, RenamerAlone, Renaming

\* Every variable keeps its type; keys and rows are looked up only by ids they have.
LEMMA TypeOKStep == LockerInv /\ [Next]_vars => TypeOK'
  <1> SUFFICES ASSUME LockerInv, [Next]_vars PROVE TypeOK'
    OBVIOUS
  <1> USE RequestTypes, HandleFacts, RequestFacts
      DEF LockerInv, TypeOK, Goto, End, Queue, Turn, OuterWait, Inside, Ended, Sync, dbVars,
          Places, OuterLine, InnerLine
  <1>1. ASSUME NEW q \in Reqs, Arrive(q) PROVE TypeOK'
    BY <1>1 DEF Arrive
  <1>2. ASSUME NEW q \in Reqs, SelectKey(q) PROVE TypeOK'
    BY <1>2 DEF SelectKey
  <1>3. ASSUME NEW q \in Reqs, Lookup(q) PROVE TypeOK'
    BY <1>3 DEF Lookup
  <1>4. ASSUME NEW q \in Reqs, SelectRow(q) PROVE TypeOK'
    <2>1. req[q] \in Request /\ rows[req[q].repo] \in Keys \union {NoKey, None}
      BY <1>4 DEF SelectRow
    <2>2. req' \in [Reqs -> Request \union {None}]
      <3>1. rows[req[q].repo] # None => [req[q] EXCEPT !.row = rows[req[q].repo]] \in Request
        BY <2>1
      <3> QED
        BY <1>4, <3>1 DEF SelectRow
    <2> QED
      BY <1>4, <2>2 DEF SelectRow
  <1>5. ASSUME NEW q \in Reqs, OpenEnv(q) PROVE TypeOK'
    <2>1. req[q].repo \in Repos /\ [sig |-> None, live |-> TRUE] \in Handle
      BY <1>5 DEF OpenEnv
    <2>2. own' \in [Reqs -> Handle \union {None}] /\ opened' \in SUBSET Repos
      BY <1>5, <2>1 DEF OpenEnv
    <2>3. req' \in [Reqs -> Request \union {None}] /\ pc' \in [Reqs -> Places]
      BY <1>5, <2>1 DEF OpenEnv, WithHandle
    <2> QED
      BY <1>5, <2>2, <2>3 DEF OpenEnv, WithHandle
  <1>6. ASSUME NEW q \in Reqs, LoadKey(q) PROVE TypeOK'
    <2> DEFINE mat == keys[req[q].row]
    <2>1. req[q] \in Request /\ req[q].row \in Keys /\ own[q] \in Handle
      BY <1>6 DEF LoadKey, OwnPlaces
    <2>2. CASE mat = None
      BY <1>6, <2>1, <2>2 DEF LoadKey, Drop
    <2>3. CASE mat # None
      <3>1. mat \in Mats \union {None}
        BY <2>1
      <3>2. [own[q] EXCEPT !.sig = mat] \in Handle
        BY <2>1, <3>1
      <3>3. own' = [own EXCEPT ![q] = [own[q] EXCEPT !.sig = mat]] /\ UNCHANGED <<cached, opened, clones, copying, req, dbVars>>
        BY <1>6, <2>3 DEF LoadKey
      <3> QED
        BY <1>6, <2>1, <2>3, <3>2, <3>3 DEF LoadKey, WithHandle
    <2> QED
      BY <2>2, <2>3
  <1>7. ASSUME NEW q \in Reqs, Insert(q) PROVE TypeOK'
    BY <1>7 DEF Insert, OuterFree
  <1>8. ASSUME NEW q \in Reqs, Reget(q) PROVE TypeOK'
    BY <1>8 DEF Reget
  <1>9. ASSUME NEW q \in Reqs, EnterClosure(q) PROVE TypeOK'
    BY <1>9 DEF EnterClosure, InnerFree
  <1>10. ASSUME NEW q \in Reqs, RunContents(q) PROVE TypeOK'
    BY <1>10 DEF RunContents, ClosureDone, LeaveProducers
  <1>11. ASSUME NEW q \in Reqs, UpdateRow(q) PROVE TypeOK'
    BY <1>11 DEF UpdateRow, ClosureDone
  <1>12. ASSUME NEW q \in Reqs, SetSig(q) PROVE TypeOK'
    <2>1. req[q] \in Request /\ cached[req[q].repo] \in Handle
      BY <1>12 DEF SetSig, InsideHasHandle
    <2>2. cached' \in [Repos -> Handle \union {None}]
      BY <1>12, <2>1 DEF SetSig
    <2>3. \A r \in Repos : cached'[r] = None <=> cached[r] = None
      BY <1>12, <2>1 DEF SetSig
    <2> QED
      BY <1>12, <2>1, <2>2, <2>3 DEF SetSig, ClosureDone
  <1>13. ASSUME NEW q \in Reqs, Evict(q) PROVE TypeOK'
    BY <1>13 DEF Evict, OuterFree
  <1>14. ASSUME NEW q \in Reqs, Compact(q) PROVE TypeOK'
    BY <1>14 DEF Compact, Drop
  <1>15. ASSUME NEW q \in Reqs, RenameOld(q) PROVE TypeOK'
    <2>1. req[q].repo \in Repos /\ Relink(req[q].repo)
      BY <1>15 DEF RenameOld
    <2> QED
      BY <1>15, <2>1, RelinkFacts DEF RenameOld
  <1>16. ASSUME NEW q \in Reqs, RenameNew(q) PROVE TypeOK'
    <2>1. req[q].repo \in Repos /\ Relink(req[q].repo)
      BY <1>16 DEF RenameNew
    <2> QED
      BY <1>16, <2>1, RelinkFacts DEF RenameNew
  <1>17. ASSUME NEW q \in Reqs, Take(q) PROVE TypeOK'
    BY <1>17 DEF Take, OuterFree
  <1>18. ASSUME NEW q \in Reqs, DeleteRow(q) PROVE TypeOK'
    BY <1>18 DEF DeleteRow
  <1>19. ASSUME NEW q \in Reqs, RemoveDir(q) PROVE TypeOK'
    BY <1>19 DEF RemoveDir, Drop
  <1>20. ASSUME NEW q \in Reqs, Abort(q) PROVE TypeOK'
    BY <1>20 DEF Abort, Drop, LeaveProducers
  <1>21. ASSUME NEW r \in Repos, ProducersEnd(r) \/ CreateRepo(r) PROVE TypeOK'
    BY <1>21 DEF ProducersEnd, CreateRepo
  <1>22. ASSUME NEW k \in Keys, CreateKey(k) \/ DeleteKey(k) PROVE TypeOK'
    BY <1>22 DEF CreateKey, DeleteKey
  <1>23. CASE UNCHANGED vars
    BY <1>23 DEF vars
  <1> QED
    BY <1>1, <1>2, <1>3, <1>4, <1>5, <1>6, <1>7, <1>8, <1>9, <1>10, <1>11, <1>12, <1>13, <1>14, <1>15, <1>16, <1>17, <1>18, <1>19, <1>20, <1>21, <1>22, <1>23 DEF Next, Step

\* A handle is in hand in the same places after the step.
LEMMA OwnPlacesStep == LockerInv /\ [Next]_vars => OwnPlaces'
  <1> SUFFICES ASSUME LockerInv, [Next]_vars PROVE OwnPlaces'
    OBVIOUS
  <1> USE RequestTypes, HandleFacts, RequestFacts
      DEF LockerInv, TypeOK, Goto, End, Queue, Turn, OuterWait, Inside, Ended, Sync, dbVars,
          OwnPlaces
  <1>1. ASSUME NEW q \in Reqs, Arrive(q) PROVE OwnPlaces'
    BY <1>1 DEF Arrive
  <1>2. ASSUME NEW q \in Reqs, SelectKey(q) PROVE OwnPlaces'
    BY <1>2 DEF SelectKey
  <1>3. ASSUME NEW q \in Reqs, Lookup(q) PROVE OwnPlaces'
    BY <1>3 DEF Lookup
  <1>4. ASSUME NEW q \in Reqs, SelectRow(q) PROVE OwnPlaces'
    BY <1>4 DEF SelectRow
  <1>5. ASSUME NEW q \in Reqs, OpenEnv(q) PROVE OwnPlaces'
    BY <1>5 DEF OpenEnv, WithHandle, CanOpen
  <1>6. ASSUME NEW q \in Reqs, LoadKey(q) PROVE OwnPlaces'
    BY <1>6 DEF LoadKey, WithHandle, Drop
  <1>7. ASSUME NEW q \in Reqs, Insert(q) PROVE OwnPlaces'
    BY <1>7 DEF Insert, OuterFree
  <1>8. ASSUME NEW q \in Reqs, Reget(q) PROVE OwnPlaces'
    BY <1>8 DEF Reget
  <1>9. ASSUME NEW q \in Reqs, EnterClosure(q) PROVE OwnPlaces'
    BY <1>9 DEF EnterClosure, InnerFree
  <1>10. ASSUME NEW q \in Reqs, RunContents(q) PROVE OwnPlaces'
    BY <1>10 DEF RunContents, ClosureDone, LeaveProducers
  <1>11. ASSUME NEW q \in Reqs, UpdateRow(q) PROVE OwnPlaces'
    BY <1>11 DEF UpdateRow, ClosureDone
  <1>12. ASSUME NEW q \in Reqs, SetSig(q) PROVE OwnPlaces'
    BY <1>12 DEF SetSig, ClosureDone
  <1>13. ASSUME NEW q \in Reqs, Evict(q) PROVE OwnPlaces'
    BY <1>13 DEF Evict, OuterFree
  <1>14. ASSUME NEW q \in Reqs, Compact(q) PROVE OwnPlaces'
    BY <1>14 DEF Compact, Drop
  <1>15. ASSUME NEW q \in Reqs, RenameOld(q) PROVE OwnPlaces'
    <2>1. req[q].repo \in Repos /\ Relink(req[q].repo)
      BY <1>15 DEF RenameOld
    <2> QED
      BY <1>15, <2>1, RelinkFacts DEF RenameOld
  <1>16. ASSUME NEW q \in Reqs, RenameNew(q) PROVE OwnPlaces'
    <2>1. req[q].repo \in Repos /\ Relink(req[q].repo)
      BY <1>16 DEF RenameNew
    <2> QED
      BY <1>16, <2>1, RelinkFacts DEF RenameNew
  <1>17. ASSUME NEW q \in Reqs, Take(q) PROVE OwnPlaces'
    BY <1>17 DEF Take, OuterFree
  <1>18. ASSUME NEW q \in Reqs, DeleteRow(q) PROVE OwnPlaces'
    BY <1>18 DEF DeleteRow
  <1>19. ASSUME NEW q \in Reqs, RemoveDir(q) PROVE OwnPlaces'
    BY <1>19 DEF RemoveDir, Drop
  <1>20. ASSUME NEW q \in Reqs, Abort(q) PROVE OwnPlaces'
    BY <1>20 DEF Abort, Drop, LeaveProducers
  <1>21. ASSUME NEW r \in Repos, ProducersEnd(r) \/ CreateRepo(r) PROVE OwnPlaces'
    BY <1>21 DEF ProducersEnd, CreateRepo
  <1>22. ASSUME NEW k \in Keys, CreateKey(k) \/ DeleteKey(k) PROVE OwnPlaces'
    BY <1>22 DEF CreateKey, DeleteKey
  <1>23. CASE UNCHANGED vars
    BY <1>23 DEF vars
  <1> QED
    BY <1>1, <1>2, <1>3, <1>4, <1>5, <1>6, <1>7, <1>8, <1>9, <1>10, <1>11, <1>12, <1>13, <1>14, <1>15, <1>16, <1>17, <1>18, <1>19, <1>20, <1>21, <1>22, <1>23 DEF Next, Step

\* Steps that move no handle, and leave no producers but of a handle in the map.
LEMMA HandlesStay ==
    ASSUME HandleExact, UNCHANGED <<opened, own>>,
           \A r \in Repos : r \in clones' <=> r \in clones \/ (r \in clones' /\ cached[r] # None),
           \A r \in Repos : cached'[r] = None <=> cached[r] = None,
           \A p \in Reqs : own[p] # None => req'[p].repo = req[p].repo
    PROVE  HandleExact'
  <1>1. \A r \in Repos : Holders(r)' = Holders(r)
    BY DEF Holders
  <1> QED
    BY <1>1 DEF HandleExact

LEMMA QuietSteps ==
    ASSUME LockerInv, NEW q \in Reqs,
           \/ SelectKey(q) \/ Lookup(q) \/ SelectRow(q) \/ Reget(q) \/ EnterClosure(q)
           \/ RunContents(q) \/ UpdateRow(q) \/ SetSig(q)
    PROVE  HandleExact'
  <1>1. own[q] = None
    BY DEF LockerInv, TypeOK, OwnPlaces, SelectKey, Lookup, SelectRow, Reget, EnterClosure, RunContents,
       UpdateRow, SetSig
  <1>2. UNCHANGED <<opened, own>>
    BY DEF SelectKey, Lookup, SelectRow, Reget, EnterClosure, RunContents, UpdateRow, SetSig
  <1>3. req' = req \/ \E x : req' = [req EXCEPT ![q] = x]
    BY DEF SelectKey, Lookup, SelectRow, Reget, EnterClosure, RunContents, UpdateRow, SetSig, ClosureDone, End
  <1>4. \A p \in Reqs : p # q => req'[p] = req[p]
    BY <1>3 DEF LockerInv, TypeOK
  <1>5. ASSUME NEW r \in Repos PROVE cached'[r] = None <=> cached[r] = None
    <2>1. CASE SetSig(q)
      <3>1. req[q] \in Request /\ cached[req[q].repo] \in Handle /\ cached \in [Repos -> Handle \union {None}]
        BY <2>1, RequestTypes DEF SetSig, LockerInv, InsideHasHandle, TypeOK, Inside, Ended, Running
      <3>2. req[q].mat \in Mats \union {None} /\ req[q].repo \in Repos
        BY <3>1, RequestFacts
      <3>3. [cached[req[q].repo] EXCEPT !.sig = req[q].mat] # None
        BY <3>1, <3>2, HandleFacts
      <3> QED
        BY <2>1, <3>1, <3>2, <3>3, HandleFacts DEF SetSig
    <2>2. CASE ~SetSig(q)
      BY <2>2 DEF SelectKey, Lookup, SelectRow, Reget, EnterClosure, RunContents, UpdateRow
    <2> QED
      BY <2>1, <2>2
  <1>6. \A r \in Repos : r \in clones' <=> r \in clones \/ (r \in clones' /\ cached[r] # None)
    <2>1. CASE RunContents(q)
      BY <2>1 DEF RunContents, LeaveProducers, LockerInv, InsideHasHandle, Inside
    <2>2. CASE ~RunContents(q)
      BY <2>2 DEF SelectKey, Lookup, SelectRow, Reget, EnterClosure, UpdateRow, SetSig
    <2> QED
      BY <2>1, <2>2
  <1> QED
    BY <1>1, <1>2, <1>4, <1>5, <1>6, HandlesStay DEF LockerInv

\* No step makes a second handle or lets the registry drift from the handles.
LEMMA HandleExactStep == LockerInv /\ [Next]_vars => HandleExact'
  <1> SUFFICES ASSUME LockerInv, [Next]_vars PROVE HandleExact'
    OBVIOUS
  <1> USE RequestTypes, HandleFacts, RequestFacts
      DEF LockerInv, TypeOK, Goto, End, Queue, Turn, OuterWait, Inside, Ended, Sync, dbVars,
          OwnPlaces, HandleExact, Holders, InsideHasHandle, Running
  <1>1. ASSUME NEW q \in Reqs, Arrive(q) PROVE HandleExact'
    BY <1>1 DEF Arrive
  <1>2. ASSUME NEW q \in Reqs, SelectKey(q) PROVE HandleExact'
    BY <1>2, QuietSteps
  <1>3. ASSUME NEW q \in Reqs, Lookup(q) PROVE HandleExact'
    BY <1>3, QuietSteps
  <1>4. ASSUME NEW q \in Reqs, SelectRow(q) PROVE HandleExact'
    BY <1>4, QuietSteps
  <1>5. ASSUME NEW q \in Reqs, OpenEnv(q) PROVE HandleExact'
    BY <1>5 DEF OpenEnv, WithHandle, CanOpen
  <1>6. ASSUME NEW q \in Reqs, LoadKey(q) PROVE HandleExact'
    <2> DEFINE mat == keys[req[q].row]
    <2>1. req[q] \in Request /\ req[q].row \in Keys /\ own[q] \in Handle
      BY <1>6 DEF LoadKey, OwnPlaces
    <2>2. CASE mat = None
      <3>1. /\ own' = [own EXCEPT ![q] = None] /\ clones' = clones
            /\ opened' = IF req[q].repo \in clones THEN opened ELSE opened \ {req[q].repo}
            /\ cached' = cached /\ req' = [req EXCEPT ![q] = None]
        BY <1>6, <2>1, <2>2 DEF LoadKey, Drop
      <3>2. own'[q] = None /\ \A p \in Reqs : p # q => own'[p] = own[p] /\ req'[p] = req[p]
        BY <3>1
      <3> QED
        BY <2>1, <3>1, <3>2
    <2>3. CASE mat # None
      <3>1. mat \in Mats \union {None}
        BY <2>1
      <3>2. [own[q] EXCEPT !.sig = mat] \in Handle
        BY <2>1, <3>1
      <3>3. own' = [own EXCEPT ![q] = [own[q] EXCEPT !.sig = mat]] /\ UNCHANGED <<cached, opened, clones, copying, req, dbVars>>
        BY <1>6, <2>3 DEF LoadKey
      <3> QED
        BY <1>6, <2>1, <2>3, <3>2, <3>3 DEF LoadKey, WithHandle
    <2> QED
      BY <2>2, <2>3
  <1>7. ASSUME NEW q \in Reqs, Insert(q) PROVE HandleExact'
    BY <1>7 DEF Insert, OuterFree
  <1>8. ASSUME NEW q \in Reqs, Reget(q) PROVE HandleExact'
    BY <1>8, QuietSteps
  <1>9. ASSUME NEW q \in Reqs, EnterClosure(q) PROVE HandleExact'
    BY <1>9, QuietSteps
  <1>10. ASSUME NEW q \in Reqs, RunContents(q) PROVE HandleExact'
    BY <1>10, QuietSteps
  <1>11. ASSUME NEW q \in Reqs, UpdateRow(q) PROVE HandleExact'
    BY <1>11, QuietSteps
  <1>12. ASSUME NEW q \in Reqs, SetSig(q) PROVE HandleExact'
    BY <1>12, QuietSteps
  <1>13. ASSUME NEW q \in Reqs, Evict(q) PROVE HandleExact'
    BY <1>13 DEF Evict, OuterFree
  <1>14. ASSUME NEW q \in Reqs, Compact(q) PROVE HandleExact'
    BY <1>14 DEF Compact, Drop
  <1>15. ASSUME NEW q \in Reqs, RenameOld(q) PROVE HandleExact'
    <2>1. req[q].repo \in Repos /\ Relink(req[q].repo)
      BY <1>15 DEF RenameOld
    <2> QED
      BY <1>15, <2>1, RelinkFacts DEF RenameOld
  <1>16. ASSUME NEW q \in Reqs, RenameNew(q) PROVE HandleExact'
    <2>1. req[q].repo \in Repos /\ Relink(req[q].repo)
      BY <1>16 DEF RenameNew
    <2> QED
      BY <1>16, <2>1, RelinkFacts DEF RenameNew
  <1>17. ASSUME NEW q \in Reqs, Take(q) PROVE HandleExact'
    BY <1>17 DEF Take, OuterFree
  <1>18. ASSUME NEW q \in Reqs, DeleteRow(q) PROVE HandleExact'
    BY <1>18 DEF DeleteRow
  <1>19. ASSUME NEW q \in Reqs, RemoveDir(q) PROVE HandleExact'
    BY <1>19 DEF RemoveDir, Drop
  <1>20. ASSUME NEW q \in Reqs, Abort(q) PROVE HandleExact'
    BY <1>20 DEF Abort, Drop, LeaveProducers
  <1>21. ASSUME NEW r \in Repos, ProducersEnd(r) \/ CreateRepo(r) PROVE HandleExact'
    BY <1>21 DEF ProducersEnd, CreateRepo
  <1>22. ASSUME NEW k \in Keys, CreateKey(k) \/ DeleteKey(k) PROVE HandleExact'
    BY <1>22 DEF CreateKey, DeleteKey
  <1>23. CASE UNCHANGED vars
    BY <1>23 DEF vars
  <1> QED
    BY <1>1, <1>2, <1>3, <1>4, <1>5, <1>6, <1>7, <1>8, <1>9, <1>10, <1>11, <1>12, <1>13, <1>14, <1>15, <1>16, <1>17, <1>18, <1>19, <1>20, <1>21, <1>22, <1>23 DEF Next, Step

\* No step takes a handle out of the map under a closure.
LEMMA InsideHasHandleStep == LockerInv /\ [Next]_vars => InsideHasHandle'
  <1> SUFFICES ASSUME LockerInv, [Next]_vars PROVE InsideHasHandle'
    OBVIOUS
  <1> USE RequestTypes, HandleFacts, RequestFacts
      DEF LockerInv, TypeOK, Goto, End, Queue, Turn, OuterWait, Inside, Ended, Sync, dbVars,
          InsideHasHandle, OwnPlaces, HandleExact, Holders
  <1>1. ASSUME NEW q \in Reqs, Arrive(q) PROVE InsideHasHandle'
    BY <1>1 DEF Arrive
  <1>2. ASSUME NEW q \in Reqs, SelectKey(q) PROVE InsideHasHandle'
    BY <1>2 DEF SelectKey
  <1>3. ASSUME NEW q \in Reqs, Lookup(q) PROVE InsideHasHandle'
    BY <1>3 DEF Lookup
  <1>4. ASSUME NEW q \in Reqs, SelectRow(q) PROVE InsideHasHandle'
    BY <1>4 DEF SelectRow
  <1>5. ASSUME NEW q \in Reqs, OpenEnv(q) PROVE InsideHasHandle'
    BY <1>5 DEF OpenEnv, WithHandle, CanOpen
  <1>6. ASSUME NEW q \in Reqs, LoadKey(q) PROVE InsideHasHandle'
    BY <1>6 DEF LoadKey, WithHandle, Drop
  <1>7. ASSUME NEW q \in Reqs, Insert(q) PROVE InsideHasHandle'
    BY <1>7 DEF Insert, OuterFree
  <1>8. ASSUME NEW q \in Reqs, Reget(q) PROVE InsideHasHandle'
    BY <1>8 DEF Reget
  <1>9. ASSUME NEW q \in Reqs, EnterClosure(q) PROVE InsideHasHandle'
    BY <1>9 DEF EnterClosure, InnerFree
  <1>10. ASSUME NEW q \in Reqs, RunContents(q) PROVE InsideHasHandle'
    BY <1>10 DEF RunContents, ClosureDone, LeaveProducers
  <1>11. ASSUME NEW q \in Reqs, UpdateRow(q) PROVE InsideHasHandle'
    BY <1>11 DEF UpdateRow, ClosureDone
  <1>12. ASSUME NEW q \in Reqs, SetSig(q) PROVE InsideHasHandle'
    <2>1. req[q] \in Request /\ cached[req[q].repo] \in Handle
      BY <1>12 DEF SetSig, InsideHasHandle
    <2>2. cached' \in [Repos -> Handle \union {None}]
      BY <1>12, <2>1 DEF SetSig
    <2>3. \A r \in Repos : cached'[r] = None <=> cached[r] = None
      BY <1>12, <2>1 DEF SetSig
    <2> QED
      BY <1>12, <2>1, <2>2, <2>3 DEF SetSig, ClosureDone
  <1>13. ASSUME NEW q \in Reqs, Evict(q) PROVE InsideHasHandle'
    BY <1>13 DEF Evict, OuterFree
  <1>14. ASSUME NEW q \in Reqs, Compact(q) PROVE InsideHasHandle'
    BY <1>14 DEF Compact, Drop
  <1>15. ASSUME NEW q \in Reqs, RenameOld(q) PROVE InsideHasHandle'
    <2>1. req[q].repo \in Repos /\ Relink(req[q].repo)
      BY <1>15 DEF RenameOld
    <2> QED
      BY <1>15, <2>1, RelinkFacts DEF RenameOld
  <1>16. ASSUME NEW q \in Reqs, RenameNew(q) PROVE InsideHasHandle'
    <2>1. req[q].repo \in Repos /\ Relink(req[q].repo)
      BY <1>16 DEF RenameNew
    <2> QED
      BY <1>16, <2>1, RelinkFacts DEF RenameNew
  <1>17. ASSUME NEW q \in Reqs, Take(q) PROVE InsideHasHandle'
    BY <1>17 DEF Take, OuterFree
  <1>18. ASSUME NEW q \in Reqs, DeleteRow(q) PROVE InsideHasHandle'
    BY <1>18 DEF DeleteRow
  <1>19. ASSUME NEW q \in Reqs, RemoveDir(q) PROVE InsideHasHandle'
    BY <1>19 DEF RemoveDir, Drop
  <1>20. ASSUME NEW q \in Reqs, Abort(q) PROVE InsideHasHandle'
    BY <1>20 DEF Abort, Drop, LeaveProducers
  <1>21. ASSUME NEW r \in Repos, ProducersEnd(r) \/ CreateRepo(r) PROVE InsideHasHandle'
    BY <1>21 DEF ProducersEnd, CreateRepo
  <1>22. ASSUME NEW k \in Keys, CreateKey(k) \/ DeleteKey(k) PROVE InsideHasHandle'
    BY <1>22 DEF CreateKey, DeleteKey
  <1>23. CASE UNCHANGED vars
    BY <1>23 DEF vars
  <1> QED
    BY <1>1, <1>2, <1>3, <1>4, <1>5, <1>6, <1>7, <1>8, <1>9, <1>10, <1>11, <1>12, <1>13, <1>14, <1>15, <1>16, <1>17, <1>18, <1>19, <1>20, <1>21, <1>22, <1>23 DEF Next, Step

\* No step lets a closure in next to a write closure.
LEMMA WriterAloneStep == LockerInv /\ [Next]_vars => WriterAlone'
  <1> SUFFICES ASSUME LockerInv, [Next]_vars PROVE WriterAlone'
    OBVIOUS
  <1> USE RequestTypes, HandleFacts, RequestFacts
      DEF LockerInv, TypeOK, Goto, End, Queue, Turn, OuterWait, Inside, Ended, Sync, dbVars,
          WriterAlone, Runners, Running
  <1>1. ASSUME NEW q \in Reqs, Arrive(q) PROVE WriterAlone'
    BY <1>1 DEF Arrive
  <1>2. ASSUME NEW q \in Reqs, SelectKey(q) PROVE WriterAlone'
    BY <1>2 DEF SelectKey
  <1>3. ASSUME NEW q \in Reqs, Lookup(q) PROVE WriterAlone'
    BY <1>3 DEF Lookup
  <1>4. ASSUME NEW q \in Reqs, SelectRow(q) PROVE WriterAlone'
    BY <1>4 DEF SelectRow
  <1>5. ASSUME NEW q \in Reqs, OpenEnv(q) PROVE WriterAlone'
    BY <1>5 DEF OpenEnv, WithHandle, CanOpen
  <1>6. ASSUME NEW q \in Reqs, LoadKey(q) PROVE WriterAlone'
    <2>1. /\ pc'[q] \in {"idle", "delrow", "insert"}
          /\ \A p \in Reqs \ {q} : pc'[p] = pc[p] /\ req'[p] = req[p]
      BY <1>6 DEF LoadKey, WithHandle
    <2> QED
      BY <2>1
  <1>7. ASSUME NEW q \in Reqs, Insert(q) PROVE WriterAlone'
    BY <1>7 DEF Insert, OuterFree
  <1>8. ASSUME NEW q \in Reqs, Reget(q) PROVE WriterAlone'
    BY <1>8 DEF Reget
  <1>9. ASSUME NEW q \in Reqs, EnterClosure(q) PROVE WriterAlone'
    BY <1>9 DEF EnterClosure, InnerFree
  <1>10. ASSUME NEW q \in Reqs, RunContents(q) PROVE WriterAlone'
    BY <1>10 DEF RunContents, ClosureDone, LeaveProducers
  <1>11. ASSUME NEW q \in Reqs, UpdateRow(q) PROVE WriterAlone'
    BY <1>11 DEF UpdateRow, ClosureDone
  <1>12. ASSUME NEW q \in Reqs, SetSig(q) PROVE WriterAlone'
    BY <1>12 DEF SetSig, ClosureDone
  <1>13. ASSUME NEW q \in Reqs, Evict(q) PROVE WriterAlone'
    BY <1>13 DEF Evict, OuterFree
  <1>14. ASSUME NEW q \in Reqs, Compact(q) PROVE WriterAlone'
    BY <1>14 DEF Compact, Drop
  <1>15. ASSUME NEW q \in Reqs, RenameOld(q) PROVE WriterAlone'
    BY <1>15 DEF RenameOld
  <1>16. ASSUME NEW q \in Reqs, RenameNew(q) PROVE WriterAlone'
    BY <1>16 DEF RenameNew
  <1>17. ASSUME NEW q \in Reqs, Take(q) PROVE WriterAlone'
    BY <1>17 DEF Take, OuterFree
  <1>18. ASSUME NEW q \in Reqs, DeleteRow(q) PROVE WriterAlone'
    BY <1>18 DEF DeleteRow
  <1>19. ASSUME NEW q \in Reqs, RemoveDir(q) PROVE WriterAlone'
    BY <1>19 DEF RemoveDir, Drop
  <1>20. ASSUME NEW q \in Reqs, Abort(q) PROVE WriterAlone'
    BY <1>20 DEF Abort, Drop, LeaveProducers
  <1>21. ASSUME NEW r \in Repos, ProducersEnd(r) \/ CreateRepo(r) PROVE WriterAlone'
    BY <1>21 DEF ProducersEnd, CreateRepo
  <1>22. ASSUME NEW k \in Keys, CreateKey(k) \/ DeleteKey(k) PROVE WriterAlone'
    BY <1>22 DEF CreateKey, DeleteKey
  <1>23. CASE UNCHANGED vars
    BY <1>23 DEF vars
  <1> QED
    BY <1>1, <1>2, <1>3, <1>4, <1>5, <1>6, <1>7, <1>8, <1>9, <1>10, <1>11, <1>12, <1>13, <1>14, <1>15, <1>16, <1>17, <1>18, <1>19, <1>20, <1>21, <1>22, <1>23 DEF Next, Step

\* No step lets a second request rename the data file.
LEMMA RenamerAloneStep == LockerInv /\ [Next]_vars => RenamerAlone'
  <1> SUFFICES ASSUME LockerInv, [Next]_vars PROVE RenamerAlone'
    OBVIOUS
  <1> USE RequestTypes, HandleFacts, RequestFacts
      DEF LockerInv, TypeOK, Goto, End, Queue, Turn, OuterWait, Inside, Ended, Sync, dbVars,
          RenamerAlone, Renaming
  <1>1. ASSUME NEW q \in Reqs, Arrive(q) PROVE RenamerAlone'
    BY <1>1 DEF Arrive
  <1>2. ASSUME NEW q \in Reqs, SelectKey(q) PROVE RenamerAlone'
    BY <1>2 DEF SelectKey
  <1>3. ASSUME NEW q \in Reqs, Lookup(q) PROVE RenamerAlone'
    BY <1>3 DEF Lookup
  <1>4. ASSUME NEW q \in Reqs, SelectRow(q) PROVE RenamerAlone'
    BY <1>4 DEF SelectRow
  <1>5. ASSUME NEW q \in Reqs, OpenEnv(q) PROVE RenamerAlone'
    BY <1>5 DEF OpenEnv, WithHandle, CanOpen
  <1>6. ASSUME NEW q \in Reqs, LoadKey(q) PROVE RenamerAlone'
    BY <1>6 DEF LoadKey, WithHandle, Drop
  <1>7. ASSUME NEW q \in Reqs, Insert(q) PROVE RenamerAlone'
    BY <1>7 DEF Insert, OuterFree
  <1>8. ASSUME NEW q \in Reqs, Reget(q) PROVE RenamerAlone'
    BY <1>8 DEF Reget
  <1>9. ASSUME NEW q \in Reqs, EnterClosure(q) PROVE RenamerAlone'
    BY <1>9 DEF EnterClosure, InnerFree
  <1>10. ASSUME NEW q \in Reqs, RunContents(q) PROVE RenamerAlone'
    BY <1>10 DEF RunContents, ClosureDone, LeaveProducers
  <1>11. ASSUME NEW q \in Reqs, UpdateRow(q) PROVE RenamerAlone'
    BY <1>11 DEF UpdateRow, ClosureDone
  <1>12. ASSUME NEW q \in Reqs, SetSig(q) PROVE RenamerAlone'
    BY <1>12 DEF SetSig, ClosureDone
  <1>13. ASSUME NEW q \in Reqs, Evict(q) PROVE RenamerAlone'
    BY <1>13 DEF Evict, OuterFree
  <1>14. ASSUME NEW q \in Reqs, Compact(q) PROVE RenamerAlone'
    BY <1>14 DEF Compact, Drop
  <1>15. ASSUME NEW q \in Reqs, RenameOld(q) PROVE RenamerAlone'
    BY <1>15 DEF RenameOld
  <1>16. ASSUME NEW q \in Reqs, RenameNew(q) PROVE RenamerAlone'
    BY <1>16 DEF RenameNew
  <1>17. ASSUME NEW q \in Reqs, Take(q) PROVE RenamerAlone'
    BY <1>17 DEF Take, OuterFree
  <1>18. ASSUME NEW q \in Reqs, DeleteRow(q) PROVE RenamerAlone'
    BY <1>18 DEF DeleteRow
  <1>19. ASSUME NEW q \in Reqs, RemoveDir(q) PROVE RenamerAlone'
    BY <1>19 DEF RemoveDir, Drop
  <1>20. ASSUME NEW q \in Reqs, Abort(q) PROVE RenamerAlone'
    BY <1>20 DEF Abort, Drop, LeaveProducers
  <1>21. ASSUME NEW r \in Repos, ProducersEnd(r) \/ CreateRepo(r) PROVE RenamerAlone'
    BY <1>21 DEF ProducersEnd, CreateRepo
  <1>22. ASSUME NEW k \in Keys, CreateKey(k) \/ DeleteKey(k) PROVE RenamerAlone'
    BY <1>22 DEF CreateKey, DeleteKey
  <1>23. CASE UNCHANGED vars
    BY <1>23 DEF vars
  <1> QED
    BY <1>1, <1>2, <1>3, <1>4, <1>5, <1>6, <1>7, <1>8, <1>9, <1>10, <1>11, <1>12, <1>13, <1>14, <1>15, <1>16, <1>17, <1>18, <1>19, <1>20, <1>21, <1>22, <1>23 DEF Next, Step

LEMMA InvStep == LockerInv /\ [Next]_vars => LockerInv'
  BY TypeOKStep, OwnPlacesStep, HandleExactStep, InsideHasHandleStep, WriterAloneStep,
     RenamerAloneStep DEF LockerInv

THEOREM LockerInvariant == Spec => []LockerInv
  BY InitInv, InvStep, PTL DEF Spec

\* The types, for any number of requests, repositories and keys.
THEOREM TypeCorrect == Spec => []TypeOK
  BY LockerInvariant, PTL DEF LockerInv

\* One handle per repository, and an environment open exactly as long as it or as
\* producers that outlived their generation.
THEOREM OneHandlePerRepo == Spec => []HandleExact
  BY LockerInvariant, PTL DEF LockerInv

\* A closure's handle stays in the map until the closure is over.
THEOREM ClosuresKeepTheirHandle == Spec => []InsideHasHandle
  BY LockerInvariant, PTL DEF LockerInv

-------------------------------------------------------------------------------
(* Refinement.  RepoAccess only sees each request's role on its repository. *)

Role(p) ==
    CASE own[p] # None \/ (pc[p] \in Running /\ req[p].op # "read") -> "holds"
      [] own[p] = None /\ pc[p] \in Running /\ req[p].op = "read" -> "reads"
      [] own[p] = None /\ pc[p] \in Renaming -> "renames"
      [] OTHER -> "none"

\* A step of q: others keep their roles; q takes one up, gives it up, keeps it or
\* goes on from closing the repository to renaming its data file.
OneRoleChanges(q) ==
    /\ \A p \in Reqs \ {q} :
          Role(p)' = Role(p) /\ (Role(p) # "none" => req'[p].repo = req[p].repo)
    /\ \/ Role(q)' = "none"
       \/ Role(q) = "none" /\ Role(q)' # "renames"
       \/ /\ Role(q)' = Role(q) \/ (Role(q) = "holds" /\ Role(q)' = "renames")
          /\ req'[q].repo = req[q].repo

\* What LockerInv says of the roles: RepoAccess's variables are the sets of
\* requests with each role, and a holder is alone on its repository but for a
\* renamer, of which there is at most one.
RoleView ==
    /\ ReadingNow = [r \in Repos |-> {p \in Reqs : Role(p) = "reads" /\ req[p].repo = r}]
    /\ HoldingNow = [r \in Repos |-> {p \in Reqs : Role(p) = "holds" /\ req[p].repo = r}]
    /\ RenamingNow = [r \in Repos |-> {p \in Reqs : Role(p) = "renames" /\ req[p].repo = r}]
    /\ \A p \in Reqs : Role(p) # "none" => req[p].repo \in Repos
    /\ \A p, q \in Reqs : p # q /\ Role(p) = "holds" /\ Role(q) \in {"holds", "reads"}
                              => req[p].repo # req[q].repo
    /\ \A p, q \in Reqs : p # q /\ Role(p) = "renames" /\ Role(q) = "renames"
                              => req[p].repo # req[q].repo

LEMMA RoleFacts == LockerInv => RoleView
  <1> SUFFICES ASSUME LockerInv PROVE RoleView
    OBVIOUS
  <1> USE RequestTypes DEF LockerInv, OwnPlaces, Role
  <1>1. \A p \in Reqs : pc[p] \in Running => own[p] = None
    BY DEF Running
  <1>2. ReadingNow = [r \in Repos |-> {p \in Reqs : Role(p) = "reads" /\ req[p].repo = r}]
    BY <1>1 DEF ReadingNow, Runners, Running, Renaming
  <1>3. HoldingNow = [r \in Repos |-> {p \in Reqs : Role(p) = "holds" /\ req[p].repo = r}]
    BY <1>1 DEF HoldingNow, Runners, Holders, Running, Renaming
  <1>4. \A p \in Reqs : Role(p) # "none" => req[p].repo \in Repos
    BY DEF Running, Ended, Renaming
  <1>5. RenamingNow = [r \in Repos |-> {p \in Reqs : Role(p) = "renames" /\ req[p].repo = r}]
    BY DEF RenamingNow, Renaming, Running
  <1>6. \A p, q \in Reqs : p # q /\ Role(p) = "renames" /\ Role(q) = "renames"
                                => req[p].repo # req[q].repo
    BY DEF RenamerAlone
  <1>7. ASSUME NEW p \in Reqs, NEW q \in Reqs, p # q, Role(p) = "holds",
               Role(q) \in {"holds", "reads"},
               req[p].repo = req[q].repo
        PROVE  FALSE
    <2>1. req[p].repo \in Repos
      BY <1>4, <1>7
    <2>2. CASE own[p] # None
      BY <1>1, <1>7, <2>1, <2>2 DEF HandleExact, Holders, InsideHasHandle, Running, Inside
    <2>3. CASE own[p] = None
      BY <1>1, <1>7, <2>1, <2>3 DEF HandleExact, Holders, InsideHasHandle, WriterAlone, Runners, Running, Inside
    <2> QED
      BY <2>2, <2>3
  <1> QED
    BY <1>2, <1>3, <1>4, <1>5, <1>6, <1>7 DEF RoleView

\* The requests with a role on a repository are those that had it, but for the one
\* whose role changes.
LEMMA RoleMoves ==
    ASSUME RoleView, RoleView', NEW q \in Reqs, OneRoleChanges(q), NEW r \in Repos
    PROVE  /\ ReadingNow'[r] = (ReadingNow[r] \ {q})
                  \union (IF Role(q)' = "reads" /\ req'[q].repo = r THEN {q} ELSE {})
           /\ (Role(q)' = "reads" /\ req'[q].repo = r <=> q \in ReadingNow[r])
                => ReadingNow'[r] = ReadingNow[r]
           /\ HoldingNow'[r] = (HoldingNow[r] \ {q})
                  \union (IF Role(q)' = "holds" /\ req'[q].repo = r THEN {q} ELSE {})
           /\ (Role(q)' = "holds" /\ req'[q].repo = r <=> q \in HoldingNow[r])
                => HoldingNow'[r] = HoldingNow[r]
           /\ RenamingNow'[r] = (RenamingNow[r] \ {q})
                  \union (IF Role(q)' = "renames" /\ req'[q].repo = r THEN {q} ELSE {})
           /\ (Role(q)' = "renames" /\ req'[q].repo = r <=> q \in RenamingNow[r])
                => RenamingNow'[r] = RenamingNow[r]
  <1>1. \A p \in Reqs \ {q} :
            Role(p)' = Role(p) /\ (Role(p) # "none" => req'[p].repo = req[p].repo)
    BY DEF OneRoleChanges
  <1>2. /\ ReadingNow'[r] = (ReadingNow[r] \ {q})
               \union (IF Role(q)' = "reads" /\ req'[q].repo = r THEN {q} ELSE {})
        /\ (Role(q)' = "reads" /\ req'[q].repo = r <=> q \in ReadingNow[r])
             => ReadingNow'[r] = ReadingNow[r]
    <2>1. ReadingNow[r] = {p \in Reqs : Role(p) = "reads" /\ req[p].repo = r}
      BY DEF RoleView
    <2>2. ReadingNow'[r] = {p \in Reqs : Role(p)' = "reads" /\ req'[p].repo = r}
      BY DEF RoleView
    <2>3. \A p \in Reqs \ {q} : p \in ReadingNow'[r] <=> p \in ReadingNow[r]
      BY <1>1, <2>1, <2>2
    <2>4. q \in ReadingNow'[r] <=> Role(q)' = "reads" /\ req'[q].repo = r
      BY <2>2
    <2>5. ReadingNow[r] \subseteq Reqs /\ ReadingNow'[r] \subseteq Reqs
      BY <2>1, <2>2
    <2> QED
      BY <2>3, <2>4, <2>5
  <1>3. /\ HoldingNow'[r] = (HoldingNow[r] \ {q})
               \union (IF Role(q)' = "holds" /\ req'[q].repo = r THEN {q} ELSE {})
        /\ (Role(q)' = "holds" /\ req'[q].repo = r <=> q \in HoldingNow[r])
             => HoldingNow'[r] = HoldingNow[r]
    <2>1. HoldingNow[r] = {p \in Reqs : Role(p) = "holds" /\ req[p].repo = r}
      BY DEF RoleView
    <2>2. HoldingNow'[r] = {p \in Reqs : Role(p)' = "holds" /\ req'[p].repo = r}
      BY DEF RoleView
    <2>3. \A p \in Reqs \ {q} : p \in HoldingNow'[r] <=> p \in HoldingNow[r]
      BY <1>1, <2>1, <2>2
    <2>4. q \in HoldingNow'[r] <=> Role(q)' = "holds" /\ req'[q].repo = r
      BY <2>2
    <2>5. HoldingNow[r] \subseteq Reqs /\ HoldingNow'[r] \subseteq Reqs
      BY <2>1, <2>2
    <2> QED
      BY <2>3, <2>4, <2>5
  <1>4. /\ RenamingNow'[r] = (RenamingNow[r] \ {q})
               \union (IF Role(q)' = "renames" /\ req'[q].repo = r THEN {q} ELSE {})
        /\ (Role(q)' = "renames" /\ req'[q].repo = r <=> q \in RenamingNow[r])
             => RenamingNow'[r] = RenamingNow[r]
    <2>1. RenamingNow[r] = {p \in Reqs : Role(p) = "renames" /\ req[p].repo = r}
      BY DEF RoleView
    <2>2. RenamingNow'[r] = {p \in Reqs : Role(p)' = "renames" /\ req'[p].repo = r}
      BY DEF RoleView
    <2>3. \A p \in Reqs \ {q} : p \in RenamingNow'[r] <=> p \in RenamingNow[r]
      BY <1>1, <2>1, <2>2
    <2>4. q \in RenamingNow'[r] <=> Role(q)' = "renames" /\ req'[q].repo = r
      BY <2>2
    <2>5. RenamingNow[r] \subseteq Reqs /\ RenamingNow'[r] \subseteq Reqs
      BY <2>1, <2>2
    <2> QED
      BY <2>3, <2>4, <2>5
  <1> QED
    BY <1>2, <1>3, <1>4

\* A request with a role is in the set of that role only, and a holder or a renamer
\* is the only one of its repository.
LEMMA RolePlace ==
    ASSUME RoleView, NEW q \in Reqs
    PROVE  /\ Role(q) # "none" => req[q].repo \in Repos
           /\ \A r \in Repos : /\ q \in ReadingNow[r] <=> Role(q) = "reads" /\ req[q].repo = r
                               /\ q \in HoldingNow[r] <=> Role(q) = "holds" /\ req[q].repo = r
                               /\ q \in RenamingNow[r] <=> Role(q) = "renames" /\ req[q].repo = r
           /\ Role(q) = "reads" => HoldingNow[req[q].repo] = {}
           /\ Role(q) = "holds" => HoldingNow[req[q].repo] = {q} /\ ReadingNow[req[q].repo] = {}
           /\ Role(q) = "renames" => RenamingNow[req[q].repo] = {q}
  <1>1. /\ Role(q) # "none" => req[q].repo \in Repos
        /\ \A r \in Repos : /\ q \in ReadingNow[r] <=> Role(q) = "reads" /\ req[q].repo = r
                            /\ q \in HoldingNow[r] <=> Role(q) = "holds" /\ req[q].repo = r
                            /\ q \in RenamingNow[r] <=> Role(q) = "renames" /\ req[q].repo = r
    BY DEF RoleView
  <1>2. Role(q) = "reads" => HoldingNow[req[q].repo] = {}
    BY DEF RoleView
  <1>3. Role(q) = "holds" => HoldingNow[req[q].repo] = {q} /\ ReadingNow[req[q].repo] = {}
    BY DEF RoleView
  <1>4. Role(q) = "renames" => RenamingNow[req[q].repo] = {q}
    BY DEF RoleView
  <1> QED
    BY <1>1, <1>2, <1>3, <1>4

\* Changing one role is a step of RepoAccess, or none.
LEMMA RoleStep ==
    ASSUME LockerInv, LockerInv', NEW q \in Reqs, OneRoleChanges(q)
    PROVE  [Access!ANext]_(Access!avars)
  <1>1. RoleView
    BY RoleFacts
  <1>2. RoleView'
    BY RoleFacts, PTL
  <1>3. /\ Role(q) \in {"none", "reads", "holds", "renames"}
        /\ Role(q)' \in {"none", "reads", "holds", "renames"}
    BY DEF Role
  <1>4. /\ ReadingNow = [r \in Repos |-> ReadingNow[r]]
        /\ HoldingNow = [r \in Repos |-> HoldingNow[r]]
        /\ RenamingNow = [r \in Repos |-> RenamingNow[r]]
        /\ ReadingNow' = [r \in Repos |-> ReadingNow'[r]]
        /\ HoldingNow' = [r \in Repos |-> HoldingNow'[r]]
        /\ RenamingNow' = [r \in Repos |-> RenamingNow'[r]]
    BY DEF ReadingNow, HoldingNow, RenamingNow
  <1>5. /\ Role(q) # "none" => req[q].repo \in Repos
        /\ \A r \in Repos : /\ q \in ReadingNow[r] <=> Role(q) = "reads" /\ req[q].repo = r
                            /\ q \in HoldingNow[r] <=> Role(q) = "holds" /\ req[q].repo = r
                            /\ q \in RenamingNow[r] <=> Role(q) = "renames" /\ req[q].repo = r
        /\ Role(q) = "holds" => HoldingNow[req[q].repo] = {q}
        /\ Role(q) = "renames" => RenamingNow[req[q].repo] = {q}
    BY <1>1, RolePlace
  <1>6. /\ Role(q)' # "none" => req'[q].repo \in Repos
        /\ Role(q)' = "reads" => HoldingNow'[req'[q].repo] = {}
        /\ Role(q)' = "holds" => HoldingNow'[req'[q].repo] = {q} /\ ReadingNow'[req'[q].repo] = {}
        /\ Role(q)' = "renames" => RenamingNow'[req'[q].repo] = {q}
    <2>1. Role(q)' # "none" => req'[q].repo \in Repos
      BY <1>2 DEF RoleView
    <2>2. Role(q)' = "reads" => HoldingNow'[req'[q].repo] = {}
      BY <1>2 DEF RoleView
    <2>3. Role(q)' = "holds" => HoldingNow'[req'[q].repo] = {q} /\ ReadingNow'[req'[q].repo] = {}
      BY <1>2 DEF RoleView
    <2>4. Role(q)' = "renames" => RenamingNow'[req'[q].repo] = {q}
      BY <1>2 DEF RoleView
    <2> QED
      BY <2>1, <2>2, <2>3, <2>4
  <1>7. \A r \in Repos :
            /\ ReadingNow'[r] = (ReadingNow[r] \ {q})
                   \union (IF Role(q)' = "reads" /\ req'[q].repo = r THEN {q} ELSE {})
            /\ (Role(q)' = "reads" /\ req'[q].repo = r <=> q \in ReadingNow[r])
                 => ReadingNow'[r] = ReadingNow[r]
            /\ HoldingNow'[r] = (HoldingNow[r] \ {q})
                   \union (IF Role(q)' = "holds" /\ req'[q].repo = r THEN {q} ELSE {})
            /\ (Role(q)' = "holds" /\ req'[q].repo = r <=> q \in HoldingNow[r])
                 => HoldingNow'[r] = HoldingNow[r]
            /\ RenamingNow'[r] = (RenamingNow[r] \ {q})
                   \union (IF Role(q)' = "renames" /\ req'[q].repo = r THEN {q} ELSE {})
            /\ (Role(q)' = "renames" /\ req'[q].repo = r <=> q \in RenamingNow[r])
                 => RenamingNow'[r] = RenamingNow[r]
    BY <1>1, <1>2, RoleMoves
  <1>8. \A r \in Repos :
            /\ Role(q) # "reads" /\ Role(q)' # "reads" => ReadingNow'[r] = ReadingNow[r]
            /\ Role(q) # "holds" /\ Role(q)' # "holds" => HoldingNow'[r] = HoldingNow[r]
            /\ Role(q) # "renames" /\ Role(q)' # "renames" => RenamingNow'[r] = RenamingNow[r]
    BY <1>5, <1>7
  <1>9. CASE Role(q)' = Role(q) /\ (Role(q) # "none" => req'[q].repo = req[q].repo)
    <2>1. \A r \in Repos : /\ ReadingNow'[r] = ReadingNow[r]
                           /\ HoldingNow'[r] = HoldingNow[r]
                           /\ RenamingNow'[r] = RenamingNow[r]
      BY <1>3, <1>5, <1>7, <1>9
    <2> QED
      BY <1>4, <2>1 DEF Access!avars
  <1>10. CASE Role(q) = "none" /\ Role(q)' = "reads"
    <2> DEFINE r == req'[q].repo
    <2>1. r \in Repos /\ q \notin ReadingNow[r] /\ ReadingNow'[r] = ReadingNow[r] \union {q}
      BY <1>5, <1>6, <1>7, <1>10
    <2>2. \A s \in Repos : s # r => ReadingNow'[s] = ReadingNow[s]
      BY <1>5, <1>7, <1>10
    <2>3. HoldingNow' = HoldingNow /\ RenamingNow' = RenamingNow /\ HoldingNow[r] = {}
      BY <1>4, <1>6, <1>8, <1>10, <2>1
    <2> HIDE DEF r
    <2> QED
      BY <1>4, <2>1, <2>2, <2>3 DEF Access!ANext, Access!StartRead
  <1>11. CASE Role(q) = "none" /\ Role(q)' = "holds"
    <2> DEFINE r == req'[q].repo
    <2>1. r \in Repos /\ q \notin HoldingNow[r] /\ HoldingNow[r] = {} /\ HoldingNow'[r] = {q}
      BY <1>5, <1>6, <1>7, <1>11
    <2>2. \A s \in Repos : s # r => HoldingNow'[s] = HoldingNow[s]
      BY <1>5, <1>7, <1>11
    <2>3. ReadingNow' = ReadingNow /\ RenamingNow' = RenamingNow /\ ReadingNow[r] = {}
      BY <1>4, <1>6, <1>8, <1>11, <2>1
    <2> HIDE DEF r
    <2> QED
      BY <1>4, <2>1, <2>2, <2>3 DEF Access!ANext, Access!Hold
  <1>12. CASE Role(q) = "reads" /\ Role(q)' = "none"
    <2> DEFINE r == req[q].repo
    <2>1. r \in Repos /\ q \in ReadingNow[r] /\ ReadingNow'[r] = ReadingNow[r] \ {q}
      BY <1>5, <1>7, <1>12
    <2>2. \A s \in Repos : s # r => ReadingNow'[s] = ReadingNow[s]
      BY <1>5, <1>7, <1>12
    <2>3. HoldingNow' = HoldingNow /\ RenamingNow' = RenamingNow
      BY <1>4, <1>8, <1>12
    <2> HIDE DEF r
    <2> QED
      BY <1>4, <2>1, <2>2, <2>3 DEF Access!ANext, Access!EndRead
  <1>13. CASE Role(q) = "holds" /\ Role(q)' = "none"
    <2> DEFINE r == req[q].repo
    <2>1. r \in Repos /\ HoldingNow[r] = {q} /\ HoldingNow'[r] = {}
      BY <1>5, <1>7, <1>13
    <2>2. \A s \in Repos : s # r => HoldingNow'[s] = HoldingNow[s]
      BY <1>5, <1>7, <1>13
    <2>3. ReadingNow' = ReadingNow /\ RenamingNow' = RenamingNow
      BY <1>4, <1>8, <1>13
    <2> HIDE DEF r
    <2> QED
      BY <1>4, <2>1, <2>2, <2>3 DEF Access!ANext, Access!Release
  <1>14. CASE Role(q) = "renames" /\ Role(q)' = "none"
    <2> DEFINE r == req[q].repo
    <2>1. r \in Repos /\ RenamingNow[r] = {q} /\ RenamingNow'[r] = {}
      BY <1>5, <1>7, <1>14
    <2>2. \A s \in Repos : s # r => RenamingNow'[s] = RenamingNow[s]
      BY <1>5, <1>7, <1>14
    <2>3. ReadingNow' = ReadingNow /\ HoldingNow' = HoldingNow
      BY <1>4, <1>8, <1>14
    <2> HIDE DEF r
    <2> QED
      BY <1>4, <2>1, <2>2, <2>3 DEF Access!ANext, Access!EndRename
  <1>15. CASE Role(q) = "holds" /\ Role(q)' = "renames" /\ req'[q].repo = req[q].repo
    <2> DEFINE r == req[q].repo
    <2>1. r \in Repos /\ HoldingNow[r] = {q} /\ HoldingNow'[r] = {}
      BY <1>5, <1>7, <1>15
    <2>2. q \notin RenamingNow[r] /\ RenamingNow'[r] = {q} /\ RenamingNow[r] = {}
      BY <1>5, <1>6, <1>7, <1>15, <2>1
    <2>3. \A s \in Repos : s # r => HoldingNow'[s] = HoldingNow[s] /\ RenamingNow'[s] = RenamingNow[s]
      BY <1>5, <1>7, <1>15
    <2>4. ReadingNow' = ReadingNow
      BY <1>4, <1>8, <1>15
    <2> HIDE DEF r
    <2> QED
      BY <1>4, <2>1, <2>2, <2>3, <2>4 DEF Access!ANext, Access!StartRename
  <1> QED
    BY <1>3, <1>9, <1>10, <1>11, <1>12, <1>13, <1>14, <1>15 DEF OneRoleChanges

\* Every step of Locker is a step of RepoAccess or leaves it as it is.
LEMMA AccessStep == LockerInv /\ LockerInv' /\ [Next]_vars => [Access!ANext]_(Access!avars)
  <1> SUFFICES ASSUME LockerInv, LockerInv', [Next]_vars PROVE [Access!ANext]_(Access!avars)
    OBVIOUS
  <1> USE RequestTypes, HandleFacts, RequestFacts
      DEF LockerInv, TypeOK, OwnPlaces, Goto, End, Queue, Ended, Sync, Running, Renaming, Role,
          OneRoleChanges
  <1>1. ASSUME NEW q \in Reqs, Arrive(q) PROVE OneRoleChanges(q)
    BY <1>1 DEF Arrive
  <1>2. ASSUME NEW q \in Reqs, SelectKey(q) PROVE OneRoleChanges(q)
    BY <1>2 DEF SelectKey
  <1>3. ASSUME NEW q \in Reqs, Lookup(q) PROVE OneRoleChanges(q)
    BY <1>3 DEF Lookup
  <1>4. ASSUME NEW q \in Reqs, SelectRow(q) PROVE OneRoleChanges(q)
    BY <1>4 DEF SelectRow
  <1>5. ASSUME NEW q \in Reqs, OpenEnv(q) PROVE OneRoleChanges(q)
    BY <1>5 DEF OpenEnv, WithHandle, CanOpen
  <1>6. ASSUME NEW q \in Reqs, LoadKey(q) PROVE OneRoleChanges(q)
    BY <1>6 DEF LoadKey, WithHandle, Drop
  <1>7. ASSUME NEW q \in Reqs, Insert(q) PROVE OneRoleChanges(q)
    BY <1>7 DEF Insert, OuterFree
  <1>8. ASSUME NEW q \in Reqs, Reget(q) PROVE OneRoleChanges(q)
    BY <1>8 DEF Reget
  <1>9. ASSUME NEW q \in Reqs, EnterClosure(q) PROVE OneRoleChanges(q)
    BY <1>9 DEF EnterClosure, InnerFree
  <1>10. ASSUME NEW q \in Reqs, RunContents(q) PROVE OneRoleChanges(q)
    BY <1>10 DEF RunContents, ClosureDone
  <1>11. ASSUME NEW q \in Reqs, UpdateRow(q) PROVE OneRoleChanges(q)
    BY <1>11 DEF UpdateRow, ClosureDone
  <1>12. ASSUME NEW q \in Reqs, SetSig(q) PROVE OneRoleChanges(q)
    BY <1>12 DEF SetSig, ClosureDone
  <1>13. ASSUME NEW q \in Reqs, Evict(q) PROVE OneRoleChanges(q)
    BY <1>13 DEF Evict, OuterFree
  <1>14. ASSUME NEW q \in Reqs, Compact(q) PROVE OneRoleChanges(q)
    BY <1>14 DEF Compact, Drop
  <1>15. ASSUME NEW q \in Reqs, RenameOld(q) PROVE OneRoleChanges(q)
    <2>1. req[q].repo \in Repos /\ Relink(req[q].repo)
      BY <1>15 DEF RenameOld
    <2> QED
      BY <1>15, <2>1, RelinkFacts DEF RenameOld
  <1>16. ASSUME NEW q \in Reqs, RenameNew(q) PROVE OneRoleChanges(q)
    <2>1. req[q].repo \in Repos /\ Relink(req[q].repo)
      BY <1>16 DEF RenameNew
    <2> QED
      BY <1>16, <2>1, RelinkFacts DEF RenameNew
  <1>17. ASSUME NEW q \in Reqs, Take(q) PROVE OneRoleChanges(q)
    BY <1>17 DEF Take, OuterFree
  <1>18. ASSUME NEW q \in Reqs, DeleteRow(q) PROVE OneRoleChanges(q)
    BY <1>18 DEF DeleteRow
  <1>19. ASSUME NEW q \in Reqs, RemoveDir(q) PROVE OneRoleChanges(q)
    BY <1>19 DEF RemoveDir, Drop
  <1>20. ASSUME NEW q \in Reqs, Abort(q) PROVE OneRoleChanges(q)
    BY <1>20 DEF Abort, Drop
  <1>21. CASE \/ \E r \in Repos : ProducersEnd(r) \/ CreateRepo(r)
              \/ \E k \in Keys : CreateKey(k) \/ DeleteKey(k)
              \/ UNCHANGED vars
    BY <1>21 DEF ProducersEnd, CreateRepo, CreateKey, DeleteKey, vars, Access!avars,
       ReadingNow, HoldingNow, RenamingNow, Runners, Holders
  <1> HIDE DEF OneRoleChanges, LockerInv
  <1> QED
    BY <1>1, <1>2, <1>3, <1>4, <1>5, <1>6, <1>7, <1>8, <1>9, <1>10, <1>11, <1>12, <1>13, <1>14, <1>15, <1>16, <1>17, <1>18, <1>19, <1>20, <1>21, RoleStep DEF Next, Step

\* Locker implements RepoAccess.
THEOREM LockerImplementsRepoAccess == Spec => ImplementsAccess
  <1>1. Init => Access!AInit
    BY DEF Init, Access!AInit, ReadingNow, HoldingNow, RenamingNow, Runners, Holders, Running
  <1> QED
    BY <1>1, AccessStep, LockerInvariant, PTL DEF Spec, ImplementsAccess, Access!ASpec

\* A closure sees one signing key from its start to its end.
THEOREM KeyIsStable == Spec => KeyStableUnderClosures
  <1>1. LockerInv /\ [Next]_vars =>
          \A r \in Repos : \A q \in Runners(r) :
             cached'[r] # None /\ cached'[r].sig # cached[r].sig => Runners(r) = {q}
    <2> SUFFICES ASSUME LockerInv, [Next]_vars, NEW r \in Repos, NEW q \in Runners(r),
                        cached'[r] # None, cached'[r].sig # cached[r].sig
                 PROVE  Runners(r) = {q}
      OBVIOUS
    <2> USE DEF LockerInv
    <2>1. cached[r] \in Handle
      BY DEF InsideHasHandle, Runners, Running, Inside, TypeOK
    <2>2. PICK p \in Reqs : SetSig(p) /\ req[p].repo = r
      <3> USE DEF TypeOK, Runners, Running, InsideHasHandle, Inside
      <3>1. ASSUME NEW p \in Reqs, Insert(p) PROVE cached'[r] = cached[r]
        BY <3>1, <2>1 DEF Insert, HandleExact, OwnPlaces, Holders, OuterFree
      <3>2. ASSUME NEW p \in Reqs, Evict(p) \/ Take(p) PROVE FALSE
        BY <3>2 DEF Evict, Take, OuterFree
      <3>3. ASSUME NEW p \in Reqs, RenameOld(p) \/ RenameNew(p) PROVE cached'[r].sig = cached[r].sig
        BY <3>3, <2>1 DEF RenameOld, RenameNew, Relink, Handle
      <3>4. ASSUME NEW p \in Reqs, SetSig(p), req[p].repo # r PROVE cached'[r] = cached[r]
        BY <3>4 DEF SetSig
      <3> QED
        BY <3>1, <3>2, <3>3, <3>4 DEF Next, Step, vars, dbVars, Arrive, SelectKey, Lookup, SelectRow,
           OpenEnv, LoadKey, Reget, EnterClosure, RunContents, UpdateRow, Compact, DeleteRow,
           RemoveDir, Abort, ProducersEnd, CreateRepo, CreateKey, DeleteKey
    <2>3. p \in Runners(r) /\ req[p].op # "read"
      BY <2>2 DEF SetSig, Runners, Running, WriterAlone
    <2> QED
      BY <2>3 DEF WriterAlone
  <1> QED
    BY <1>1, LockerInvariant, PTL DEF Spec, KeyStableUnderClosures

-------------------------------------------------------------------------------
(* Nobody waits in vain.                                                    *)

Waits(q) == pc[q] \in OuterWait \union {"inner"}

\* The requests that wait for the same lock.
Line(q) == IF pc[q] = "inner" THEN InnerLine(req[q].repo) ELSE OuterLine

\* Who waits has others of its line before it, and those who are before them.
Lines ==
    \A q \in Reqs : Waits(q) =>
        /\ ahead[q] \subseteq Line(q) \ {q}
        /\ \A p \in ahead[q] : ahead[p] \subseteq ahead[q]

\* A request moves: it waits neither before nor after, or it leaves its line and joins
\* the back of another, or none.
Moves(q) ==
    \/ ~Waits(q) /\ pc'[q] \notin OuterWait \union {"inner"} /\ ahead' = ahead
    \/ Queue(q, OuterLine) /\ pc'[q] \in OuterWait
    \/ Queue(q, InnerLine(req'[q].repo)) /\ pc'[q] = "inner"
    \/ \E line : Queue(q, line) /\ pc'[q] \notin OuterWait \union {"inner"}

OthersStay(q) == \A p \in Reqs : p # q => pc'[p] = pc[p] /\ req'[p] = req[p]

\* The lines stay in order when a request moves.
LEMMA LinesKept ==
    ASSUME TypeOK, Lines, NEW q \in Reqs, Moves(q), OthersStay(q)
    PROVE Lines'
  <1>1. ahead \in [Reqs -> SUBSET Reqs]
    BY DEF TypeOK
  <1>2. \A p \in Reqs : p # q => (Waits(p)' <=> Waits(p))
    BY DEF OthersStay, Waits
  <1>3. \A p \in Reqs : p # q => Line(p) \ {q} \subseteq Line(p)'
    BY DEF OthersStay, Line, OuterLine, InnerLine
  <1>4. CASE ~Waits(q) /\ ~Waits(q)' /\ ahead' = ahead
    <2>1. \A p \in Reqs : Waits(p) => q \notin Line(p)
      BY <1>4 DEF Line, OuterLine, InnerLine, Waits
    <2> QED
      BY <1>2, <1>3, <1>4, <2>1 DEF Lines
  <1>5. ASSUME NEW line, Queue(q, line),
               Waits(q)' => /\ line \ {q} \subseteq Line(q)'
                            /\ \A x \in line \ {q} : x \in Reqs /\ Waits(x) /\ Line(x) \ {q} = line \ {q}
        PROVE Lines'
    <2>1. ahead' = [p \in Reqs |-> IF p = q THEN line \ {q} ELSE ahead[p] \ {q}]
      BY <1>5 DEF Queue
    <2>2. ASSUME NEW p \in Reqs, Waits(p)', p # q
          PROVE /\ ahead'[p] \subseteq Line(p)' \ {p}
                /\ \A x \in ahead'[p] : ahead'[x] \subseteq ahead'[p]
      <3>1. ahead'[p] = ahead[p] \ {q} /\ Waits(p)
        BY <1>2, <2>1, <2>2
      <3>2. ahead[p] \subseteq Line(p) \ {p} /\ ahead[p] \subseteq Reqs
        BY <1>1, <3>1 DEF Lines
      <3>3. ASSUME NEW x \in ahead'[p] PROVE ahead'[x] \subseteq ahead'[p]
        <4>1. x \in Reqs /\ x # q /\ x \in ahead[p]
          BY <3>1, <3>2
        <4>2. ahead'[x] = ahead[x] \ {q} /\ ahead[x] \subseteq ahead[p]
          BY <2>1, <3>1, <4>1 DEF Lines
        <4> QED
          BY <3>1, <4>2
      <3> QED
        BY <1>3, <2>2, <3>1, <3>2, <3>3
    <2>3. ASSUME Waits(q)'
          PROVE /\ ahead'[q] \subseteq Line(q)' \ {q}
                /\ \A x \in ahead'[q] : ahead'[x] \subseteq ahead'[q]
      <3>1. ahead'[q] = line \ {q}
        BY <2>1
      <3>2. ASSUME NEW x \in line \ {q} PROVE ahead'[x] \subseteq line \ {q}
        <4>1. x \in Reqs /\ Waits(x) /\ Line(x) \ {q} = line \ {q}
          BY <1>5, <2>3
        <4>2. ahead'[x] = ahead[x] \ {q} /\ ahead[x] \subseteq Line(x)
          BY <2>1, <4>1 DEF Lines
        <4> QED
          BY <4>1, <4>2
      <3> QED
        BY <1>5, <2>3, <3>1, <3>2
    <2> QED
      BY <2>2, <2>3 DEF Lines
  <1>6. CASE Queue(q, OuterLine) /\ pc'[q] \in OuterWait
    <2>1. OuterLine \ {q} \subseteq Line(q)'
      BY <1>6 DEF Line, OuterLine, OthersStay, OuterWait
    <2>2. \A x \in OuterLine : x \in Reqs /\ Waits(x) /\ Line(x) = OuterLine
      BY DEF OuterLine, Waits, Line, OuterWait
    <2> QED
      BY <1>5, <1>6, <2>1, <2>2
  <1>7. CASE Queue(q, InnerLine(req'[q].repo)) /\ pc'[q] = "inner"
    <2> DEFINE line == InnerLine(req'[q].repo)
    <2>1. line \ {q} \subseteq Line(q)'
      BY <1>7 DEF Line, InnerLine, OthersStay
    <2>2. \A x \in line : x \in Reqs /\ Waits(x) /\ Line(x) = line
      BY DEF InnerLine, Waits, Line
    <2>3. Queue(q, line)
      BY <1>7
    <2> HIDE DEF line
    <2> QED
      BY <1>5, <2>1, <2>2, <2>3
  <1>8. ASSUME NEW line, Queue(q, line), ~Waits(q)' PROVE Lines'
    BY <1>5, <1>8
  <1> QED
    BY <1>4, <1>6, <1>7, <1>8 DEF Moves, Waits

\* Every step of a request moves it, and no other.
LEMMA StepMoves ==
    ASSUME TypeOK, NEW q \in Reqs, Arrive(q) \/ Step(q) \/ Abort(q)
    PROVE Moves(q) /\ OthersStay(q)
  <1> USE DEF Goto, End, OthersStay, Moves, Waits, OuterWait, Ended, TypeOK, dbVars
  <1>1. CASE Arrive(q)
    BY <1>1 DEF Arrive
  <1>2. CASE SelectKey(q)
    BY <1>2 DEF SelectKey
  <1>3. CASE Lookup(q)
    BY <1>3 DEF Lookup
  <1>4. CASE SelectRow(q)
    BY <1>4 DEF SelectRow
  <1>5. CASE OpenEnv(q)
    BY <1>5 DEF OpenEnv, WithHandle
  <1>6. CASE LoadKey(q)
    BY <1>6 DEF LoadKey, WithHandle
  <1>7. CASE Insert(q)
    BY <1>7 DEF Insert
  <1>8. CASE Reget(q)
    BY <1>8 DEF Reget
  <1>9. CASE EnterClosure(q)
    BY <1>9 DEF EnterClosure
  <1>10. CASE RunContents(q)
    BY <1>10 DEF RunContents, ClosureDone
  <1>11. CASE UpdateRow(q)
    BY <1>11 DEF UpdateRow, ClosureDone
  <1>12. CASE SetSig(q)
    BY <1>12 DEF SetSig, ClosureDone
  <1>13. CASE Evict(q)
    BY <1>13 DEF Evict
  <1>14. CASE Compact(q) \/ RenameOld(q) \/ RenameNew(q)
    BY <1>14 DEF Compact, RenameOld, RenameNew
  <1>15. CASE Take(q)
    BY <1>15 DEF Take
  <1>16. CASE DeleteRow(q) \/ RemoveDir(q)
    BY <1>16 DEF DeleteRow, RemoveDir
  <1>17. CASE Abort(q)
    BY <1>17 DEF Abort
  <1> HIDE DEF Moves, OthersStay
  <1> QED
    BY <1>1, <1>2, <1>3, <1>4, <1>5, <1>6, <1>7, <1>8, <1>9, <1>10, <1>11, <1>12, <1>13, <1>14, <1>15,
       <1>16, <1>17 DEF Step

\* The lines are in order throughout.
LEMMA LinesInvariant == Spec => []Lines
  <1>1. Init => Lines
    BY DEF Init, Lines, Waits, OuterWait
  <1>2. LockerInv /\ Lines /\ [Next]_vars => Lines'
    <2> SUFFICES ASSUME LockerInv, Lines, [Next]_vars PROVE Lines'
      OBVIOUS
    <2>1. ASSUME NEW q \in Reqs, Arrive(q) \/ Step(q) \/ Abort(q) PROVE Lines'
      BY <2>1, StepMoves, LinesKept DEF LockerInv
    <2>2. ASSUME UNCHANGED <<pc, req, ahead>> PROVE Lines'
      BY <2>2 DEF Lines, Waits, Line, OuterLine, InnerLine
    <2>3. CASE UNCHANGED vars
      BY <2>2, <2>3 DEF vars
    <2>4. ASSUME NEW r \in Repos, ProducersEnd(r) \/ CreateRepo(r) PROVE Lines'
      BY <2>2, <2>4 DEF ProducersEnd, CreateRepo
    <2>5. ASSUME NEW k \in Keys, CreateKey(k) \/ DeleteKey(k) PROVE Lines'
      BY <2>2, <2>5 DEF CreateKey, DeleteKey
    <2> QED
      BY <2>1, <2>3, <2>4, <2>5 DEF Next
  <1> QED
    BY <1>1, <1>2, LockerInvariant, PTL DEF Spec

\* Every line has a first.
LEMMA LineHasFirst ==
    ASSUME IsFiniteSet(Reqs), TypeOK, Lines, NEW line \in SUBSET Reqs, line # {},
           \A q \in line : Waits(q) /\ Line(q) = line
    PROVE \E q \in line : Turn(q)
  <1> DEFINE before == {ahead[q] : q \in line}
  <1>1. before \subseteq FiniteSubsetsOf(Reqs) /\ before # {}
    <2>1. \A q \in line : ahead[q] \in SUBSET Reqs
      BY DEF TypeOK
    <2>2. \A q \in line : IsFiniteSet(ahead[q])
      BY <2>1, FS_Subset
    <2> QED
      BY <2>1, <2>2 DEF FiniteSubsetsOf
  <1>2. PICK least \in before : \A other \in before : <<other, least>> \notin StrictSubsetOrdering(Reqs)
    <2> HIDE DEF before
    <2> QED
      BY <1>1, FS_StrictSubsetOrderingWellFounded, WFMin
  <1>3. PICK q \in line : least = ahead[q]
    OBVIOUS
  <1>4. ASSUME NEW p \in ahead[q] PROVE FALSE
    <2>1. p \in line /\ p # q /\ ahead[p] \subseteq ahead[q] /\ ahead[p] \in SUBSET Reqs /\ ahead[q] \in SUBSET Reqs
      BY <1>4 DEF Lines, TypeOK
    <2>2. p \notin ahead[p]
      BY <2>1 DEF Lines
    <2>3. <<ahead[p], ahead[q]>> \in StrictSubsetOrdering(Reqs)
      BY <1>4, <2>1, <2>2 DEF StrictSubsetOrdering
    <2> QED
      BY <1>2, <1>3, <2>1, <2>3
  <1> QED
    BY <1>3, <1>4 DEF Turn

\* No number of requests ever all wait for each other, whatever they do and whichever
\* are dropped on the way.
THEOREM LocksNeverDeadlock == ASSUME IsFiniteSet(Reqs) PROVE Spec => []NoDeadlock
  <1>1. ASSUME LockerInv, Lines, NEW q \in Reqs, pc[q] \notin Ended, \A p \in Reqs : ~CanGoOn(p)
        PROVE FALSE
    <2>1. TypeOK /\ \A p \in Reqs : pc[p] \in OuterWait \union {"inner"} \union Ended
      BY <1>1 DEF CanGoOn, LockerInv
    <2>2. \A r : Runners(r) = {}
      BY <2>1 DEF Runners, Running, OuterWait, Ended
    <2>3. \A p \in Reqs : pc[p] # "inner"
      <3> SUFFICES ASSUME NEW p \in Reqs, pc[p] = "inner" PROVE FALSE
        OBVIOUS
      <3> DEFINE line == InnerLine(req[p].repo)
      <3>1. line \in SUBSET Reqs /\ p \in line /\ \A x \in line : Waits(x) /\ Line(x) = line /\ pc[x] = "inner"
        BY DEF InnerLine, Waits, Line
      <3> HIDE DEF line
      <3>2. PICK x \in line : Turn(x)
        BY <1>1, <2>1, <3>1, LineHasFirst
      <3>3. InnerFree(x)
        BY <2>2 DEF InnerFree
      <3> QED
        BY <1>1, <3>1, <3>2, <3>3 DEF CanGoOn
    <2>4. OuterFree
      BY <2>1, <2>3 DEF OuterFree, Inside, OuterWait, Ended
    <2>5. /\ OuterLine \in SUBSET Reqs /\ q \in OuterLine
          /\ \A x \in OuterLine : Waits(x) /\ Line(x) = OuterLine /\ pc[x] \in OuterWait
      BY <1>1, <2>1, <2>3 DEF OuterLine, Waits, Line
    <2>6. PICK x \in OuterLine : Turn(x)
      BY <1>1, <2>1, <2>5, LineHasFirst
    <2> QED
      BY <1>1, <2>4, <2>5, <2>6 DEF CanGoOn, OuterWait
  <1>2. LockerInv /\ Lines => NoDeadlock
    BY <1>1 DEF NoDeadlock
  <1> QED
    BY <1>2, LockerInvariant, LinesInvariant, PTL
===============================================================================
