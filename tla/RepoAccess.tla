------------------------------ MODULE RepoAccess ------------------------------
(***************************************************************************)
(* What the server's `Locker` (src/repohdl.rs) promises to the handlers     *)
(* that call it: at any moment a repository is either idle, read by any     *)
(* number of requests, or in the hands of exactly one request.  "In the     *)
(* hands" covers a write closure as well as opening, deleting and           *)
(* compacting the repository, the last only until its environment is        *)
(* closed.  The renames of the data file that end a compaction are one      *)
(* request's at a time, and the one's that closed; but nobody is kept away  *)
(* from them: requests may read, open and write the repository meanwhile.   *)
(***************************************************************************)
CONSTANTS Reqs,   \* requests being served
          Repos   \* repository names

VARIABLES reading,  \* repository -> requests running a read closure on it
          holding,  \* repository -> requests that have it to themselves
          renaming  \* repository -> requests that exchange its data file

avars == <<reading, holding, renaming>>

AInit ==
    /\ reading = [r \in Repos |-> {}]
    /\ holding = [r \in Repos |-> {}]
    /\ renaming = [r \in Repos |-> {}]

StartRead(q, r) ==
    /\ holding[r] = {}
    /\ q \notin reading[r]
    /\ reading' = [reading EXCEPT ![r] = @ \union {q}]
    /\ UNCHANGED <<holding, renaming>>

EndRead(q, r) ==
    /\ q \in reading[r]
    /\ reading' = [reading EXCEPT ![r] = @ \ {q}]
    /\ UNCHANGED <<holding, renaming>>

Hold(q, r) ==
    /\ reading[r] = {}
    /\ holding[r] = {}
    /\ holding' = [holding EXCEPT ![r] = {q}]
    /\ UNCHANGED <<reading, renaming>>

Release(q, r) ==
    /\ holding[r] = {q}
    /\ holding' = [holding EXCEPT ![r] = {}]
    /\ UNCHANGED <<reading, renaming>>

\* The compactor closes the environment and goes on to the renames.
StartRename(q, r) ==
    /\ holding[r] = {q}
    /\ renaming[r] = {}
    /\ holding' = [holding EXCEPT ![r] = {}]
    /\ renaming' = [renaming EXCEPT ![r] = {q}]
    /\ UNCHANGED reading

EndRename(q, r) ==
    /\ renaming[r] = {q}
    /\ renaming' = [renaming EXCEPT ![r] = {}]
    /\ UNCHANGED <<reading, holding>>

ANext ==
    \E q \in Reqs, r \in Repos :
        \/ StartRead(q, r) \/ EndRead(q, r) \/ Hold(q, r) \/ Release(q, r)
        \/ StartRename(q, r) \/ EndRename(q, r)

ASpec == AInit /\ [][ANext]_avars
===============================================================================
