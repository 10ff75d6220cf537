------------------------------- MODULE AtomicPut ------------------------------
(***************************************************************************)
(* What a writer to the remote store (crates/kuchiyose/store.rs) promises to  *)
(* whoever reads the link it writes to: the link shows what it showed before, *)
(* or every byte that was written; never a part of them.  If the writer's     *)
(* user is told that the upload is complete, it shows every byte.            *)
(***************************************************************************)
EXTENDS Naturals

CONSTANT Old \* what was stored before, not a number

VARIABLES
    taken,   \* number of bytes that the writer has accepted
    told,    \* what its user knows: "open", "ok" or "failed"
    content  \* what the link shows: Old, or so many of the bytes

putVars == <<taken, told, content>>

PutInit == taken = 0 /\ told = "open" /\ content = Old

Accept ==
    /\ told = "open"
    /\ taken' > taken
    /\ UNCHANGED <<told, content>>

Succeed == told = "open" /\ told' = "ok" /\ content' = taken /\ UNCHANGED taken

\* The store may have done its work although the answer was an error.
GiveUp ==
    /\ told = "open"
    /\ told' = "failed"
    /\ content' \in {content, taken}
    /\ UNCHANGED taken

\* A user that is done with one file opens a writer to the next.
Reopen == told # "open" /\ taken' = 0 /\ told' = "open" /\ content' = Old

PutSpec == PutInit /\ [][Accept \/ Succeed \/ GiveUp \/ Reopen]_putVars
===============================================================================
