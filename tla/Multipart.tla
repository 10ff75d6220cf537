------------------------------- MODULE Multipart ------------------------------
(***************************************************************************)
(* MultipartUploadWriter (crates/kuchiyose/store.rs): the writer through      *)
(* which files reach a remote store.  It gathers bytes in a buffer of one     *)
(* part, hands full parts to the store without waiting for them, and on       *)
(* shutdown waits for all parts, sends the rest and completes the upload.     *)
(*                                                                         *)
(* Bytes are numbered in the order in which the user writes them; the buffer  *)
(* and each part hold the bytes from `from` (included) up to `to` (excluded). *)
(* The store is external: a part it was sent ends well or badly at any time,  *)
(* and completing the upload puts the parts together in the order in which    *)
(* they were sent.                                                          *)
(***************************************************************************)
EXTENDS Integers, Sequences

CONSTANTS Cap,      \* size of a part (min_part_size)
          MaxBytes, \* bound: bytes written to one writer
          Old       \* what the link showed before

ASSUME MultipartAssumption == Cap \in Nat \ {0} /\ MaxBytes \in Nat

VARIABLES
    mode,   \* the writer: Active, Completing or Done
    taken,  \* number of bytes accepted from the user
    buffer, \* the bytes that are in no part yet
    parts,  \* the parts, in the order of the put_part calls
    object, \* what the link shows: Old or the parts of the completed upload
    user    \* the task that owns the writer

vars == <<mode, taken, buffer, parts, object, user>>

Piece == [from : Nat, to : Nat]
Part == [from : Nat, to : Nat, state : {"sent", "stored", "error"}]

ASSUME OldAssumption == Old \notin Nat /\ Old \notin Seq(Part)

TypeOK ==
    /\ mode \in {"active", "completing", "done"}
    /\ taken \in Nat
    /\ buffer \in Piece /\ buffer.to - buffer.from \in 0 .. (Cap - 1)
    /\ parts \in Seq(Part)
    /\ object \in {Old} \union Seq(Part)
    /\ user \in {"writing", "flushing", "closing", "ok", "failed"}

Init ==
    /\ mode = "active"
    /\ taken = 0
    /\ buffer = [from |-> 0, to |-> 0]
    /\ parts = <<>>
    /\ object = Old
    /\ user = "writing"

SomeError == \E i \in DOMAIN parts : parts[i].state = "error"
AllStored == \A i \in DOMAIN parts : parts[i].state = "stored"

Minimum(a, b) == IF a <= b THEN a ELSE b

Sent(p) == [from |-> p.from, to |-> p.to, state |-> "sent"]

-------------------------------------------------------------------------------
\* The store answers a put_part.
PartEnds(i) ==
    /\ i \in DOMAIN parts /\ parts[i].state = "sent"
    /\ user \notin {"ok", "failed"}
    /\ \E s \in {"stored", "error"} : parts' = [parts EXCEPT ![i].state = s]
    /\ UNCHANGED <<mode, taken, buffer, object, user>>

\* poll_write, of k bytes: so many go into the buffer, ...
\* (Wrong variant: all of them.)
TopUpAll(k) == k
TopUp(k) == Minimum(Cap - (buffer.to - buffer.from), k)

\* ... so many full chunks follow in the slice, ...
\* (Wrong variant: none of them is looked for.)
NoChunks(k) == 0
Chunks(k) == (k - TopUp(k)) \div Cap
Chunk(k, i) == [from |-> taken + TopUp(k) + (i - 1) * Cap, to |-> taken + TopUp(k) + i * Cap]

\* ... and this is left.
\* (Wrong variant: it is forgotten.)
ForgottenRest(k) == [from |-> taken + k, to |-> taken + k]
Rest(k) == [from |-> taken + TopUp(k) + Chunks(k) * Cap, to |-> taken + k]

\* poll_write: when the buffer is full, it is sent with every full chunk, and the
\* rest starts a new buffer.
Write(k) ==
    /\ user = "writing" /\ mode = "active" /\ ~SomeError
    /\ taken + k <= MaxBytes
    /\ taken' = taken + k
    /\ LET full == [buffer EXCEPT !.to = @ + TopUp(k)] IN
       IF full.to - full.from # Cap
       THEN buffer' = full /\ UNCHANGED parts
       ELSE /\ parts' = Append(parts, Sent(full)) \o [i \in 1 .. Chunks(k) |-> Sent(Chunk(k, i))]
            /\ buffer' = Rest(k)
    /\ UNCHANGED <<mode, object, user>>

\* poll_write and poll_flush return the error of a part; every user of the
\* writer then gives up.
PartFailed ==
    /\ user \in {"writing", "flushing", "closing"} /\ mode = "active" /\ SomeError
    /\ user' = "failed"
    /\ UNCHANGED <<mode, taken, buffer, parts, object>>

\* poll_flush waits for the parts that are under way, not for the buffer.
StartFlush ==
    /\ user = "writing"
    /\ user' = "flushing"
    /\ UNCHANGED <<mode, taken, buffer, parts, object>>
Flushed ==
    /\ user = "flushing" /\ AllStored
    /\ user' = "writing"
    /\ UNCHANGED <<mode, taken, buffer, parts, object>>

StartShutdown ==
    /\ user = "writing"
    /\ user' = "closing"
    /\ UNCHANGED <<mode, taken, buffer, parts, object>>

\* poll_shutdown of an active writer, once it has flushed: the rest is sent.
\* (Wrong variant: it is not.)
NoLastPart == <<>>
LastPart == IF buffer.to > buffer.from THEN <<Sent(buffer)>> ELSE <<>>
Finish ==
    /\ user = "closing" /\ mode = "active" /\ AllStored
    /\ parts' = parts \o LastPart
    /\ buffer' = [from |-> taken, to |-> taken]
    /\ mode' = "completing"
    /\ UNCHANGED <<taken, object, user>>

\* MultipartUploadWriter::complete: all parts, then the store's complete.
Complete ==
    /\ mode = "completing" /\ user = "closing" /\ AllStored
    /\ object' = parts
    /\ mode' = "done" /\ user' = "ok"
    /\ UNCHANGED <<taken, buffer, parts>>

\* A part or the store's complete fails; in the second case the upload may be
\* complete all the same.
\* (Wrong variant: a failed part is not noticed.)
FailureOfComplete == AllStored /\ object' \in {object, parts}
Failure == \/ SomeError /\ UNCHANGED object
           \/ AllStored /\ object' \in {object, parts}
CompleteFails ==
    /\ mode = "completing" /\ user = "closing"
    /\ Failure
    /\ user' = "failed"
    /\ UNCHANGED <<mode, taken, buffer, parts>>

\* The user fails elsewhere, or is cancelled, and drops the writer.  Nothing
\* aborts the upload.
Dropped ==
    /\ user \in {"writing", "flushing", "closing"}
    /\ user' = "failed"
    /\ UNCHANGED <<mode, taken, buffer, parts, object>>

Progress ==
    \/ \E i \in DOMAIN parts : PartEnds(i)
    \/ PartFailed \/ Flushed \/ Finish \/ Complete \/ CompleteFails

Next == Progress \/ StartFlush \/ StartShutdown \/ Dropped \/ \E k \in 0 .. MaxBytes : Write(k)
-------------------------------------------------------------------------------
(* Properties.                                                             *)

\* Contiguous(ps, end): the pieces follow one another, without a gap or an
\* overlap, from byte 0 to `end`.
Contiguous(ps, end) ==
    /\ \A i \in DOMAIN ps : ps[i].from = IF i = 1 THEN 0 ELSE ps[i - 1].to
    /\ end = IF ps = <<>> THEN 0 ELSE ps[Len(ps)].to

\* However the user cuts its bytes into writes, the parts and then the buffer
\* hold every byte once and in order.
BytesInOrder == Contiguous(Append(parts, buffer), taken)

\* "Most stores require that all parts excluding the last are at least 5 MiB, and
\* some further require that all parts excluding the last be the same size": all
\* but the last have the part size, and the last is neither empty nor larger.
PartSizes ==
    \A i \in DOMAIN parts :
        LET size == parts[i].to - parts[i].from
        IN size = Cap \/ (i = Len(parts) /\ mode # "active" /\ size \in 1 .. (Cap - 1))

\* The link shows what it showed before or every byte, and every byte if the
\* shutdown was a success.
Content == IF object = Old THEN Old ELSE IF Contiguous(object, taken) THEN taken ELSE -1
Told == IF user \in {"ok", "failed"} THEN user ELSE "open"
P == INSTANCE AtomicPut WITH told <- Told, content <- Content
ImplementsPut == P!PutSpec

\* A flush and a shutdown end, well or badly.
CloseEnds == user \in {"flushing", "closing"} ~> user \in {"writing", "ok", "failed"}
===============================================================================
