------------------------------- MODULE Transfer -------------------------------
(***************************************************************************)
(* One `satm repo upload` (crates/satm/api_client.rs) from the local rpms to   *)
(* the remote store, with the two handlers that serve it (sign_headers and     *)
(* upload_pkgs, src/api/repos.rs) and the writer the files go through          *)
(* (Multipart).  satm has the headers signed and rewrites its rpms, then       *)
(* streams them one after the other, hashing what it reads, each followed by   *)
(* a part with its checksum.  The server copies every chunk to the store and   *)
(* to a temporary file, which hashes what it takes (Mochi), and compares.      *)
(*                                                                         *)
(* A byte is its position; a hash is the number of bytes that were hashed and  *)
(* whether one of them was changed on the way.  The connection delivers in     *)
(* order or breaks; what is between may change a byte.  One attempt at a time: *)
(* requests that overlap are in Upload.                                        *)
(***************************************************************************)
EXTENDS Multipart

CONSTANTS Files,  \* number of rpms in the upload
          Reads,  \* sizes of what satm reads of a file at once
          Window, \* bound: parts of the request that are on the way
          Keys,   \* signing keys
          None    \* no key

ASSUME TransferAssumption ==
    /\ Files \in Nat \ {0} /\ Window \in Nat \ {0}
    /\ Reads \subseteq Nat \ {0}
    /\ None \notin Keys

VARIABLES
    key,      \* the repository's signing key
    mgr,      \* the key the server took for this attempt's signatures
    sig,      \* the key that each local rpm was signed with last
    client,   \* what satm is at
    at,       \* the rpm it works on
    read,     \* bytes of it that it has read and hashed
    wire,     \* pieces of the request's body on their way
    up,       \* does the connection stand?
    server,   \* what the upload's handler is at
    left,     \* bytes of the current chunk the temporary file has yet to take
    mochi,    \* the temporary file's size, and what its hash has seen
    spoilt,   \* history: was a byte of the current file changed on the way?
    received  \* what the server holds of each rpm it accepted

clientVars == <<sig, client, at, read>>
serverVars == <<server, left, mochi, spoilt, received>>
tvars == <<vars, key, mgr, clientVars, wire, up, serverVars>>

Piecemeal == [is : {"file", "end", "close"}]
             \union [is : {"data"}, n : Nat, bad : BOOLEAN]
             \union [is : {"digest"}, n : Nat]
Copy == [sent : Nat, published : Nat \union {-1, Old}, temp : Nat, spoilt : BOOLEAN]

Typing ==
    /\ TypeOK
    /\ key \in Keys \union {None} /\ mgr \in Keys \union {None}
    /\ sig \in [1 .. Files -> Keys \union {None}]
    /\ client \in {"sign", "post", "apply", "form", "head", "send", "digest", "close", "wait",
                   "ok", "failed"}
    /\ at \in 1 .. Files /\ read \in Nat
    /\ wire \in Seq(Piecemeal) /\ Len(wire) <= Window
    /\ up \in BOOLEAN
    /\ server \in {"off", "next", "copy", "shut", "check", "index", "ok", "refused", "error"}
    /\ left \in Nat /\ mochi \in [size : Nat, hash : Nat] /\ spoilt \in BOOLEAN
    /\ received \in Seq(Copy) /\ Len(received) <= Files
    /\ server \in {"copy", "shut"} \/ user \in {"writing", "ok", "failed"}

TransferInit ==
    /\ Init
    /\ key \in Keys \union {None} /\ mgr = None
    /\ sig = [i \in 1 .. Files |-> None]
    /\ client = "sign" /\ at = 1 /\ read = 0
    /\ wire = <<>> /\ up = TRUE
    /\ server = "off" /\ left = 0 /\ mochi = [size |-> 0, hash |-> 0] /\ spoilt = FALSE
    /\ received = <<>>

-------------------------------------------------------------------------------
(* Signing.                                                                *)

\* set_key and del_key.  Once the signatures are there nobody reads the key.
ChangeKey ==
    /\ client \in {"sign", "post", "apply"}
    /\ key' \in (Keys \union {None}) \ {key}
    /\ UNCHANGED <<vars, mgr, clientVars, wire, up, serverVars>>

\* sign_header posts the headers of all rpms.
PostHeaders ==
    /\ client = "sign"
    /\ client' = "post"
    /\ UNCHANGED <<vars, key, mgr, sig, at, read, wire, up, serverVars>>

\* sign_headers clones the signing manager in a read closure and signs every
\* header with it.  Without one it answers 204, and satm goes on unsigned.
SignHeaders ==
    /\ client = "post"
    /\ mgr' = key
    /\ client' = IF key = None THEN "form" ELSE "apply"
    /\ UNCHANGED <<vars, key, sig, at, read, wire, up, serverVars>>

\* (Wrong variant: every rpm is signed with the key of the moment.)
CurrentSignature == key

\* Mgr::sign_rpm: the answer has a signature for each header, in the order of the
\* request.
Signature == mgr

\* sign_header writes the signature into the next local rpm.
ApplySignature ==
    /\ client = "apply"
    /\ sig' = [sig EXCEPT ![at] = Signature]
    /\ IF at < Files THEN at' = at + 1 /\ UNCHANGED client
                     ELSE at' = 1 /\ client' = "form"
    /\ UNCHANGED <<vars, key, mgr, read, wire, up, serverVars>>

\* satm is over; what it knew is gone unless it was a success.
Exit(how) ==
    /\ client' = how
    /\ at' = 1 /\ read' = 0
    /\ mgr' = IF how = "ok" THEN mgr ELSE None

\* A header cannot be read or signed, an rpm cannot be rewritten, or satm is
\* killed.  The rpms before this one keep their new signatures.
SigningFails ==
    /\ client \in {"sign", "post", "apply", "form"}
    /\ Exit("failed")
    /\ UNCHANGED <<vars, key, sig, wire, up, serverVars>>

-------------------------------------------------------------------------------
(* satm sends.                                                             *)

\* MultipartUploadWriter::new.
NewWriter ==
    /\ mode' = "active" /\ taken' = 0 /\ buffer' = [from |-> 0, to |-> 0] /\ parts' = <<>>
    /\ object' = Old /\ user' = "writing"

Put(piece) == Len(wire) < Window /\ up /\ wire' = Append(wire, piece)

\* upload_pkgs opens the files and sends the request.
SendRequest ==
    /\ client = "form"
    /\ client' = "head"
    /\ server' = "next"
    /\ UNCHANGED <<vars, key, mgr, sig, at, read, wire, up, left, mochi, spoilt, received>>

StartFile ==
    /\ client = "head" /\ Put([is |-> "file"])
    /\ client' = "send"
    /\ UNCHANGED <<vars, key, mgr, sig, at, read, up, serverVars>>

\* hashing_progress_stream: what is read is hashed and sent.
ReadChunk(n) ==
    /\ client = "send" /\ Put([is |-> "data", n |-> n, bad |-> FALSE])
    /\ read + n <= MaxBytes
    /\ read' = read + n
    /\ UNCHANGED <<vars, key, mgr, sig, client, at, up, serverVars>>

\* An empty read: the hash goes to the stream of the checksum part.
EndOfFile ==
    /\ client = "send" /\ Put([is |-> "end"])
    /\ client' = "digest"
    /\ UNCHANGED <<vars, key, mgr, sig, at, read, up, serverVars>>

\* The checksum part, then the next file or the end of the form.
SendDigest ==
    /\ client = "digest" /\ Put([is |-> "digest", n |-> read])
    /\ IF at < Files THEN client' = "head" /\ at' = at + 1 /\ read' = 0
                     ELSE client' = "close" /\ UNCHANGED <<at, read>>
    /\ UNCHANGED <<vars, key, mgr, sig, up, serverVars>>

CloseForm ==
    /\ client = "close" /\ Put([is |-> "close"])
    /\ client' = "wait"
    /\ UNCHANGED <<vars, key, mgr, sig, at, read, up, serverVars>>

Sending == client \in {"head", "send", "digest", "close", "wait"}

\* The handler is over: its writer, its temporary directory and the rest of the
\* body are dropped.
HandlerEnds ==
    /\ server' = "off" /\ wire' = <<>>
    /\ left' = 0 /\ mochi' = [size |-> 0, hash |-> 0] /\ spoilt' = FALSE
    /\ received' = IF server = "ok" THEN received ELSE <<>>
    /\ NewWriter

\* The answer, which may come before the whole form is sent.
Answer ==
    /\ Sending /\ up
    /\ \/ server = "ok" /\ Exit("ok")
       \/ server \in {"refused", "error"} /\ Exit("failed")
    /\ HandlerEnds
    /\ UNCHANGED <<key, sig, up>>

\* A file cannot be read, satm is killed, or the connection breaks.
Break ==
    /\ Sending
    /\ up' = FALSE /\ Exit("failed")
    /\ UNCHANGED <<vars, key, sig, wire, serverVars>>

\* A byte is changed on the way.
Spoil(i) ==
    /\ i \in DOMAIN wire /\ wire[i].is = "data" /\ ~wire[i].bad
    /\ wire' = [wire EXCEPT ![i].bad = TRUE]
    /\ UNCHANGED <<vars, key, mgr, clientVars, up, serverVars>>

\* The user runs satm again, on the rpms as they are now.
Retry ==
    /\ client = "failed" /\ server = "off"
    /\ client' = "sign"
    /\ up' = TRUE /\ received' = <<>>
    /\ UNCHANGED <<vars, key, mgr, sig, at, read, wire, server, left, mochi, spoilt>>

-------------------------------------------------------------------------------
(* The server receives.                                                    *)

Arrives(what) == wire # <<>> /\ Head(wire).is = what

\* receive_rpm: a new writer to the store, and a new temporary file.
OpenWriter ==
    /\ server = "next" /\ Arrives("file")
    /\ wire' = Tail(wire)
    /\ NewWriter
    /\ mochi' = [size |-> 0, hash |-> 0] /\ spoilt' = FALSE /\ left' = 0
    /\ server' = "copy"
    /\ UNCHANGED <<key, mgr, clientVars, up, received>>

\* double_write: the next chunk for both writers; the store's takes it, ...
CopyChunk ==
    /\ server = "copy" /\ left = 0 /\ Arrives("data")
    /\ Write(Head(wire).n)
    /\ wire' = Tail(wire)
    /\ left' = Head(wire).n
    /\ spoilt' = (spoilt \/ Head(wire).bad)
    /\ UNCHANGED <<key, mgr, clientVars, up, server, mochi, received>>

\* (Wrong variant: the hash sees what is offered.)
HashedIfAll(n) == left

\* Mochi::poll_write hashes what the inner writer has taken.
Hashed(n) == n

\* ... the other one takes it in one or more writes.
TempTakes(n) ==
    /\ server = "copy" /\ n \in 1 .. left
    /\ mochi' = [size |-> mochi.size + n, hash |-> mochi.hash + Hashed(n)]
    /\ left' = left - n
    /\ UNCHANGED <<vars, key, mgr, clientVars, wire, up, server, spoilt, received>>

\* The field is over.  The copy may flush its writers first (srmw is external), ...
EndOfField ==
    /\ server = "copy" /\ left = 0 /\ Arrives("end")
    /\ wire' = Tail(wire) /\ server' = "shut"
    /\ StartFlush \/ UNCHANGED vars
    /\ UNCHANGED <<key, mgr, clientVars, up, left, mochi, spoilt, received>>

\* ... then the store's writer is shut down, ...
Shutdown ==
    /\ server = "shut"
    /\ StartShutdown
    /\ UNCHANGED <<key, mgr, clientVars, wire, up, serverVars>>

\* (Wrong variant: the store is not waited for.)
ShutDownUnwaited == user \in {"closing", "ok"}

\* ... then the temporary file's.
ShutDown == user = "ok"
CloseTemp ==
    /\ server = "shut" /\ ShutDown
    /\ server' = "check"
    /\ UNCHANGED <<vars, key, mgr, clientVars, wire, up, left, mochi, spoilt, received>>

\* (Wrong variant: the lengths are compared.)
SameLength == Head(wire).n = mochi.size
SameHash == Head(wire).n = mochi.hash /\ ~spoilt

\* check_csum.  By now the object is published either way.
CheckCsum ==
    /\ server = "check" /\ Arrives("digest")
    /\ wire' = Tail(wire)
    /\ IF SameHash
       THEN /\ received' = Append(received, [sent |-> Head(wire).n, published |-> Content,
                                             temp |-> mochi.size, spoilt |-> spoilt])
            /\ server' = "next"
       ELSE server' = "refused" /\ UNCHANGED received
    /\ UNCHANGED <<vars, key, mgr, clientVars, up, left, mochi, spoilt>>

\* The form is over; the write closure indexes what was received (Upload).
EndOfForm ==
    /\ server = "next" /\ Arrives("close")
    /\ wire' = Tail(wire) /\ server' = "index"
    /\ UNCHANGED <<vars, key, mgr, clientVars, up, left, mochi, spoilt, received>>
Indexed ==
    /\ server = "index"
    /\ server' = "ok"
    /\ UNCHANGED <<vars, key, mgr, clientVars, wire, up, left, mochi, spoilt, received>>

\* (Wrong variant: only while copying.)
StoreFailedInCopy ==
    /\ server = "copy" /\ user = "failed"
    /\ server' = "error"
    /\ UNCHANGED <<vars, key, mgr, clientVars, wire, up, left, mochi, spoilt, received>>

\* An error is returned: the store's writer has failed, ...
StoreFailed ==
    /\ server \in {"copy", "shut"} /\ user = "failed"
    /\ server' = "error"
    /\ UNCHANGED <<vars, key, mgr, clientVars, wire, up, left, mochi, spoilt, received>>

GiveUp ==
    /\ server' = "error"
    /\ IF server \in {"copy", "shut"} /\ user \notin {"ok", "failed"} THEN Dropped ELSE UNCHANGED vars
    /\ UNCHANGED <<key, mgr, clientVars, wire, up, left, mochi, spoilt, received>>

\* ... the body ends early, ...
SourceFailed ==
    /\ server \in {"next", "copy", "check"} /\ ~up /\ wire = <<>>
    /\ GiveUp

\* ... or something else goes wrong, or the future is dropped.
ServerFails == server \in {"next", "copy", "shut", "check", "index"} /\ GiveUp

\* Nobody is there to hear the answer.
Unheard ==
    /\ server \in {"ok", "refused", "error"} /\ ~up
    /\ HandlerEnds
    /\ UNCHANGED <<key, mgr, clientVars, up>>

-------------------------------------------------------------------------------
ClientStep ==
    \/ PostHeaders \/ SignHeaders \/ ApplySignature \/ SendRequest
    \/ StartFile \/ (\E n \in Reads : ReadChunk(n)) \/ EndOfFile \/ SendDigest \/ CloseForm
    \/ Answer

ServerStep ==
    \/ OpenWriter \/ CopyChunk \/ (\E n \in {1, left} : TempTakes(n)) \/ EndOfField
    \/ Shutdown \/ CloseTemp \/ CheckCsum \/ EndOfForm \/ Indexed
    \/ StoreFailed \/ SourceFailed \/ Unheard

StoreStep == Progress /\ UNCHANGED <<key, mgr, clientVars, wire, up, serverVars>>

TransferNext ==
    \/ ClientStep \/ ServerStep \/ StoreStep
    \/ ChangeKey \/ SigningFails \/ Break \/ Retry \/ ServerFails
    \/ \E i \in 1 .. Window : Spoil(i)

TransferSpec ==
    /\ TransferInit /\ [][TransferNext]_tvars
    \* Both programs run, the requests to the store end (they have timeouts), and
    \* a broken connection is noticed.
    /\ WF_tvars(ClientStep) /\ WF_tvars(ServerStep) /\ WF_tvars(StoreStep)

-------------------------------------------------------------------------------
(* Properties.                                                             *)

\* If satm reports success, the store shows and the server indexed, for every
\* rpm, the bytes that satm read, unchanged and in full.
AcknowledgedIsIntact ==
    client = "ok" =>
        /\ Len(received) = Files
        /\ \A i \in DOMAIN received :
            LET c == received[i] IN c.published = c.sent /\ c.temp = c.sent /\ ~c.spoilt

\* An rpm is refused for its checksum only if a byte was changed on the way: the
\* hashes of both sides are of the same bytes however these are cut into reads,
\* chunks and writes.
RefusedForCause == server = "refused" => spoilt

\* Whenever the repository's key changes, and whatever earlier attempts left: the
\* rpms of an acknowledged upload are all signed with the one key that the
\* repository had when they were signed, if it had one.
SignedByOneKey == client = "ok" /\ mgr # None => \A i \in 1 .. Files : sig[i] = mgr

\* An upload ends, well or badly, and so does its handler: neither the order of
\* the parts, nor a full connection, nor the store's writer makes one side wait
\* for the other for ever.
TransferEnds ==
    /\ client \notin {"ok", "failed"} ~> client \in {"ok", "failed"}
    /\ server # "off" ~> server = "off"
===============================================================================
