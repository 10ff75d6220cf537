-------------------------------- MODULE Publish -------------------------------
(***************************************************************************)
(* What the write closures of one repository publish: the files under       *)
(* `repodata/`, the `repomd.xml` that names them, its signature, and the      *)
(* database of custom datatypes (Repo::write_custom, del_custom, generate).  *)
(*                                                                         *)
(* Locker gives a write closure the repository to itself, so closures come   *)
(* one after the other; but every step is an await, at which the closure may *)
(* fail or be dropped and at which an HTTP client may download.             *)
(*                                                                         *)
(* A file is what its checksum and suffix make of it: `u` for an uploaded     *)
(* metadata file (content and suffix together), <<m, P>> for the XML that     *)
(* metan m generates from the packages P.  The temporary file a pipeline      *)
(* writes before the rename is not kept: no name in `repomd.xml` is one.     *)
(***************************************************************************)
CONSTANTS Metans,    \* "primary", "filelists", "other", "appstream"
          Types,     \* custom datatypes, e.g. "group"
          Uploads,   \* metadata files that clients may send
          Pkgs,      \* packages of the repository
          Sigs,      \* signing keys
          MayRepeat, \* may a client send a file that was already sent?
          None

Files == Uploads \union (Metans \X SUBSET Pkgs)
Listed == (Metans \X (Metans \X SUBSET Pkgs)) \union (Types \X Uploads)

\* The custom datatypes and uploaded files are not those of a metan.
ASSUME PublishAssumption ==
    /\ MayRepeat \in BOOLEAN
    /\ None \notin Uploads \union Sigs \union Types
    /\ Types \cap Metans = {}
    /\ Uploads \cap (Metans \X SUBSET Pkgs) = {}

VARIABLES
    pkgs,   \* packages in the cache
    cus,    \* custom datatype -> the file its database entry names
    sig,    \* the handle's signing key
    files,  \* files under repodata/
    repomd, \* entries of repomd.xml: <<type, file>>; none if absent or cut short
    signer, \* whose signature of this very repomd.xml is in repomd.xml.asc
    pc, type, upload, doomed, done, \* the running closure: where it is, its
            \* arguments, the file it has to delete, the metans it has written
    settled, \* the last operation succeeded and the key has not changed since
    sent     \* files already sent

closure == <<pc, type, upload, doomed, done>>
vars == <<pkgs, cus, sig, files, repomd, signer, closure, settled, sent>>

TypeOK ==
    /\ pkgs \subseteq Pkgs
    /\ cus \in [Types -> Uploads \union {None}]
    /\ sig \in Sigs \union {None} /\ signer \in Sigs \union {None}
    /\ files \subseteq Files
    /\ repomd \subseteq Listed
    /\ pc \in {"idle", "record", "drop", "generate", "repomd", "sign"}
    /\ type \in Types \union {None} /\ (type # None <=> pc = "record")
    /\ upload \in Uploads \union {None} /\ (upload # None <=> pc = "record")
    /\ doomed \in Uploads \union {None} /\ (doomed # None <=> pc = "drop")
    /\ done \subseteq Metans /\ (done # {} => pc \in {"generate", "repomd", "sign"})
    /\ settled \in BOOLEAN
    /\ sent \subseteq Uploads

Init ==
    /\ pkgs = {} /\ cus = [t \in Types |-> None] /\ sig = None
    /\ files = {} /\ repomd = {} /\ signer = None
    /\ pc = "idle" /\ type = None /\ upload = None /\ doomed = None /\ done = {}
    /\ settled = FALSE /\ sent = {}

-------------------------------------------------------------------------------
\* What generate lists: every metan's file, then the custom datatypes.
Entries == {<<m, <<m, pkgs>>>> : m \in Metans}
              \union {<<t, cus[t]>> : t \in {d \in Types : cus[d] # None}}

\* The closure goes on to delete file f, or straight to generate.
ThenDelete(f) ==
    /\ pc' = IF f = None THEN "generate" ELSE "drop"
    /\ doomed' = f
    /\ type' = None
    /\ upload' = None
    /\ UNCHANGED done

\* (Wrong variant: the closure leaves its progress behind.)
EndKeepingDone == pc' = "idle" /\ type' = None /\ upload' = None /\ doomed' = None /\ UNCHANGED done

\* The closure ends.
End == pc' = "idle" /\ type' = None /\ upload' = None /\ doomed' = None /\ done' = {}

-------------------------------------------------------------------------------
\* upl_md, push_comps: write_custom up to the rename onto the checksummed name.
StoreFile(t, u) ==
    /\ pc = "idle"
    /\ MayRepeat \/ u \notin sent
    /\ files' = files \union {u}
    /\ pc' = "record" /\ type' = t /\ upload' = u
    /\ sent' = sent \union {u}
    /\ settled' = FALSE
    /\ UNCHANGED <<pkgs, cus, sig, repomd, signer, doomed, done>>

\* (Wrong variant: the new file is deleted instead of the old one.)
RecordAndDropNew ==
    /\ pc = "record"
    /\ cus' = [cus EXCEPT ![type] = upload]
    /\ ThenDelete(IF cus[type] = None THEN None ELSE upload)
    /\ UNCHANGED <<pkgs, sig, files, repomd, signer, settled, sent>>

\* write_custom: put the entry; the one it replaced names a file to delete.
Record ==
    /\ pc = "record"
    /\ cus' = [cus EXCEPT ![type] = upload]
    /\ ThenDelete(cus[type])
    /\ UNCHANGED <<pkgs, sig, files, repomd, signer, settled, sent>>

\* del_md, del_comps: del_custom removes the entry, if there is one.
Forget(t) ==
    /\ pc = "idle"
    /\ cus' = [cus EXCEPT ![t] = None]
    /\ ThenDelete(cus[t])
    /\ settled' = FALSE
    /\ UNCHANGED <<pkgs, sig, files, repomd, signer, sent>>

\* (Wrong variant: generated files are cleaned up before they are replaced.)
DropWithOldXml ==
    /\ pc = "drop"
    /\ files' = files \ ({doomed} \union (Metans \X SUBSET Pkgs))
    /\ ThenDelete(None)
    /\ UNCHANGED <<pkgs, cus, sig, repomd, signer, settled, sent>>

\* StoreBackend::delete of the file that was replaced or removed.
Drop ==
    /\ pc = "drop"
    /\ files' = files \ {doomed}
    /\ ThenDelete(None)
    /\ UNCHANGED <<pkgs, cus, sig, repomd, signer, settled, sent>>

\* upload_pkgs, del_rpms: the part of the closure before generate (Cache).
ChangePkgs(P) ==
    /\ pc = "idle"
    /\ pkgs' = P
    /\ pc' = "generate"
    /\ settled' = FALSE
    /\ UNCHANGED <<cus, sig, files, repomd, signer, type, upload, doomed, done, sent>>

\* set_key, del_key: the handle's key changes and nothing is generated.
SetSig(k) ==
    /\ pc = "idle"
    /\ sig' = k
    /\ settled' = FALSE
    /\ UNCHANGED <<pkgs, cus, files, repomd, signer, closure, sent>>

-------------------------------------------------------------------------------
\* write_one, polled with the other metans' by try_join_all.
WriteMetan(m) ==
    /\ pc = "generate" /\ m \notin done
    /\ files' = files \union {<<m, pkgs>>}
    /\ done' = done \union {m}
    /\ UNCHANGED <<pkgs, cus, sig, repomd, signer, pc, type, upload, doomed, settled, sent>>

\* write_repomd: a local store truncates repomd.xml when it opens the writer,
\* a remote one leaves the object alone until the upload is complete.
OpenRepomd ==
    /\ pc = "generate" /\ done = Metans
    /\ \/ repomd' = {} /\ signer' = None
       \/ UNCHANGED <<repomd, signer>>
    /\ pc' = "repomd"
    /\ UNCHANGED <<pkgs, cus, sig, files, type, upload, doomed, done, settled, sent>>

\* (Wrong variant: the signature is forgotten.)
WriteUnsignedRepomd ==
    /\ pc = "repomd"
    /\ repomd' = Entries
    /\ signer' = None
    /\ End /\ settled' = TRUE
    /\ UNCHANGED <<pkgs, cus, sig, files, sent>>

\* write_repomd: the new repomd.xml; generate is over if there is no key.
WriteRepomd ==
    /\ pc = "repomd"
    /\ repomd' = Entries
    /\ signer' = None
    /\ IF sig = None
       THEN End /\ settled' = TRUE
       ELSE pc' = "sign" /\ UNCHANGED <<type, upload, doomed, done, settled>>
    /\ UNCHANGED <<pkgs, cus, sig, files, sent>>

\* generate: repomd.xml.asc.
Sign ==
    /\ pc = "sign"
    /\ signer' = sig
    /\ End /\ settled' = TRUE
    /\ UNCHANGED <<pkgs, cus, sig, files, repomd, sent>>

\* A step fails, the request is dropped at an await, or the process dies.
Fail ==
    /\ pc # "idle"
    /\ End
    /\ UNCHANGED <<pkgs, cus, sig, files, repomd, signer, settled, sent>>

Next ==
    \/ \E t \in Types : Forget(t) \/ \E u \in Uploads : StoreFile(t, u)
    \/ Record \/ Drop
    \/ \E P \in SUBSET Pkgs : ChangePkgs(P)
    \/ \E k \in Sigs \union {None} : SetSig(k)
    \/ \E m \in Metans : WriteMetan(m)
    \/ OpenRepomd \/ WriteRepomd \/ Sign \/ Fail

Spec == Init /\ [][Next]_vars
-------------------------------------------------------------------------------
(* Properties.                                                             *)

\* Whatever failed on the way, the file of every custom datatype in the database
\* is there, so the next generate lists files that exist.
CustomFilesExist == \A t \in Types : cus[t] # None => cus[t] \in files

\* At every instant a client may look: a file that repomd.xml names exists,
\* unless it belongs to a custom datatype that has since been replaced or
\* deleted.  No failed or unfinished operation makes the package lists dangle.
PublishedFilesExist ==
    \A e \in repomd : e[2] \in files \/ (e[1] \in Types /\ cus[e[1]] # e[2])

\* After an operation that succeeded, repomd.xml lists exactly the packages and
\* custom datatypes of the cache, and carries the handle's signature, if it has
\* a key; this makes up for earlier operations that failed half-way.
SettledIsCurrent == settled => repomd = Entries /\ signer = sig

\* write_custom: "The content is [...] stored under repodata/{checksum}-{dt}.zst.
\* A matching <data> entry is recorded in the cache so it appears in the next
\* repomd.xml": after a successful operation, what repomd.xml names is there.
SettledFilesExist == settled => \A e \in repomd : e[2] \in files
===============================================================================
