----------------------------- MODULE PackageStore -----------------------------
(***************************************************************************)
(* What upload_pkgs and del_rpms (src/api/repos.rs) promise together: a      *)
(* repository's list of packages changes as if every request took effect in   *)
(* one step between its arrival and its answer.  An upload replaces whatever  *)
(* versions of its packages are listed then; a deletion takes away the rpms it *)
(* names.  A request that fails touches no package but its own.              *)
(***************************************************************************)
CONSTANTS Reqs,      \* requests in flight
          Rpms,      \* the rpms there are
          PackageOf, \* the package each of them is a version of
          Bytes,     \* what an rpm may contain
          MayFail,   \* may requests fail?
          None

VARIABLES listing, \* content with which each rpm is listed
          sent,    \* what each request uploads: rpms with their contents
          named,   \* rpms it deletes
          phase    \* has it been asked for, has it taken effect?

pvars == <<listing, sent, named, phase>>

\* One version of each package.
Batches == {batch \in SUBSET (Rpms \X Bytes) :
               \A r, s \in batch : PackageOf[r[1]] = PackageOf[s[1]] => r = s}

\* The rpm is another version of a package in the batch.
Superseded(n, batch) == \E r \in batch : n # r[1] /\ PackageOf[n] = PackageOf[r[1]]

PInit ==
    /\ listing = [n \in Rpms |-> None]
    /\ sent = [q \in Reqs |-> {}] /\ named = [q \in Reqs |-> {}]
    /\ phase = [q \in Reqs |-> "idle"]

Asked(q) == phase[q] = "idle" /\ phase' = [phase EXCEPT ![q] = "asked"]

AskUpload(q) ==
    /\ Asked(q)
    /\ \E batch \in Batches : sent' = [sent EXCEPT ![q] = batch]
    /\ UNCHANGED <<listing, named>>

AskDelete(q) ==
    /\ Asked(q)
    /\ \E names \in SUBSET Rpms : named' = [named EXCEPT ![q] = names]
    /\ UNCHANGED <<listing, sent>>

\* The request takes effect.  An rpm that cannot be read is left out, though its
\* package's other versions go.
Apply(q) ==
    /\ phase[q] = "asked" /\ phase' = [phase EXCEPT ![q] = "applied"]
    /\ \E bad \in SUBSET sent[q] :
        /\ bad # {} => MayFail
        /\ listing' \in [Rpms -> Bytes \union {None}]
        /\ \A n \in Rpms :
              IF n \in named[q] \/ Superseded(n, sent[q]) THEN listing'[n] = None
              ELSE IF \E r \in sent[q] \ bad : n = r[1] THEN <<n, listing'[n]>> \in sent[q]
              ELSE listing'[n] = listing[n]
    /\ UNCHANGED <<sent, named>>

Over(q) ==
    /\ phase[q] # "idle" /\ phase' = [phase EXCEPT ![q] = "idle"]
    /\ sent' = [sent EXCEPT ![q] = {}] /\ named' = [named EXCEPT ![q] = {}]

\* The client gets its answer.
Answer(q) == phase[q] = "applied" /\ Over(q) /\ UNCHANGED listing

\* The request is refused, or fails before it takes effect.
Decline(q) == phase[q] = "asked" /\ Over(q) /\ UNCHANGED listing

\* An upload fails when its rpms are listed already: the other versions may stay.
Abort(q) ==
    /\ MayFail
    /\ phase[q] = "applied" /\ Over(q)
    /\ listing' \in [Rpms -> Bytes \union {None}]
    /\ \A n \in Rpms : listing'[n] # listing[n] => Superseded(n, sent[q]) /\ listing[n] = None

PNext == \E q \in Reqs :
    AskUpload(q) \/ AskDelete(q) \/ Apply(q) \/ Answer(q) \/ Decline(q) \/ Abort(q)

PSpec == PInit /\ [][PNext]_pvars
===============================================================================
