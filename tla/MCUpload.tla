------------------------------- MODULE MCUpload -------------------------------
(* Instances of Upload for TLC: two versions of package a, its build for        *)
(* another architecture, package a-b, and two rpms with bad names.             *)
EXTENDS Upload, TLC

CONSTANTS q1, q2, a1, a2, b1, c1, d1, e1, a, b, c, d

FileNameDef == [n \in Rpms |->
    CASE n = a1 -> <<"a", "-", "1", "-", "1", ".", "x", ".", "rpm">>
      [] n = a2 -> <<"a", "-", "2", ":", "1", ".", "1", "-", "2", ".", "x", ".", "rpm">>
      [] n = b1 -> <<"a", "-", "b", "-", "1", "-", "1", ".", "x", ".", "rpm">>
      [] n = c1 -> <<"a", "-", "1", "-", "1", ".", "y", ".", "rpm">>
      [] n = d1 -> <<"a", "-", "1", ".", "x", ".", "rpm">>
      [] n = e1 -> <<"a", "/", "b", "-", "1", "-", "1", ".", "x", ".", "rpm">>]

PackageOfDef == [n \in Rpms |->
    CASE n \in {a1, a2} -> a [] n = b1 -> b [] n = c1 -> c [] OTHER -> d]

BaseDef == <<"repo", "/">>

\* No package is worked on by both clients: one has several packages, or one
\* sends bad names.
Apart == {(q1 :> {a, c}) @@ (q2 :> {b}), (q1 :> {c}) @@ (q2 :> {b, d})}

\* One client at a time.
Alone == {[q \in Reqs |-> Packages]}

\* The theorems' hypothesis on the clients (UploadProofs) is met.  WellNamed is, too:
\* the rpms of a, b and c are called as builders call them (BuildersNameWell), and
\* the code accepts no others.
ASSUME ClientsApart
===============================================================================
