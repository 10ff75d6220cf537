------------------------------- MODULE MCLocker -------------------------------
(* Symmetry for the safety runs of Locker: requests, key ids and private keys *)
(* are interchangeable.                                                    *)
EXTENDS Locker, TLC

Symmetry == Permutations(Reqs) \union Permutations(Keys) \union Permutations(Mats)
===============================================================================
