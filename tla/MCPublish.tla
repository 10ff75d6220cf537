------------------------------ MODULE MCPublish -------------------------------
(* Instances of Publish for TLC: one metan stands for the four, as they write *)
(* independent files; two show that they may be written in any order.        *)
EXTENDS Publish, TLC

Symmetry == Permutations(Uploads) \union Permutations(Types)
               \union Permutations(Pkgs) \union Permutations(Sigs)
===============================================================================
