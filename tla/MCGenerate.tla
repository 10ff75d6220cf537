------------------------------ MODULE MCGenerate ------------------------------
(* An instance of Generate for TLC: files of different lengths, both longer   *)
(* than what a channel and its two ends can hold.                            *)
EXTENDS Generate, TLC

CONSTANTS m1, m2

FragsDef == (m1 :> 4) @@ (m2 :> 3)
===============================================================================
