----------------------------- MODULE MCConnection -----------------------------
(* Bounds for checking Connection: two bearer tokens of different lengths, *)
(* and tabs that are interchangeable.                                      *)
EXTENDS Connection, TLC

CONSTANTS a, b

MCLength == a :> 2 @@ b :> 3
TabSymmetry == Permutations(Tabs)
=============================================================================
