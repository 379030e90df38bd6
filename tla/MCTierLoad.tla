------------------------------- MODULE MCTierLoad -------------------------------
(* Bounds for checking TierLoad: a tier of two manifests, the first of     *)
(* which refers to the second, and a tier without any.                     *)
EXTENDS TierLoad

CONSTANTS refdata, other

MCTierOf == <<refdata, refdata>>
MCRefs   == {<<1, 2>>}
=============================================================================
