--------------------------- MODULE MCThrottledRunner ---------------------------
(* Bounds for checking ThrottledRunner.                                    *)
EXTENDS ThrottledRunner
=============================================================================
