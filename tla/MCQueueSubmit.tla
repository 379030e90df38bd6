----------------------------- MODULE MCQueueSubmit -----------------------------
(* Bounds for checking QueueSubmit.                                        *)
EXTENDS QueueSubmit
=============================================================================
