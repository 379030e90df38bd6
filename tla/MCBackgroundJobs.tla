--------------------------- MODULE MCBackgroundJobs ---------------------------
(* Bounds for checking BackgroundJobs.                                     *)
EXTENDS BackgroundJobs
=============================================================================
