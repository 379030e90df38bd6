------------------------------ MODULE MCQueuePage ------------------------------
(* Bounds for checking QueuePage.                                          *)
EXTENDS QueuePage
=============================================================================
