------------------------------ MODULE MCRecordLoad ------------------------------
(* Bounds for checking RecordLoad: a manifest without records between two  *)
(* whose records do not fill their batches.                                *)
EXTENDS RecordLoad

MCCount == <<3, 0, 2>>
=============================================================================
