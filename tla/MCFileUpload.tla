------------------------------ MODULE MCFileUpload ------------------------------
(* Bounds for checking FileUpload.                                         *)
EXTENDS FileUpload
=============================================================================
