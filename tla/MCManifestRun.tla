----------------------------- MODULE MCManifestRun -----------------------------
(* Bounds for checking ManifestRun.                                        *)
EXTENDS ManifestRun
=============================================================================
