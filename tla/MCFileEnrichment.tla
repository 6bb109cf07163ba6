-------------------------- MODULE MCFileEnrichment --------------------------
(* A Review of a few Files; see the cfg for the bounds. *)
EXTENDS FileEnrichment
=============================================================================
