----------------------------- MODULE MCPipeline -----------------------------
(***************************************************************************)
(* TLC instances of Pipeline.                                              *)
(***************************************************************************)
EXTENDS Pipeline
=============================================================================
