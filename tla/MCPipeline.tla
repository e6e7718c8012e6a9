----------------------------- MODULE MCPipeline -----------------------------
(***************************************************************************)
(* Finite configurations of Pipeline for TLC.                              *)
(***************************************************************************)
EXTENDS Pipeline

BothModes == BOOLEAN
=============================================================================
