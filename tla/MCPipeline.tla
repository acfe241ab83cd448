----------------------------- MODULE MCPipeline -----------------------------
(* Instances of Pipeline for TLC: two products. *)
EXTENDS Pipeline

CONSTANTS A, B

MCCatalogue == <<A, B>>
MCCatalogue1 == <<A>>
=============================================================================
