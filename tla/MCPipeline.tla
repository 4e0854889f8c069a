----------------------------- MODULE MCPipeline -----------------------------
(* Pipelines of a fixed length on a small descriptor table.                 *)
EXTENDS Pipeline
=============================================================================
