--------------------------- MODULE MCPipelineCompare ---------------------------
(***************************************************************************)
(* The instructions of MCPipeline for both pipelines.                      *)
(***************************************************************************)
EXTENDS MCPipeline, PipelineCompare
===============================================================================
