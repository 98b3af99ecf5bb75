--------------------------- MODULE MCPipelineLive ---------------------------
(* The pipeline with fairness, without the counter of MCPipeline.            *)
EXTENDS Pipeline
=============================================================================
