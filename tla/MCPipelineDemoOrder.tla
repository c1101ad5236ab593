------------------------ MODULE MCPipelineDemoOrder ------------------------
(* The small pipelines with the history of what each stage has popped.     *)
EXTENDS MCPipelineDemo, PipelineDemoOrder
=============================================================================
