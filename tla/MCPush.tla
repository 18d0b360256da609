------------------------------- MODULE MCPush -------------------------------
(* The programs of MCPipeline, for the comparison with PushPipeline.       *)
EXTENDS PushPipeline, MCPipeline
=============================================================================
