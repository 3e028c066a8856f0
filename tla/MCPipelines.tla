---------------------------- MODULE MCPipelines ----------------------------
EXTENDS Pipelines
=============================================================================
