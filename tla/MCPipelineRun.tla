--------------------------- MODULE MCPipelineRun ---------------------------
(* Instances of PipelineRun for TLC. *)
EXTENDS PipelineRun, TLC

Symmetry == Permutations(Workers)
=============================================================================
