-------------------------- MODULE MCPipelineGraph --------------------------
(* Instances of PipelineGraph for TLC. *)
EXTENDS PipelineGraph, TLC

Symmetry == Permutations(Execs)
=============================================================================
