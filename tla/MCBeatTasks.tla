---------------------------- MODULE MCBeatTasks ----------------------------
(* Instance of BeatTasks for TLC. *)
EXTENDS BeatTasks, TLC

CONSTANTS v1, v2, p1, e1, e2
Owner == (v1 :> 1) @@ (v2 :> 1) @@ (p1 :> 1)
OneTask == {{"digest"}, {"check"}}
Symmetry == Permutations(Execs) \cup Permutations(Publishes)
=============================================================================
