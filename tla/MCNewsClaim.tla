----------------------------- MODULE MCNewsClaim -----------------------------
EXTENDS NewsClaim, TLC

CONSTANTS c1, c2, e1, e2, e3

\* Two executions for one channel and one for another that shares its feed.
Shared == (e1 :> c1) @@ (e2 :> c1) @@ (e3 :> c2)

Symmetry == Permutations({e1, e2})
=============================================================================
