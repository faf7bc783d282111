--------------------------- MODULE MCPublishing ---------------------------
EXTENDS Publishing, TLC

CONSTANTS p1, p2

OneOrder   == {<<p1, p2>>}
BothOrders == {<<p1, p2>>, <<p2, p1>>}

Symmetry == Permutations(Tasks)
=============================================================================
