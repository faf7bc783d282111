----------------------------- MODULE MCAccounts -----------------------------
(* Instance of Accounts for TLC. *)
EXTENDS Accounts, TLC

CONSTANTS u1, u2, c1, c2
AllOrRss == {DEFAULT_FREE_TIER_PERMISSIONS, <<"rss:feed:read", "rss:feed:manage">>}
Symmetry == Permutations({u1, u2}) \cup Permutations({c1, c2})
=============================================================================
