------------------------- MODULE MCPageServerLease -------------------------
(* An instance of PageServerLease for TLC: three runs, as a starter, one   *)
(* that adopts and one that comes after either of them has gone.           *)
EXTENDS PageServerLease, TLC

CONSTANTS r1, r2, r3

MCRuns == {r1, r2, r3}
Symmetry == Permutations(MCRuns)
=============================================================================
