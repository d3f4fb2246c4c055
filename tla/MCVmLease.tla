----------------------------- MODULE MCVmLease -----------------------------
(* TLC's instances of VmLease.                                             *)
EXTENDS VmLease, TLC

CONSTANTS r1, r2, r3

MCRuns == {r1, r2, r3}
TwoRuns == {r1, r2}
AnyAfterRun == {"restore", "stop", "pause", "leave"}
Default == {"restore"}
AnyHand == {"stopped", "paused", "up"}
NoHand == {}
Symmetry == Permutations(MCRuns)
=============================================================================
