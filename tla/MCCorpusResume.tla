--------------------------- MODULE MCCorpusResume ---------------------------
(* An instance of CorpusResume for TLC: two cases read by two workers, of  *)
(* two environments, the second of which nobody told.                      *)
EXTENDS CorpusResume, TLC

CONSTANTS w1, w2, c1, c2, p1, p2, e1, e2

MCWorkers == {w1, w2}
MCCases == {c1, c2}
MCPages == {p1, p2}
MCEnvironments == {e1, e2}
Symmetry == Permutations(MCWorkers) \cup Permutations(MCCases) \cup Permutations(MCPages)
(* Nothing but Unknown, which only UnansweredReusesNothing speaks of,      *)
(* tells the environments apart.                                           *)
SymmetryAll == Symmetry \cup Permutations(MCEnvironments)
=============================================================================
