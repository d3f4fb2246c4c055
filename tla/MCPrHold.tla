------------------------------ MODULE MCPrHold ------------------------------
(***************************************************************************)
(* PrHold with two sessions.                                               *)
(***************************************************************************)
EXTENDS PrHold, TLC

CONSTANTS s1, s2

TwoSessions == {s1, s2}

(* Sessions are interchangeable.                                           *)
Symmetric == Permutations(TwoSessions)
=============================================================================
