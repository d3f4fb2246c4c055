----------------------------- MODULE MCRowClaim -----------------------------
(***************************************************************************)
(* RowClaim with three sessions.                                           *)
(***************************************************************************)
EXTENDS RowClaim, TLC

CONSTANTS s1, s2, s3

ThreeSessions == {s1, s2, s3}

(* Sessions are interchangeable.                                           *)
Symmetric == Permutations(ThreeSessions)
=============================================================================
