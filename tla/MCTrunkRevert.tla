---------------------------- MODULE MCTrunkRevert ----------------------------
(***************************************************************************)
(* TrunkRevert with two or three runs, and up to three tests: of a product *)
(* package, of another one and lint.                                       *)
(***************************************************************************)
EXTENDS TrunkRevert, TLC

CONSTANTS r1, r2, r3, product, org, lint

TwoRuns == {r1, r2}

ThreeRuns == {r1, r2, r3}

Product == {product}

ProductAndOrg == {product, org}

AllThree == {product, org, lint}

(* Runs are interchangeable; tests are not, of which some are rechecked.   *)
Symmetric == Permutations(Runs)
=============================================================================
