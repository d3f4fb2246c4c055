--------------------------- MODULE MCCaptureBudget ---------------------------
(***************************************************************************)
(* CaptureBudget with a tick of 10 s: every duration of the code is a      *)
(* multiple of it, and the configurations have them as they are.           *)
(***************************************************************************)
EXTENDS CaptureBudget
=============================================================================
