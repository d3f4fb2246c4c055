---------------------------- MODULE MCWorkerPool ----------------------------
(***************************************************************************)
(* WorkerPool on small instances.                                          *)
(***************************************************************************)
EXTENDS WorkerPool

CONSTANTS w1, w2, w3, a, b, c

ThreeWorkers == {w1, w2, w3}
ThreeItems == {a, b, c}
ThreeInOrder == <<a, b, c>>
=============================================================================
