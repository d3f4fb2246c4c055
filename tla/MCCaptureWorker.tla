-------------------------- MODULE MCCaptureWorker --------------------------
(***************************************************************************)
(* CaptureWorker on small instances.                                       *)
(***************************************************************************)
EXTENDS CaptureWorker

CONSTANTS c1, c2, i1, i2, i3

TwoConns == {c1, c2}
TwoIds == {i1, i2}
ThreeIds == {i1, i2, i3}
=============================================================================
