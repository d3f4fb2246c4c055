-------------------------- MODULE MCCaptureClient --------------------------
(***************************************************************************)
(* CaptureClient on small instances.                                       *)
(***************************************************************************)
EXTENDS CaptureClient, TLC

CONSTANTS c1, c2, i1, i2, i3, i4

TwoClients == {c1, c2}
FourIds == {i1, i2, i3, i4}
TwoAnswers == {"ok", "fault"}

(* Clients are interchangeable, and so are ids.                            *)
Symmetric == Permutations(TwoClients) \cup Permutations(FourIds)
=============================================================================
