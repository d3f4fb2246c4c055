-------------------------- MODULE MCDesktopPrepare --------------------------
(* Instances of DesktopPrepare for TLC: a capture's preparation beside an  *)
(* abandoned one and the boot sample, two dialogs.                         *)
EXTENDS DesktopPrepare

CONSTANTS p1, p2, boot, d1, d2

MCPreparations == {p1, p2}
MCDialogs == {d1, d2}
=============================================================================
