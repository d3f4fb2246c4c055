--------------------------- MODULE MCScreenReader ---------------------------
(* Instances of ScreenReader for TLC: two calls of captureWithNvda, so one *)
(* may hold the slot while another is abandoned, and the warm-up; in an    *)
(* orderly world with much trouble, in any with a little, and where a      *)
(* capture hangs and stops do not take.                                    *)
EXTENDS ScreenReader

CONSTANTS d1, d2

MCDrives == {d1, d2}

ThreeWorlds == {[quirks |-> OneAtATime, left |-> 4, restarts |-> 1],
                [quirks |-> AllQuirks, left |-> 1, restarts |-> 0],
                [quirks |-> {"hangs", "stop does not take"},
                 left |-> 2, restarts |-> 0]}
=============================================================================
