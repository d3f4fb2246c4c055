------------------------------ MODULE RowLock ------------------------------
(***************************************************************************)
(* What `row-claim' (agent-org/src/row-claim.mjs) promises the sessions    *)
(* that share one tracker row, whatever labels, comments and directories   *)
(* it takes.  Every step is one session's, and none takes another's name   *)
(* off the row, or its hold:                                               *)
(*                                                                         *)
(* a session comes to hold the row only while its own name is the only one *)
(* up, so the row has at most one holder, and keeps its name up for as     *)
(* long as it holds it.  It stops holding it by declining, or by asking a  *)
(* second time and meeting another's name: the command that begins a row   *)
(* its session was dispatched is such a second time.                       *)
(***************************************************************************)
CONSTANT Sessions

VARIABLES
  owners,   \* who holds the row
  named,    \* whose name is up
  asking    \* whose claim is under way

lockVars == <<owners, named, asking>>

Init == owners = {} /\ named = {} /\ asking = {}

PutUp(s) == s \in asking /\ named' = named \cup {s} /\ UNCHANGED owners

Take(s) == s \in asking /\ owners = {} /\ named = {s} /\ owners' = {s} /\ UNCHANGED named

(* It has met another's name.                                              *)
Yield(s) ==
  /\ s \in owners \cap asking /\ named \ {s} # {}
  /\ owners' = owners \ {s}
  /\ UNCHANGED named

TakeDown(s) == s \notin owners /\ named' = named \ {s} /\ UNCHANGED owners

Decline(s) ==
  /\ s \in owners \ asking
  /\ owners' = owners \ {s} /\ named' = named \ {s}

(* Its claim may begin or end in the same step.                            *)
Next ==
  \E s \in Sessions :
    /\ asking' \ {s} = asking \ {s}
    /\ \/ PutUp(s) \/ Take(s) \/ Yield(s) \/ TakeDown(s) \/ Decline(s)
       \/ UNCHANGED <<owners, named>>

Spec == Init /\ [][Next]_lockVars
=============================================================================
