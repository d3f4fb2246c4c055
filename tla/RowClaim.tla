------------------------------ MODULE RowClaim ------------------------------
(***************************************************************************)
(* Claiming and declining a row of the tracker                             *)
(* (agent-org/src/row-claim.mjs).                                          *)
(*                                                                         *)
(* Sessions are processes on one machine; a row is an issue whose labels   *)
(* are the record.  Nothing locks it: `claim' and `dispatch' read the      *)
(* labels, add theirs, drop `ready', read again, and back off when they    *)
(* find another session's name; `decline' reads, removes the recorded      *)
(* worktree, and edits.  Every call to gh or git is an action, so other    *)
(* sessions' commands come in between any two of one command's.            *)
(*                                                                         *)
(* One row.  `row' has its marks (labels that name nobody, and `closed',   *)
(* its state); `names' who has a session label on it.  The path of its     *)
(* worktree is the conventional one, so `tree' says who made the directory *)
(* there.  The reservation, lane, template and eligibility rules refuse    *)
(* for reasons outside this state: Refused may happen to any claim.        *)
(* Project Status, the view, is read by none of these steps and left out.  *)
(*                                                                         *)
(* X_Slip: a fault seeded in X, see ResultStore.                           *)
(***************************************************************************)
EXTENDS Naturals, FiniteSets

CONSTANTS Sessions,
          None,          \* no directory; no claim recorded
          Released,      \* the newest record is a release
          MaxCommands,   \* bound: commands started
          MaxThrows      \* bound: commands that die between two calls

ASSUME SessionsAssumption == None \notin Sessions /\ Released \notin Sessions
ASSUME BoundsAssumption == MaxCommands \in Nat /\ MaxThrows \in Nat

VARIABLES
  row,       \* its marks
  names,     \* the sessions named by a session: label
  record,    \* who posted the newest claim record that names a worktree
  tree,      \* who made the worktree
  dirty,     \* it has work git would lose
  pc,        \* the call each session's command makes next
  mode,      \* the command's flags
  seen,      \* the marks its first read found and a later step uses
  holds,     \* the sessions whose claim stood and was not given back
  lostTo,    \* whom the session last backed off for
  commands, throws

vars == <<row, names, record, tree, dirty, pc, mode, seen, holds, lostTo,
          commands, throws>>

Marks == {"ready", "in-progress", "started", "was-ready", "blocked", "closed"}

Claiming == {"create", "decide", "add", "unready", "verify", "back off",
             "undo", "record"}
Declining == {"read record", "clear", "edit off", "edit on", "post release"}

(* started: claim, not dispatch.  worktree: given --worktree, or, in a     *)
(* decline, one is recorded.  blocked: decline was given a reason.         *)
Flags == {"started", "worktree", "blocked"}

TypeOK ==
  /\ row \subseteq Marks
  /\ names \subseteq Sessions
  /\ record \in Sessions \cup {None, Released}
  /\ tree \in Sessions \cup {None}
  /\ dirty \in BOOLEAN /\ (dirty => tree # None)
  /\ pc \in [Sessions -> {"idle"} \cup Claiming \cup Declining]
  /\ mode \in [Sessions -> SUBSET Flags]
  /\ seen \in [Sessions -> SUBSET Marks]
  /\ holds \subseteq Sessions
  /\ lostTo \in [Sessions -> SUBSET Sessions]
  /\ commands \in 0 .. MaxCommands
  /\ throws \in 0 .. MaxThrows

Init ==
  /\ row \in {{}, {"ready"}}
  /\ names = {}
  /\ record = None
  /\ tree = None
  /\ dirty = FALSE
  /\ pc = [s \in Sessions |-> "idle"]
  /\ mode = [s \in Sessions |-> {}]
  /\ seen = [s \in Sessions |-> {}]
  /\ holds = {}
  /\ lostTo = [s \in Sessions |-> {}]
  /\ commands = 0
  /\ throws = 0

Goto(s, place) == pc' = [pc EXCEPT ![s] = place]

(* The command ends; what it remembered is gone with its process.          *)
End(s) ==
  /\ Goto(s, "idle")
  /\ mode' = [mode EXCEPT ![s] = {}]
  /\ seen' = [seen EXCEPT ![s] = {}]

Command(s, flags, place) ==
  /\ pc[s] = "idle"
  /\ commands < MaxCommands
  /\ commands' = commands + 1
  /\ Goto(s, place)
  /\ mode' = [mode EXCEPT ![s] = flags]

-----------------------------------------------------------------------------
(* dispatch and claim.                                                     *)

Dispatch(s) ==
  /\ Command(s, {}, "decide")
  /\ UNCHANGED <<row, names, record, tree, dirty, seen, holds, lostTo, throws>>

(* With --worktree the path must be free before anything is written.       *)
ClaimRow(s) ==
  /\ \/ Command(s, {"started"}, "decide")
     \/ tree = None /\ Command(s, {"started", "worktree"}, "create")
  /\ UNCHANGED <<row, names, record, tree, dirty, seen, holds, lostTo, throws>>

(* git worktree add: it fails on a path made since the check.              *)
CreateWorktree(s) ==
  /\ pc[s] = "create"
  /\ \/ /\ tree = None
        /\ tree' = s /\ dirty' = FALSE
        /\ Goto(s, "decide")
        /\ UNCHANGED <<mode, seen>>
     \/ tree # None /\ End(s) /\ UNCHANGED <<tree, dirty>>
  /\ UNCHANGED <<row, names, record, holds, lostTo, commands, throws>>

DecideClaim(s) == "in-progress" \notin row \/ s \in names

(* A claim that does not stand takes back the worktree it made.            *)
GiveUp(s) ==
  IF "worktree" \in mode[s]
    THEN Goto(s, "undo") /\ UNCHANGED <<mode, seen>>
    ELSE End(s)

Decided(s) ==
  /\ pc[s] = "decide"
  /\ DecideClaim(s)
  /\ seen' = [seen EXCEPT ![s] = row \cap {"ready"}]
  /\ Goto(s, "add")
  /\ UNCHANGED <<row, names, record, tree, dirty, mode, holds, lostTo, commands, throws>>

Refused(s) ==
  /\ pc[s] = "decide"
  /\ GiveUp(s)
  /\ UNCHANGED <<row, names, record, tree, dirty, holds, lostTo, commands, throws>>

AddLabels(s) ==
  /\ pc[s] = "add"
  /\ row' = row \cup {"in-progress"}
                \cup (mode[s] \cap {"started"})
                \cup (IF "ready" \in seen[s] THEN {"was-ready"} ELSE {})
  /\ names' = names \cup {s}
  /\ Goto(s, "unready")
  /\ UNCHANGED <<record, tree, dirty, mode, seen, holds, lostTo, commands, throws>>

(* A call of its own, after the additions are known to have landed.        *)
RemoveReady(s) ==
  /\ pc[s] = "unready"
  /\ row' = row \ {"ready"}
  /\ Goto(s, "verify")
  /\ UNCHANGED <<names, record, tree, dirty, mode, seen, holds, lostTo, commands, throws>>

Verify_Slip(s) ==
  /\ pc[s] = "verify"
  /\ \/ /\ s \in names
        /\ holds' = holds \cup {s}
        /\ lostTo' = [lostTo EXCEPT ![s] = {}]
        /\ IF "worktree" \in mode[s] THEN Goto(s, "record") /\ UNCHANGED <<mode, seen>>
                                     ELSE End(s)
     \/ /\ names \ {s} # {}
        /\ holds' = holds \ {s}
        /\ lostTo' = [lostTo EXCEPT ![s] = names \ {s}]
        /\ Goto(s, "back off")
        /\ UNCHANGED <<mode, seen>>
  /\ UNCHANGED <<row, names, record, tree, dirty, commands, throws>>

(* completeClaim reads the labels again: anybody else's name, and the      *)
(* claim is lost.                                                          *)
Verify(s) ==
  /\ pc[s] = "verify"
  /\ \/ /\ names \ {s} = {}
        /\ holds' = holds \cup {s}
        /\ lostTo' = [lostTo EXCEPT ![s] = {}]
        /\ IF "worktree" \in mode[s] THEN Goto(s, "record") /\ UNCHANGED <<mode, seen>>
                                     ELSE End(s)
     \/ /\ names \ {s} # {}
        /\ holds' = holds \ {s}
        /\ lostTo' = [lostTo EXCEPT ![s] = names \ {s}]
        /\ Goto(s, "back off")
        /\ UNCHANGED <<mode, seen>>
  /\ UNCHANGED <<row, names, record, tree, dirty, commands, throws>>

(* Its own name and extras come off; in-progress and was-ready stay.       *)
BackOff(s) ==
  /\ pc[s] = "back off"
  /\ names' = names \ {s}
  /\ row' = row \ (mode[s] \cap {"started"})
  /\ GiveUp(s)
  /\ UNCHANGED <<record, tree, dirty, holds, lostTo, commands, throws>>

(* git worktree remove --force, of the path.                               *)
UndoCreatedWorktree(s) ==
  /\ pc[s] = "undo"
  /\ tree' = None /\ dirty' = FALSE
  /\ End(s)
  /\ UNCHANGED <<row, names, record, holds, lostTo, commands, throws>>

PostClaimRecord(s) ==
  /\ pc[s] = "record"
  /\ record' = s
  /\ End(s)
  /\ UNCHANGED <<row, names, tree, dirty, holds, lostTo, commands, throws>>

-----------------------------------------------------------------------------
(* decline.                                                                *)

(* Only a claimed row, and only its one session.                           *)
DeclineRow(s) ==
  /\ "in-progress" \in row /\ names = {s}
  /\ \E reason \in {{}, {"blocked"}} : Command(s, reason, "read record")
  /\ seen' = [seen EXCEPT ![s] = row \cap {"was-ready", "closed"}]
  /\ UNCHANGED <<row, names, record, tree, dirty, holds, lostTo, throws>>

ReadRecord(s) ==
  /\ pc[s] = "read record"
  /\ \/ /\ record \in Sessions
        /\ Goto(s, "clear")
        /\ mode' = [mode EXCEPT ![s] = @ \cup {"worktree"}]
     \/ /\ record \notin Sessions
        /\ Goto(s, "edit off")
        /\ UNCHANGED mode
  /\ UNCHANGED <<row, names, record, tree, dirty, seen, holds, lostTo, commands, throws>>

RemoveClaimedWorktree_Slip(s) ==
  /\ pc[s] = "clear"
  /\ tree' = IF dirty THEN tree ELSE None
  /\ Goto(s, "edit off")
  /\ UNCHANGED <<row, names, record, dirty, mode, seen, holds, lostTo, commands, throws>>

(* A tree with work in it refuses the whole decline; one that is not there *)
(* counts as removed.                                                      *)
RemoveClaimedWorktree(s) ==
  /\ pc[s] = "clear"
  /\ \/ dirty /\ End(s) /\ UNCHANGED tree
     \/ ~dirty /\ tree' = None /\ Goto(s, "edit off") /\ UNCHANGED <<mode, seen>>
  /\ UNCHANGED <<row, names, record, dirty, holds, lostTo, commands, throws>>

DeclineRemoveLabels_Slip(s) == {"started"} \cup (seen[s] \cap {"was-ready"})

DeclineRemoveLabels(s) == {"in-progress", "started"} \cup (seen[s] \cap {"was-ready"})

DeclineAddLabels(s) ==
  IF "closed" \in seen[s] THEN {}
  ELSE IF "blocked" \in mode[s] THEN {"blocked"}
  ELSE IF "was-ready" \in seen[s] THEN {"ready"} ELSE {}

EditOff_Slip(s) ==
  /\ pc[s] = "edit off"
  /\ row' = row \ DeclineRemoveLabels(s)
  /\ names' = {}
  /\ holds' = holds \ {s}
  /\ lostTo' = [lostTo EXCEPT ![s] = {}]
  /\ Goto(s, "edit on")
  /\ UNCHANGED <<record, tree, dirty, mode, seen, commands, throws>>

(* One gh edit removes and adds, and is not atomic: its removals have been *)
(* seen to land alone.                                                     *)
EditOff(s) ==
  /\ pc[s] = "edit off"
  /\ row' = row \ DeclineRemoveLabels(s)
  /\ names' = names \ {s}
  /\ holds' = holds \ {s}
  /\ lostTo' = [lostTo EXCEPT ![s] = {}]
  /\ Goto(s, "edit on")
  /\ UNCHANGED <<record, tree, dirty, mode, seen, commands, throws>>

EditOn(s) ==
  /\ pc[s] = "edit on"
  /\ row' = row \cup DeclineAddLabels(s)
  /\ IF "worktree" \in mode[s] THEN Goto(s, "post release") /\ UNCHANGED <<mode, seen>>
                               ELSE End(s)
  /\ UNCHANGED <<names, record, tree, dirty, holds, lostTo, commands, throws>>

PostReleaseRecord(s) ==
  /\ pc[s] = "post release"
  /\ record' = Released
  /\ End(s)
  /\ UNCHANGED <<row, names, tree, dirty, holds, lostTo, commands, throws>>

-----------------------------------------------------------------------------
(* A call throws, or the process is killed: what had landed stays.         *)
Throws(s) ==
  /\ pc[s] # "idle"
  /\ throws < MaxThrows
  /\ throws' = throws + 1
  /\ End(s)
  /\ UNCHANGED <<row, names, record, tree, dirty, holds, lostTo, commands>>

(* A session edits and commits in the worktree it made.                    *)
Work(s) ==
  /\ s \in holds /\ pc[s] = "idle" /\ tree = s
  /\ dirty' = ~dirty
  /\ UNCHANGED <<row, names, record, tree, pc, mode, seen, holds, lostTo, commands, throws>>

(* The issue is closed, by a merge or by hand.                             *)
CloseRow ==
  /\ "closed" \notin row
  /\ row' = row \cup {"closed"}
  /\ UNCHANGED <<names, record, tree, dirty, pc, mode, seen, holds, lostTo, commands, throws>>

Claim(s) ==
  \/ Dispatch(s) \/ ClaimRow(s) \/ CreateWorktree(s) \/ Decided(s) \/ Refused(s)
  \/ AddLabels(s) \/ RemoveReady(s) \/ Verify(s) \/ BackOff(s)
  \/ UndoCreatedWorktree(s) \/ PostClaimRecord(s)

Decline(s) ==
  \/ DeclineRow(s) \/ ReadRecord(s) \/ RemoveClaimedWorktree(s)
  \/ EditOff(s) \/ EditOn(s) \/ PostReleaseRecord(s)

Next ==
  \/ \E s \in Sessions : Claim(s) \/ Decline(s) \/ Throws(s) \/ Work(s)
  \/ CloseRow

Spec == Init /\ [][Next]_vars

-----------------------------------------------------------------------------
(* Two sessions never both hold the row, whatever their commands           *)
(* interleave with and wherever they die (#28, #30: a row pulled twice).   *)
OneHolder == \A s, t \in holds : s = t

(* row-claim is a lock, of which the holders are the owners.               *)
Asking == {s \in Sessions : pc[s] \in Claiming}
Lock == INSTANCE RowLock WITH owners <- holds, named <- names, asking <- Asking
ImplementsLock == Lock!Spec

(* The header's claim of a worker that begins a row it was dispatched: it  *)
(* "goes from dispatched to started without a second race window".         *)
BegunWithoutRace == [][\A s \in holds : Verify(s) => s \in holds']_vars

(* declineRow's claim: to decline is to give back one's own claim, never   *)
(* to clear someone else's.  So while somebody holds the row, decideClaim  *)
(* finds it claimed.                                                       *)
HeldIsInProgress == holds # {} => "in-progress" \in row

(* A row left in-progress with nobody's name, which no command can take or *)
(* give back any more, took two sessions that each backed off for another: *)
(* no claim, decline or death of one command alone strands a row.          *)
Stranded == "in-progress" \in row /\ names = {}
StrandedTakesTwo == Stranded => Cardinality({s \in Sessions : lostTo[s] # {}}) > 1

(* Work that git would lose, in the worktree its maker has recorded, stays *)
(* under its maker's claim: a decline does not release a row over a dirty  *)
(* tree (#665).  A claim its session was told it lost is the exception.    *)
DirtyWorkStaysClaimed ==
  dirty /\ record = tree => tree \in names \/ lostTo[tree] # {}
=============================================================================
