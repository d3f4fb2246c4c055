--------------------------- MODULE RowClaimProofs ---------------------------
(***************************************************************************)
(* A row has one holder, dirty work keeps its claim, and a row stays       *)
(* locked with nobody at it only after two claimants lost, for every set   *)
(* of sessions and any number of commands and deaths.                      *)
(*                                                                         *)
(* Only a session itself takes its name off the row, and it does so no     *)
(* later than it stops holding it (HoldersAreNamed); a session verifies    *)
(* only with its own name up (NamedWhileClaiming).  So a verify that finds *)
(* no other name finds no other holder.                                    *)
(*                                                                         *)
(* A decline takes in-progress with the last name, a back-off leaves it:   *)
(* so when the last name comes off a row in progress by a back-off, the    *)
(* one before it went that way too (LastNameFollowsALoser).                *)
(***************************************************************************)
EXTENDS RowClaim, FiniteSetTheorems, TLAPS

NamedWhileClaiming ==
  \A s \in Sessions :
    pc[s] \in {"unready", "verify", "back off", "record"} => s \in names

HoldersAreNamed ==
  /\ holds \subseteq names
  /\ \A s \in holds : pc[s] # "back off"

(* A session about to back off has been told for whom.                     *)
BackingOffForSomeone ==
  \A s \in Sessions : pc[s] = "back off" => lostTo[s] # {}

(* A decline that reached its edit has removed the tree its session made,  *)
(* or found that its session's claim is not the one recorded.              *)
ClearedBeforeEdit ==
  \A s \in Sessions :
    /\ pc[s] = "read record" => "worktree" \notin mode[s]
    /\ pc[s] = "clear" => "worktree" \in mode[s]
    /\ pc[s] = "edit off" => IF "worktree" \in mode[s] THEN tree # s ELSE record # s

ClaimInv ==
  /\ TypeOK
  /\ NamedWhileClaiming
  /\ HoldersAreNamed
  /\ OneHolder

WorkInv ==
  /\ BackingOffForSomeone
  /\ ClearedBeforeEdit
  /\ DirtyWorkStaysClaimed

-----------------------------------------------------------------------------
LEMMA InitTyped == Init => TypeOK
<1> SUFFICES ASSUME Init PROVE TypeOK
  OBVIOUS
<1>1. row \subseteq Marks
  BY DEF Init, Marks
<1>2. /\ pc \in [Sessions -> {"idle"} \cup Claiming \cup Declining]
      /\ mode \in [Sessions -> SUBSET Flags]
      /\ seen \in [Sessions -> SUBSET Marks]
      /\ lostTo \in [Sessions -> SUBSET Sessions]
  BY DEF Init
<1>3. commands \in 0 .. MaxCommands /\ throws \in 0 .. MaxThrows
  BY BoundsAssumption DEF Init
<1>4. QED
  BY <1>1, <1>2, <1>3 DEF Init, TypeOK

(* A new command is a typed place, set of flags and count.                 *)
LEMMA CommandTyped ==
  ASSUME TypeOK, NEW s \in Sessions, NEW flags \in SUBSET Flags,
         NEW place \in Claiming \cup Declining, Command(s, flags, place)
  PROVE  /\ pc' \in [Sessions -> {"idle"} \cup Claiming \cup Declining]
         /\ mode' \in [Sessions -> SUBSET Flags]
         /\ commands' \in 0 .. MaxCommands
<1>1. commands' \in 0 .. MaxCommands
  BY BoundsAssumption DEF Command, TypeOK
<1>2. pc' \in [Sessions -> {"idle"} \cup Claiming \cup Declining]
  BY DEF Command, Goto, TypeOK
<1>3. mode' \in [Sessions -> SUBSET Flags]
  BY DEF Command, TypeOK
<1>4. QED
  BY <1>1, <1>2, <1>3

LEMMA EndTyped ==
  ASSUME TypeOK, NEW s \in Sessions, End(s)
  PROVE  /\ pc' \in [Sessions -> {"idle"} \cup Claiming \cup Declining]
         /\ mode' \in [Sessions -> SUBSET Flags]
         /\ seen' \in [Sessions -> SUBSET Marks]
BY DEF End, Goto, TypeOK

LEMMA ClaimTyped ==
  ASSUME TypeOK, NEW s \in Sessions, Claim(s)
  PROVE  TypeOK'
<1> USE SessionsAssumption, BoundsAssumption
        DEF TypeOK, Claiming, Declining, Flags, Goto, End
<1>1. CASE Dispatch(s)
  <2>1. {} \in SUBSET Flags /\ "decide" \in Claiming
    OBVIOUS
  <2>2. Command(s, {}, "decide")
    BY <1>1 DEF Dispatch
  <2>3. QED
    BY <1>1, <2>1, <2>2, CommandTyped DEF Dispatch
<1>2. CASE ClaimRow(s)
  <2>1. {"started"} \in SUBSET Flags /\ {"started", "worktree"} \in SUBSET Flags
    OBVIOUS
  <2>2. "decide" \in Claiming /\ "create" \in Claiming
    OBVIOUS
  <2>3. \/ Command(s, {"started"}, "decide")
        \/ Command(s, {"started", "worktree"}, "create")
    BY <1>2 DEF ClaimRow
  <2>4. QED
    BY <1>2, <2>1, <2>2, <2>3, CommandTyped DEF ClaimRow
<1>3. CASE CreateWorktree(s)
  BY <1>3 DEF CreateWorktree
<1>4. CASE Decided(s)
  BY <1>4 DEF Decided, Marks
<1>5. CASE Refused(s)
  BY <1>5 DEF Refused, GiveUp
<1>6. CASE AddLabels(s)
  <2>1. row' \subseteq Marks
    BY <1>6 DEF AddLabels, Marks
  <2>2. QED
    BY <1>6, <2>1 DEF AddLabels
<1>7. CASE RemoveReady(s)
  BY <1>7 DEF RemoveReady
<1>8. CASE Verify(s)
  <2>1. holds' \subseteq Sessions
    BY <1>8 DEF Verify
  <2>5. {} \in SUBSET Sessions /\ names \ {s} \in SUBSET Sessions
    OBVIOUS
  <2>6. PICK L \in SUBSET Sessions : lostTo' = [lostTo EXCEPT ![s] = L]
    BY <1>8, <2>5 DEF Verify
  <2>7. lostTo' \in [Sessions -> SUBSET Sessions]
    BY <2>6
  <2>9. PICK place \in {"idle", "record", "back off"} : pc' = [pc EXCEPT ![s] = place]
    BY <1>8 DEF Verify
  <2>2. pc' \in [Sessions -> {"idle"} \cup Claiming \cup Declining]
    BY <2>9
  <2>8. \/ UNCHANGED <<mode, seen>>
        \/ mode' = [mode EXCEPT ![s] = {}] /\ seen' = [seen EXCEPT ![s] = {}]
    BY <1>8 DEF Verify
  <2>3. mode' \in [Sessions -> SUBSET Flags] /\ seen' \in [Sessions -> SUBSET Marks]
    BY <2>8
  <2>4. QED
    BY <1>8, <2>1, <2>2, <2>3, <2>7 DEF Verify
<1>9. CASE BackOff(s)
  BY <1>9 DEF BackOff, GiveUp
<1>10. CASE UndoCreatedWorktree(s)
  BY <1>10 DEF UndoCreatedWorktree
<1>11. CASE PostClaimRecord(s)
  BY <1>11 DEF PostClaimRecord
<1>12. QED
  BY <1>1, <1>2, <1>3, <1>4, <1>5, <1>6, <1>7, <1>8, <1>9, <1>10, <1>11 DEF Claim

LEMMA DeclineTyped ==
  ASSUME TypeOK, NEW s \in Sessions, Decline(s)
  PROVE  TypeOK'
<1> USE SessionsAssumption, BoundsAssumption
        DEF TypeOK, Claiming, Declining, Flags, Goto, End
<1>1. CASE DeclineRow(s)
  <2>1. PICK reason \in {{}, {"blocked"}} : Command(s, reason, "read record")
    BY <1>1 DEF DeclineRow
  <2>2. seen' \in [Sessions -> SUBSET Marks]
    BY <1>1 DEF DeclineRow
  <2>3. reason \in SUBSET Flags /\ "read record" \in Declining
    OBVIOUS
  <2>4. QED
    BY <1>1, <2>1, <2>2, <2>3, CommandTyped DEF DeclineRow
<1>2. CASE ReadRecord(s)
  <2>1. mode[s] \cup {"worktree"} \in SUBSET Flags
    OBVIOUS
  <2>3. mode' \in [Sessions -> SUBSET Flags]
    BY <1>2, <2>1 DEF ReadRecord
  <2>2. QED
    BY <1>2, <2>3 DEF ReadRecord
<1>3. CASE RemoveClaimedWorktree(s)
  BY <1>3 DEF RemoveClaimedWorktree
<1>4. CASE EditOff(s)
  BY <1>4 DEF EditOff
<1>5. CASE EditOn(s)
  <2>1. row' \subseteq Marks
    BY <1>5 DEF EditOn, DeclineAddLabels, Marks
  <2>2. QED
    BY <1>5, <2>1 DEF EditOn
<1>6. CASE PostReleaseRecord(s)
  BY <1>6 DEF PostReleaseRecord
<1>7. QED
  BY <1>1, <1>2, <1>3, <1>4, <1>5, <1>6 DEF Decline

LEMMA NextTyped ==
  ASSUME TypeOK, [Next]_vars
  PROVE  TypeOK'
<1> USE SessionsAssumption, BoundsAssumption
<1>1. CASE \E s \in Sessions : Claim(s)
  BY <1>1, ClaimTyped
<1>2. CASE \E s \in Sessions : Decline(s)
  BY <1>2, DeclineTyped
<1>3. CASE \E s \in Sessions : Throws(s)
  <2>1. PICK s \in Sessions : Throws(s)
    BY <1>3
  <2>2. throws' \in 0 .. MaxThrows
    BY <2>1 DEF Throws, TypeOK
  <2>3. QED
    BY <2>1, <2>2, EndTyped DEF Throws, TypeOK
<1>4. CASE \E s \in Sessions : Work(s)
  BY <1>4 DEF Work, TypeOK
<1>5. CASE CloseRow
  <2>1. row' \subseteq Marks
    BY <1>5 DEF CloseRow, TypeOK, Marks
  <2>2. QED
    BY <1>5, <2>1 DEF CloseRow, TypeOK
<1>6. CASE UNCHANGED vars
  BY <1>6 DEF vars, TypeOK
<1>7. QED
  BY <1>1, <1>2, <1>3, <1>4, <1>5, <1>6 DEF Next
-----------------------------------------------------------------------------
(* One step keeps a session's name where it must be, and the holder alone. *)
LEMMA NextHeld ==
  ASSUME ClaimInv, [Next]_vars
  PROVE  NamedWhileClaiming' /\ HoldersAreNamed' /\ OneHolder'
<1> USE DEF ClaimInv, NamedWhileClaiming, HoldersAreNamed, OneHolder, TypeOK, Goto, End
<1>1. ASSUME NEW s \in Sessions, Claim(s)
      PROVE  NamedWhileClaiming' /\ HoldersAreNamed' /\ OneHolder'
  <2>1. CASE Dispatch(s)
    BY <2>1 DEF Dispatch, Command
  <2>2. CASE ClaimRow(s)
    BY <2>2 DEF ClaimRow, Command
  <2>3. CASE CreateWorktree(s)
    BY <2>3 DEF CreateWorktree
  <2>4. CASE Decided(s)
    BY <2>4 DEF Decided
  <2>5. CASE Refused(s)
    BY <2>5 DEF Refused, GiveUp
  <2>6. CASE AddLabels(s)
    BY <2>6 DEF AddLabels
  <2>7. CASE RemoveReady(s)
    BY <2>7 DEF RemoveReady
  <2>8. CASE Verify(s)
    <3>1. s \in names
      BY <2>8 DEF Verify
    <3>2. CASE names \ {s} = {}
      <4>1. holds' = {s}
        BY <2>8, <3>1, <3>2 DEF Verify
      <4>2. /\ pc' = [pc EXCEPT ![s] = IF "worktree" \in mode[s] THEN "record" ELSE "idle"]
            /\ names' = names
        BY <2>8, <3>2 DEF Verify
      <4>3. NamedWhileClaiming'
        BY <3>1, <4>2
      <4>4. HoldersAreNamed' /\ OneHolder'
        BY <3>1, <4>1, <4>2
      <4>5. QED
        BY <4>3, <4>4
    <3>3. CASE names \ {s} # {}
      BY <2>8, <3>1, <3>3 DEF Verify
    <3>4. QED
      BY <3>2, <3>3
  <2>9. CASE BackOff(s)
    BY <2>9 DEF BackOff, GiveUp
  <2>10. CASE UndoCreatedWorktree(s)
    BY <2>10 DEF UndoCreatedWorktree
  <2>11. CASE PostClaimRecord(s)
    BY <2>11 DEF PostClaimRecord
  <2>12. QED
    BY <1>1, <2>1, <2>2, <2>3, <2>4, <2>5, <2>6, <2>7, <2>8, <2>9, <2>10, <2>11 DEF Claim
<1>2. ASSUME NEW s \in Sessions, Decline(s)
      PROVE  NamedWhileClaiming' /\ HoldersAreNamed' /\ OneHolder'
  <2>1. CASE DeclineRow(s)
    BY <2>1 DEF DeclineRow, Command
  <2>2. CASE ReadRecord(s)
    BY <2>2 DEF ReadRecord
  <2>3. CASE RemoveClaimedWorktree(s)
    BY <2>3 DEF RemoveClaimedWorktree
  <2>4. CASE EditOff(s)
    BY <2>4 DEF EditOff
  <2>5. CASE EditOn(s)
    BY <2>5 DEF EditOn
  <2>6. CASE PostReleaseRecord(s)
    BY <2>6 DEF PostReleaseRecord
  <2>7. QED
    BY <1>2, <2>1, <2>2, <2>3, <2>4, <2>5, <2>6 DEF Decline
<1>3. ASSUME NEW s \in Sessions, Throws(s) \/ Work(s)
      PROVE  NamedWhileClaiming' /\ HoldersAreNamed' /\ OneHolder'
  BY <1>3 DEF Throws, Work
<1>4. CASE CloseRow
  BY <1>4 DEF CloseRow
<1>5. CASE UNCHANGED vars
  BY <1>5 DEF vars
<1>6. QED
  BY <1>1, <1>2, <1>3, <1>4, <1>5 DEF Next

LEMMA InitClaim == Init => ClaimInv
<1> SUFFICES ASSUME Init PROVE ClaimInv
  OBVIOUS
<1>1. TypeOK
  BY InitTyped
<1>2. NamedWhileClaiming /\ HoldersAreNamed /\ OneHolder
  BY DEF Init, NamedWhileClaiming, HoldersAreNamed, OneHolder
<1>3. QED
  BY <1>1, <1>2 DEF ClaimInv

LEMMA NextClaim ==
  ASSUME ClaimInv, [Next]_vars
  PROVE  ClaimInv'
BY NextTyped, NextHeld DEF ClaimInv

LEMMA ClaimInvariant == Spec => []ClaimInv
BY InitClaim, NextClaim, PTL DEF Spec

(* Every reachable state of a row and its sessions is of the declared      *)
(* types, and work only ever is in a worktree that is there.               *)
THEOREM RowTypeCorrect == Spec => []TypeOK
<1>1. ClaimInv => TypeOK
  BY DEF ClaimInv
<1>2. QED
  BY <1>1, ClaimInvariant, PTL

(* No two sessions ever both hold the row (writeRowLabels, declineRow).    *)
THEOREM NeverPulledTwice == Spec => []OneHolder
<1>1. ClaimInv => OneHolder
  BY DEF ClaimInv
<1>2. QED
  BY <1>1, ClaimInvariant, PTL

(* What a step of a session leaves alone of the others' claims.            *)
LEMMA OthersAsk ==
  ASSUME TypeOK, NEW s \in Sessions,
         Claim(s) \/ Decline(s) \/ Throws(s) \/ Work(s)
  PROVE  Asking' \ {s} = Asking \ {s}
<1>1. \A t \in Sessions \ {s} : pc'[t] = pc[t]
  <2>1. pc' = pc \/ \E place : pc' = [pc EXCEPT ![s] = place]
    BY DEF Claim, Decline, Throws, Work, Dispatch, ClaimRow, CreateWorktree, Decided, Refused,
           AddLabels, RemoveReady, Verify, BackOff, UndoCreatedWorktree, PostClaimRecord,
           DeclineRow, ReadRecord, RemoveClaimedWorktree, EditOff, EditOn, PostReleaseRecord,
           Command, Goto, End, GiveUp
  <2>2. QED
    BY <2>1 DEF TypeOK
<1>2. QED
  BY <1>1 DEF Asking

(* Every step of the sessions is one the lock allows: nobody's command     *)
(* takes another's name off, or a hold, and a hold is lost only by its     *)
(* session's decline or second claim.                                      *)
THEOREM ClaimsAreALock == Spec => ImplementsLock
<1>1. Init => Lock!Init
  BY DEF Init, Lock!Init, Asking, Claiming
<1>2. ASSUME ClaimInv, [Next]_vars
      PROVE  [Lock!Next]_<<holds, names, Asking>>
  <2>0. TypeOK /\ holds \subseteq names /\ names \subseteq Sessions
    BY <1>2 DEF ClaimInv, HoldersAreNamed, TypeOK
  <2>1. ASSUME NEW s \in Sessions, Asking' \ {s} = Asking \ {s},
               \/ Lock!PutUp(s) \/ Lock!Take(s) \/ Lock!Yield(s)
               \/ Lock!TakeDown(s) \/ Lock!Decline(s)
               \/ UNCHANGED <<holds, names>>
        PROVE  Lock!Next
    BY <2>1 DEF Lock!Next
  <2>2. ASSUME NEW s \in Sessions, Verify(s)
        PROVE  Lock!Take(s) \/ Lock!Yield(s) \/ UNCHANGED <<holds, names>>
    <3>1. s \in names /\ names' = names
      BY <1>2, <2>2 DEF Verify, ClaimInv, NamedWhileClaiming
    <3>2. s \in Asking
      BY <2>2 DEF Verify, Asking, Claiming
    <3>3. CASE names \ {s} = {}
      <4>1. names = {s} /\ holds' = {s} /\ (holds = {} \/ holds = {s})
        BY <2>0, <2>2, <3>1, <3>3 DEF Verify
      <4>2. QED
        BY <3>1, <3>2, <4>1 DEF Lock!Take
    <3>4. CASE names \ {s} # {}
      <4>1. holds' = holds \ {s}
        BY <2>2, <3>4 DEF Verify
      <4>2. QED
        BY <3>1, <3>2, <3>4, <4>1 DEF Lock!Yield
    <3>5. QED
      BY <3>3, <3>4
  <2>3. ASSUME NEW s \in Sessions, BackOff(s)
        PROVE  Lock!TakeDown(s)
    BY <1>2, <2>3 DEF BackOff, ClaimInv, HoldersAreNamed, Lock!TakeDown
  <2>4. ASSUME NEW s \in Sessions, EditOff(s)
        PROVE  Lock!Decline(s) \/ Lock!TakeDown(s)
    <3>1. s \notin Asking
      BY <2>4 DEF EditOff, Asking, Claiming
    <3>2. names' = names \ {s} /\ holds' = holds \ {s}
      BY <2>4 DEF EditOff
    <3>3. QED
      BY <3>1, <3>2 DEF Lock!Decline, Lock!TakeDown
  <2>5. ASSUME NEW s \in Sessions, AddLabels(s)
        PROVE  Lock!PutUp(s)
    BY <2>5 DEF AddLabels, Asking, Claiming, Lock!PutUp
  <2>6. ASSUME NEW s \in Sessions, Claim(s), ~Verify(s), ~BackOff(s), ~AddLabels(s)
        PROVE  UNCHANGED <<holds, names>>
    BY <2>6 DEF Claim, Dispatch, ClaimRow, CreateWorktree, Decided, Refused,
                RemoveReady, UndoCreatedWorktree, PostClaimRecord
  <2>7. ASSUME NEW s \in Sessions, Decline(s), ~EditOff(s)
        PROVE  UNCHANGED <<holds, names>>
    BY <2>7 DEF Decline, DeclineRow, ReadRecord, RemoveClaimedWorktree, EditOn,
                PostReleaseRecord
  <2>8. ASSUME NEW s \in Sessions, Throws(s) \/ Work(s)
        PROVE  UNCHANGED <<holds, names>>
    BY <2>8 DEF Throws, Work
  <2>9. CASE CloseRow \/ UNCHANGED vars
    BY <2>9 DEF CloseRow, vars, Asking
  <2>10. ASSUME NEW s \in Sessions, Claim(s) \/ Decline(s) \/ Throws(s) \/ Work(s)
         PROVE  Lock!Next
    <3>1. Asking' \ {s} = Asking \ {s}
      BY <2>0, <2>10, OthersAsk
    <3>2. \/ Lock!PutUp(s) \/ Lock!Take(s) \/ Lock!Yield(s)
          \/ Lock!TakeDown(s) \/ Lock!Decline(s)
          \/ UNCHANGED <<holds, names>>
      BY <2>2, <2>3, <2>4, <2>5, <2>6, <2>7, <2>8, <2>10
    <3>3. QED
      BY <2>1, <3>1, <3>2
  <2>11. QED
    BY <1>2, <2>9, <2>10 DEF Next
<1>3. QED
  BY <1>1, <1>2, ClaimInvariant, PTL DEF Spec, ImplementsLock, Lock!Spec, Lock!lockVars

-----------------------------------------------------------------------------
(* The steps that could leave dirty work without a claim.                  *)
LEMMA ClaimKeepsWork ==
  ASSUME ClaimInv, WorkInv, NEW s \in Sessions, Claim(s)
  PROVE  WorkInv'
<1> USE SessionsAssumption
        DEF ClaimInv, TypeOK, NamedWhileClaiming, WorkInv, BackingOffForSomeone, ClearedBeforeEdit,
            DirtyWorkStaysClaimed, Goto, End
<1>1. CASE Dispatch(s)
  BY <1>1 DEF Dispatch, Command
<1>2. CASE ClaimRow(s)
  BY <1>2 DEF ClaimRow, Command
<1>3. CASE CreateWorktree(s)
  <2>1. BackingOffForSomeone'
    BY <1>3 DEF CreateWorktree
  <2>2. ClearedBeforeEdit'
    <3>1. /\ pc'[s] \in {"decide", "idle"}
          /\ \A t \in Sessions \ {s} : pc'[t] = pc[t] /\ mode'[t] = mode[t]
      BY <1>3 DEF CreateWorktree
    <3>2. tree' \in {tree, s} /\ record' = record
      BY <1>3 DEF CreateWorktree
    <3>3. QED
      BY <3>1, <3>2
  <2>3. DirtyWorkStaysClaimed'
    BY <1>3 DEF CreateWorktree
  <2>4. QED
    BY <2>1, <2>2, <2>3
<1>4. CASE Decided(s)
  BY <1>4 DEF Decided
<1>5. CASE Refused(s)
  BY <1>5 DEF Refused, GiveUp
<1>6. CASE AddLabels(s)
  BY <1>6 DEF AddLabels
<1>7. CASE RemoveReady(s)
  BY <1>7 DEF RemoveReady
<1>8. CASE Verify(s)
  <2>1. s \in names /\ names' = names
    BY <1>8 DEF Verify
  <2>2. BackingOffForSomeone'
    BY <1>8 DEF Verify
  <2>3. PICK p \in {"idle", "record", "back off"} : pc' = [pc EXCEPT ![s] = p]
    BY <1>8 DEF Verify
  <2>6. /\ tree' = tree /\ record' = record
        /\ mode' = mode \/ mode' = [mode EXCEPT ![s] = {}]
    BY <1>8 DEF Verify
  <2>7. ClearedBeforeEdit'
    BY <2>3, <2>6
  <2>4. DirtyWorkStaysClaimed'
    BY <1>8, <2>1 DEF Verify
  <2>5. QED
    BY <2>2, <2>7, <2>4
<1>9. CASE BackOff(s)
  BY <1>9 DEF BackOff, GiveUp
<1>10. CASE UndoCreatedWorktree(s)
  BY <1>10 DEF UndoCreatedWorktree
<1>11. CASE PostClaimRecord(s)
  BY <1>11 DEF PostClaimRecord
<1>12. QED
  BY <1>1, <1>2, <1>3, <1>4, <1>5, <1>6, <1>7, <1>8, <1>9, <1>10, <1>11 DEF Claim

LEMMA DeclineKeepsWork ==
  ASSUME ClaimInv, WorkInv, NEW s \in Sessions, Decline(s)
  PROVE  WorkInv'
<1> USE SessionsAssumption
        DEF ClaimInv, TypeOK, WorkInv, BackingOffForSomeone, ClearedBeforeEdit,
            DirtyWorkStaysClaimed, Goto, End
<1>1. CASE DeclineRow(s)
  <2>1. BackingOffForSomeone'
    BY <1>1 DEF DeclineRow, Command
  <2>2. ClearedBeforeEdit'
    <3>1. PICK reason \in {{}, {"blocked"}} : Command(s, reason, "read record")
      BY <1>1 DEF DeclineRow
    <3>2. /\ pc' = [pc EXCEPT ![s] = "read record"]
          /\ mode' = [mode EXCEPT ![s] = reason]
          /\ tree' = tree /\ record' = record
      BY <1>1, <3>1 DEF DeclineRow, Command
    <3>3. QED
      BY <3>2
  <2>3. DirtyWorkStaysClaimed'
    BY <1>1 DEF DeclineRow, Command
  <2>4. QED
    BY <2>1, <2>2, <2>3
<1>2. CASE ReadRecord(s)
  <2>1. BackingOffForSomeone'
    BY <1>2 DEF ReadRecord
  <2>2. ClearedBeforeEdit'
    <3>1. CASE record \in Sessions
      <4>1. /\ pc' = [pc EXCEPT ![s] = "clear"]
            /\ mode' = [mode EXCEPT ![s] = @ \cup {"worktree"}]
            /\ tree' = tree /\ record' = record
        BY <1>2, <3>1 DEF ReadRecord
      <4>2. QED
        BY <4>1
    <3>2. CASE record \notin Sessions
      <4>1. /\ pc[s] = "read record"
            /\ pc' = [pc EXCEPT ![s] = "edit off"]
            /\ mode' = mode /\ tree' = tree /\ record' = record
        BY <1>2, <3>2 DEF ReadRecord
      <4>2. QED
        BY <3>2, <4>1
    <3>3. QED
      BY <3>1, <3>2
  <2>3. DirtyWorkStaysClaimed'
    BY <1>2 DEF ReadRecord
  <2>4. QED
    BY <2>1, <2>2, <2>3
<1>3. CASE RemoveClaimedWorktree(s)
  <2>1. BackingOffForSomeone'
    BY <1>3 DEF RemoveClaimedWorktree
  <2>2. ClearedBeforeEdit'
    <3>1. CASE dirty
      <4>1. /\ pc' = [pc EXCEPT ![s] = "idle"]
            /\ mode' = [mode EXCEPT ![s] = {}]
            /\ tree' = tree /\ record' = record
        BY <1>3, <3>1 DEF RemoveClaimedWorktree
      <4>2. QED
        BY <4>1
    <3>2. CASE ~dirty
      <4>1. /\ pc' = [pc EXCEPT ![s] = "edit off"]
            /\ mode' = mode /\ tree' = None /\ record' = record
        BY <1>3, <3>2 DEF RemoveClaimedWorktree
      <4>2. \A t \in Sessions : tree' # t
        BY <4>1
      <4>3. QED
        BY <1>3, <4>1, <4>2 DEF RemoveClaimedWorktree
    <3>3. QED
      BY <3>1, <3>2
  <2>3. DirtyWorkStaysClaimed'
    BY <1>3 DEF RemoveClaimedWorktree
  <2>4. QED
    BY <2>1, <2>2, <2>3
<1>4. CASE EditOff(s)
  BY <1>4 DEF EditOff
<1>5. CASE EditOn(s)
  BY <1>5 DEF EditOn
<1>6. CASE PostReleaseRecord(s)
  BY <1>6 DEF PostReleaseRecord
<1>7. QED
  BY <1>1, <1>2, <1>3, <1>4, <1>5, <1>6 DEF Decline

LEMMA NextKeepsWork ==
  ASSUME ClaimInv, WorkInv, [Next]_vars
  PROVE  WorkInv'
<1> USE SessionsAssumption
        DEF ClaimInv, TypeOK, HoldersAreNamed, WorkInv, BackingOffForSomeone,
            ClearedBeforeEdit, DirtyWorkStaysClaimed
<1>1. ASSUME NEW s \in Sessions, Throws(s)
      PROVE  WorkInv'
  BY <1>1 DEF Throws, End, Goto
<1>2. ASSUME NEW s \in Sessions, Work(s)
      PROVE  WorkInv'
  BY <1>2 DEF Work
<1>3. CASE CloseRow
  BY <1>3 DEF CloseRow
<1>4. CASE UNCHANGED vars
  BY <1>4 DEF vars
<1>5. QED
  BY <1>1, <1>2, <1>3, <1>4, ClaimKeepsWork, DeclineKeepsWork DEF Next

(* No decline, death or race releases a row over work git would lose, the  *)
(* session told that it lost the row excepted (releaseRow).                *)
THEOREM NoWorkIsOrphaned == Spec => []DirtyWorkStaysClaimed
<1>1. Init => WorkInv
  BY DEF Init, WorkInv, BackingOffForSomeone, ClearedBeforeEdit, DirtyWorkStaysClaimed
<1>2. ClaimInv /\ WorkInv /\ [Next]_vars => WorkInv'
  BY NextKeepsWork
<1>3. WorkInv => DirtyWorkStaysClaimed
  BY DEF WorkInv
<1>4. QED
  BY <1>1, <1>2, <1>3, ClaimInvariant, PTL DEF Spec
-----------------------------------------------------------------------------
(* The sessions that backed off last time they verified.                   *)
Losers == {s \in Sessions : lostTo[s] # {}}

(* When the last name on a row is about to come off, the session whose     *)
(* name went before it backed off too: a decline would have taken          *)
(* in-progress with its name.                                              *)
LastNameFollowsALoser ==
  \A t \in Sessions :
    "in-progress" \in row /\ names = {t} /\ pc[t] = "back off" => Losers \ {t} # {}

StrandInv ==
  /\ BackingOffForSomeone
  /\ IsFiniteSet(Losers)
  /\ LastNameFollowsALoser
  /\ StrandedTakesTwo

(* Two of them in a finite set make it larger than one.                    *)
LEMMA TwoAreMany ==
  ASSUME NEW S, IsFiniteSet(S), NEW a \in S, NEW b \in S, a # b
  PROVE  Cardinality(S) > 1
<1>1. IsFiniteSet({a, b}) /\ Cardinality({a, b}) = 2
  <2>1. IsFiniteSet({a}) /\ Cardinality({a}) = 1
    BY FS_Singleton
  <2>2. IsFiniteSet({a} \cup {b}) /\ Cardinality({a} \cup {b}) = Cardinality({a}) + 1
    BY <2>1, FS_AddElement
  <2>3. {a} \cup {b} = {a, b}
    OBVIOUS
  <2>4. QED
    BY <2>1, <2>2, <2>3
<1>2. {a, b} \subseteq S
  OBVIOUS
<1>3. Cardinality({a, b}) \leq Cardinality(S) /\ Cardinality(S) \in Nat
  BY <1>2, FS_Subset, FS_CardinalityType
<1>4. QED
  BY <1>1, <1>3

(* What every call but four leaves alone.                                  *)
StrandKept ==
  /\ names' = names /\ lostTo' = lostTo
  /\ "in-progress" \in row' => "in-progress" \in row
  /\ \A t \in Sessions : pc'[t] = "back off" => pc[t] = "back off"

LEMMA OtherStepsKeep ==
  ASSUME TypeOK, [Next]_vars
  PROVE  \/ StrandKept
         \/ \E s \in Sessions : AddLabels(s) \/ Verify(s) \/ BackOff(s) \/ EditOff(s)
<1> USE DEF StrandKept, TypeOK, Goto, End
<1>1. ASSUME NEW s \in Sessions, Claim(s)
      PROVE  StrandKept \/ AddLabels(s) \/ Verify(s) \/ BackOff(s)
  <2>1. CASE Dispatch(s) \/ ClaimRow(s)
    BY <2>1 DEF Dispatch, ClaimRow, Command
  <2>2. CASE CreateWorktree(s) \/ Decided(s)
    BY <2>2 DEF CreateWorktree, Decided
  <2>3. CASE Refused(s)
    BY <2>3 DEF Refused, GiveUp
  <2>4. CASE RemoveReady(s)
    BY <2>4 DEF RemoveReady
  <2>5. CASE UndoCreatedWorktree(s) \/ PostClaimRecord(s)
    BY <2>5 DEF UndoCreatedWorktree, PostClaimRecord
  <2>6. QED
    BY <1>1, <2>1, <2>2, <2>3, <2>4, <2>5 DEF Claim
<1>2. ASSUME NEW s \in Sessions, Decline(s)
      PROVE  StrandKept \/ EditOff(s)
  <2>1. CASE DeclineRow(s)
    BY <2>1 DEF DeclineRow, Command
  <2>2. CASE ReadRecord(s) \/ RemoveClaimedWorktree(s)
    BY <2>2 DEF ReadRecord, RemoveClaimedWorktree
  <2>3. CASE EditOn(s)
    BY <2>3 DEF EditOn, DeclineAddLabels
  <2>4. CASE PostReleaseRecord(s)
    BY <2>4 DEF PostReleaseRecord
  <2>5. QED
    BY <1>2, <2>1, <2>2, <2>3, <2>4 DEF Decline
<1>3. ASSUME NEW s \in Sessions, Throws(s) \/ Work(s)
      PROVE  StrandKept
  BY <1>3 DEF Throws, Work
<1>4. ASSUME CloseRow PROVE StrandKept
  BY <1>4 DEF CloseRow
<1>5. ASSUME UNCHANGED vars PROVE StrandKept
  BY <1>5 DEF vars
<1>6. QED
  BY <1>1, <1>2, <1>3, <1>4, <1>5 DEF Next

(* A verify can only clear its own session's loss, and only when that      *)
(* session's name is the one on the row.                                   *)
LEMMA NextKeepsStrand ==
  ASSUME ClaimInv, StrandInv, BackingOffForSomeone', [Next]_vars
  PROVE  StrandInv'
<1> USE DEF ClaimInv, TypeOK
<1> SUFFICES /\ IsFiniteSet(Losers)'
             /\ LastNameFollowsALoser'
             /\ Stranded' => \E a, b \in Losers' : a # b
  <2>1. ASSUME IsFiniteSet(Losers)', Stranded', \E a, b \in Losers' : a # b
        PROVE  (Cardinality(Losers) > 1)'
    <3>1. PICK a \in Losers', b \in Losers' : a # b
      BY <2>1
    <3>2. QED
      BY <2>1, <3>1, TwoAreMany
  <2>2. QED
    BY <2>1 DEF StrandInv, StrandedTakesTwo, Losers
<1>1. Stranded => \E a, b \in Losers : a # b
  <2>1. ASSUME Stranded, \A a, b \in Losers : a = b
        PROVE  FALSE
    <3>1. Cardinality(Losers) > 1
      BY <2>1 DEF StrandInv, StrandedTakesTwo, Losers
    <3>2. CASE Losers = {}
      BY <3>1, <3>2, FS_EmptySet
    <3>3. CASE Losers # {}
      <4>1. PICK a \in Losers : TRUE
        BY <3>3
      <4>2. Losers = {a}
        BY <2>1, <4>1
      <4>3. QED
        <5>1. Cardinality(Losers) = 1
          BY <4>2, FS_Singleton
        <5>2. QED
          BY <3>1, <5>1
    <3>4. QED
      BY <3>2, <3>3
  <2>2. QED
    BY <2>1
<1>2. CASE StrandKept
  BY <1>1, <1>2 DEF StrandKept, StrandInv, LastNameFollowsALoser, Losers, Stranded
<1>3. ASSUME NEW s \in Sessions, AddLabels(s)
      PROVE  /\ IsFiniteSet(Losers)'
             /\ LastNameFollowsALoser'
             /\ Stranded' => \E a, b \in Losers' : a # b
  <2>1. Losers' = Losers /\ s \in names' /\ pc'[s] = "unready"
    BY <1>3 DEF AddLabels, Losers, Goto
  <2>2. QED
    BY <2>1 DEF StrandInv, LastNameFollowsALoser, Stranded
<1>4. ASSUME NEW s \in Sessions, Verify(s)
      PROVE  /\ IsFiniteSet(Losers)'
             /\ LastNameFollowsALoser'
             /\ Stranded' => \E a, b \in Losers' : a # b
  <2>1. s \in names /\ names' = names /\ row' = row
    BY <1>4 DEF Verify, NamedWhileClaiming
  <2>2. PICK L \in SUBSET Sessions : lostTo' = [lostTo EXCEPT ![s] = L]
    BY <1>4 DEF Verify
  <2>3. Losers' \subseteq Losers \cup {s} /\ Losers \ {s} \subseteq Losers'
    BY <2>2 DEF Losers
  <2>4. IsFiniteSet(Losers)'
    <3>1. IsFiniteSet(Losers \cup {s})
      BY FS_AddElement DEF StrandInv
    <3>2. QED
      BY <2>3, <3>1, FS_Subset
  <2>5. LastNameFollowsALoser'
    <3>1. SUFFICES ASSUME NEW t \in Sessions, names = {t}, pc'[t] = "back off"
                   PROVE  FALSE
      BY <2>1 DEF LastNameFollowsALoser
    <3>2. t = s
      BY <2>1, <3>1
    <3>3. pc'[s] # "back off"
      <4>1. names \ {s} = {}
        BY <3>1, <3>2
      <4>2. PICK place \in {"record", "idle"} : pc' = [pc EXCEPT ![s] = place]
        BY <1>4, <4>1 DEF Verify, Goto, End
      <4>3. QED
        BY <4>2
    <3>4. QED
      BY <3>1, <3>2, <3>3
  <2>6. ~Stranded'
    BY <2>1 DEF Stranded
  <2>7. QED
    BY <2>4, <2>5, <2>6
<1>5. ASSUME NEW s \in Sessions, BackOff(s)
      PROVE  /\ IsFiniteSet(Losers)'
             /\ LastNameFollowsALoser'
             /\ Stranded' => \E a, b \in Losers' : a # b
  <2>1. /\ Losers' = Losers /\ s \in Losers /\ s \in names
        /\ names' = names \ {s} /\ pc[s] = "back off"
        /\ "in-progress" \in row' => "in-progress" \in row
    BY <1>5 DEF BackOff, Losers, StrandInv, BackingOffForSomeone, NamedWhileClaiming
  <2>2. LastNameFollowsALoser'
    BY <2>1 DEF LastNameFollowsALoser
  <2>3. ASSUME Stranded'
        PROVE  \E a, b \in Losers' : a # b
    <3>1. names = {s} /\ "in-progress" \in row
      BY <2>1, <2>3 DEF Stranded
    <3>2. Losers \ {s} # {}
      BY <2>1, <3>1 DEF StrandInv, LastNameFollowsALoser
    <3>3. QED
      BY <2>1, <3>2
  <2>4. QED
    BY <2>1, <2>2, <2>3 DEF StrandInv
<1>6. ASSUME NEW s \in Sessions, EditOff(s)
      PROVE  /\ IsFiniteSet(Losers)'
             /\ LastNameFollowsALoser'
             /\ Stranded' => \E a, b \in Losers' : a # b
  <2>1. "in-progress" \notin row' /\ Losers' \subseteq Losers
    BY <1>6 DEF EditOff, DeclineRemoveLabels, Losers
  <2>2. IsFiniteSet(Losers)'
    BY <2>1, FS_Subset DEF StrandInv
  <2>3. QED
    BY <2>1, <2>2 DEF LastNameFollowsALoser, Stranded
<1>7. QED
  BY <1>2, <1>3, <1>4, <1>5, <1>6, OtherStepsKeep

(* No claim, decline or death of one command alone leaves a row that no    *)
(* command can take or give back (completeClaim, releaseRow).              *)
THEOREM StrandingTakesTwo == Spec => []StrandedTakesTwo
<1>1. Init => WorkInv /\ StrandInv
  <2>1. Init => Losers = {} /\ ~Stranded
    BY DEF Init, Losers, Stranded
  <2>2. Init => BackingOffForSomeone /\ LastNameFollowsALoser
    BY DEF Init, BackingOffForSomeone, LastNameFollowsALoser
  <2>3. Init => WorkInv
    BY DEF Init, WorkInv, BackingOffForSomeone, ClearedBeforeEdit, DirtyWorkStaysClaimed
  <2>4. QED
    BY <2>1, <2>2, <2>3, FS_EmptySet DEF StrandInv, StrandedTakesTwo
<1>2. ClaimInv /\ WorkInv /\ StrandInv /\ [Next]_vars => WorkInv' /\ StrandInv'
  BY NextKeepsWork, NextKeepsStrand DEF WorkInv
<1>3. StrandInv => StrandedTakesTwo
  BY DEF StrandInv
<1>4. QED
  BY <1>1, <1>2, <1>3, ClaimInvariant, PTL DEF Spec
=============================================================================
