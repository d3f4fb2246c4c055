------------------------- MODULE PullRequestProofs -------------------------
(***************************************************************************)
(* What a hold on a pull request guarantees, for any number of sessions,   *)
(* and below, what the decision to open one that reverts main does, for    *)
(* any number of runs.                                                     *)
(*                                                                         *)
(* A session claims the hold from the read-back that found its label       *)
(* alone.  Its label comes back only through a new take, which first       *)
(* forgets what the session was told (FreshTake); so two claims with their *)
(* labels up cannot meet.  Once the disarm has been read back and nobody   *)
(* is blind to the label, nobody is at an arming call, and nobody gets     *)
(* there while the label is up (Guarded).                                  *)
(***************************************************************************)
EXTENDS PrHold, TrunkRevert, TLAPS

Landed == {"was armed", "disarm", "read back", "mark", "done"}

Claims(s) == (told[s] = "held" \/ at[s] \in Landed) /\ s \in holders

FreshTake ==
  \A s \in Sessions : at[s] # "idle" => told[s] # "held"

OneClaim == \A s, t \in Sessions : Claims(s) /\ Claims(t) => s = t

(* Whatever may lead to an armed PR follows from an armer's arming.        *)
OnlyWanted ==
  /\ pr # "open" => wanted
  /\ rearm => wanted
  /\ \A s \in Sessions : wasArmed[s] => wanted
  /\ \A s \in Sessions : at[s] = "arm" => wanted
  /\ \A s \in Sessions : at[s] = "mark" => wasArmed[s]

Stands(s) == (told[s] = "held" \/ at[s] \in {"mark", "done"}) /\ s \in holders

Guarded ==
  \A s \in Sessions : Stands(s) /\ blind[s] = {} =>
    /\ pr = "open"
    /\ \A p \in Processes : at[p] \notin {"see", "arm"}

HoldInv == TypeOK /\ FreshTake /\ OneClaim /\ OnlyWanted /\ Guarded

-----------------------------------------------------------------------------
LEMMA ProcessFacts ==
  /\ Sessions \subseteq Processes
  /\ Armers \subseteq Processes
  /\ \A s \in Sessions : s \notin Armers
  /\ \A a \in Armers : a \notin Sessions
BY ArmersAssumption DEF Processes

(* A first read starts a take, or finds that there is nothing to do.       *)
LEMMA TakeHoldFacts ==
  ASSUME TypeOK, NEW s \in Sessions, TakeHold(s)
  PROVE  /\ at[s] = "idle"
         /\ \E p \in {"idle", "displace", "add"} : at' = [at EXCEPT ![s] = p]
         /\ \E v \in {"nothing", "held", "already held"} :
              /\ told' = [told EXCEPT ![s] = v]
              /\ v = "held" => told[s] = "held" /\ at' = at
         /\ UNCHANGED <<pr, holders, rearm, wasArmed, blind, wanted>>
<1> USE ProcessFacts DEF TypeOK, Goto
<1>1. CASE /\ Goto(s, "displace") \/ Goto(s, "add")
           /\ told' = [told EXCEPT ![s] = "nothing"]
  BY <1>1 DEF TakeHold
<1>2. CASE /\ told' = [told EXCEPT ![s] = IF @ = "held" THEN @ ELSE "already held"]
           /\ UNCHANGED at
  <2>1. at' = [at EXCEPT ![s] = "idle"]
    BY <1>2 DEF TakeHold
  <2>2. QED
    BY <1>2, <2>1 DEF TakeHold
<1>3. QED
  BY <1>1, <1>2 DEF TakeHold

LEMMA DisplaceFacts ==
  ASSUME TypeOK, NEW s \in Sessions, Displace(s)
  PROVE  /\ at[s] = "displace"
         /\ \E p \in {"displace", "add"} : at' = [at EXCEPT ![s] = p]
         /\ holders' \subseteq holders
         /\ UNCHANGED <<pr, rearm, wasArmed, told, blind, wanted>>
BY DEF Displace, Goto

LEMMA TakeTyped ==
  ASSUME TypeOK, NEW s \in Sessions, Take(s)
  PROVE  TypeOK'
<1> USE ProcessFacts DEF TypeOK, Taking, Releasing, Goto
<1>1. CASE TakeHold(s)
  <2>1. CASE /\ holders \ {s} # {}
             /\ displaces' = [displaces EXCEPT ![s] = holders \ {s}]
             /\ Goto(s, "displace")
             /\ told' = [told EXCEPT ![s] = "nothing"]
    BY <1>1, <2>1 DEF TakeHold
  <2>2. CASE /\ Goto(s, "add") /\ UNCHANGED displaces
             /\ told' = [told EXCEPT ![s] = "nothing"]
    BY <1>1, <2>2 DEF TakeHold
  <2>3. CASE /\ told' = [told EXCEPT ![s] = IF @ = "held" THEN @ ELSE "already held"]
             /\ UNCHANGED <<at, displaces>>
    BY <1>1, <2>3 DEF TakeHold
  <2>4. QED
    BY <1>1, <2>1, <2>2, <2>3 DEF TakeHold
<1>2. CASE Displace(s)
  <2>1. PICK t \in displaces[s] :
          /\ holders' = holders \ {t}
          /\ displaces' = [displaces EXCEPT ![s] = @ \ {t}]
          /\ Goto(s, IF displaces[s] = {t} THEN "add" ELSE "displace")
    BY <1>2 DEF Displace
  <2>2. at[s] = "displace" /\ displaces[s] \ {t} \in SUBSET Sessions
    BY <1>2 DEF Displace
  <2>3. displaces' \in [Sessions -> SUBSET Sessions]
    BY <2>1, <2>2
  <2>4. at' \in [Processes -> {"idle", "listed"} \cup Taking \cup Releasing]
    BY <2>1
  <2>5. \A a \in Armers : at'[a] = at[a]
    BY <2>1
  <2>8. displaces[s] \ {t} = {} <=> displaces[s] = {t}
    BY <2>1
  <2>9. at'[s] = "displace" <=> displaces'[s] # {}
    BY <2>1, <2>2, <2>8
  <2>6. \A r \in Sessions : at'[r] = "displace" <=> displaces'[r] # {}
    BY <2>1, <2>9
  <2>7. QED
    BY <1>2, <2>1, <2>3, <2>4, <2>5, <2>6 DEF Displace
<1>3. CASE AddLabel(s)
  BY <1>3 DEF AddLabel
<1>4. CASE HoldLanded(s)
  BY <1>4 DEF HoldLanded
<1>5. CASE ReadWasArmed(s)
  <2>1. PICK answer \in BOOLEAN : wasArmed' = [wasArmed EXCEPT ![s] = answer]
    BY <1>5 DEF ReadWasArmed, AutoMergeRequested
  <2>2. wasArmed' \in [Sessions -> BOOLEAN]
    BY <2>1
  <2>3. QED
    BY <1>5, <2>2 DEF ReadWasArmed
<1>6. CASE Disarm(s)
  BY <1>6 DEF Disarm, Disarmed
<1>7. CASE DisarmVerdict(s)
  BY <1>7 DEF DisarmVerdict, Unseeing
<1>8. CASE MarkForRearm(s)
  BY <1>8 DEF MarkForRearm
<1>9. CASE NowHeld(s)
  BY <1>9 DEF NowHeld
<1>10. QED
  BY <1>1, <1>2, <1>3, <1>4, <1>5, <1>6, <1>7, <1>8, <1>9 DEF Take

LEMMA ReleaseTyped ==
  ASSUME TypeOK, NEW s \in Sessions, Release(s) \/ Ends(s)
  PROVE  TypeOK'
<1> USE ProcessFacts DEF TypeOK, Taking, Releasing, Goto
<1>1. CASE ReleaseHold(s)
  BY <1>1 DEF ReleaseHold
<1>2. CASE TakeOffLabel(s)
  BY <1>2 DEF TakeOffLabel
<1>3. CASE SeeRearm(s)
  BY <1>3 DEF SeeRearm
<1>4. CASE RearmAfterRelease(s)
  BY <1>4 DEF RearmAfterRelease, Armed
<1>5. CASE ArmVerdict(s)
  BY <1>5 DEF ArmVerdict
<1>6. CASE UnmarkRearm(s)
  BY <1>6 DEF UnmarkRearm
<1>7. CASE Ends(s)
  BY <1>7 DEF Ends
<1>8. QED
  BY <1>1, <1>2, <1>3, <1>4, <1>5, <1>6, <1>7 DEF Release

LEMMA ArmersTyped ==
  ASSUME TypeOK,
         \/ ListCandidates
         \/ \E a \in Armers : ReadLabels(a) \/ Passes(a) \/ ArmMerge(a)
         \/ EnterQueue \/ Merge
         \/ UNCHANGED vars
  PROVE  TypeOK'
<1> USE ProcessFacts DEF TypeOK, Taking, Releasing, Goto
<1>1. CASE ListCandidates
  BY <1>1 DEF ListCandidates, Armers
<1>2. ASSUME NEW a \in Armers, ReadLabels(a)
      PROVE  TypeOK'
  BY <1>2 DEF ReadLabels
<1>3. ASSUME NEW a \in Armers, Passes(a)
      PROVE  TypeOK'
  BY <1>3 DEF Passes
<1>4. ASSUME NEW a \in Armers, ArmMerge(a)
      PROVE  TypeOK'
  BY <1>4 DEF ArmMerge, Armed
<1>5. CASE EnterQueue \/ Merge
  BY <1>5 DEF EnterQueue, Merge
<1>6. CASE UNCHANGED vars
  BY <1>6 DEF vars
<1>7. QED
  BY <1>1, <1>2, <1>3, <1>4, <1>5, <1>6

-----------------------------------------------------------------------------
(* One step keeps claims apart.                                            *)
LEMMA TakeClaims ==
  ASSUME HoldInv, NEW s \in Sessions, Take(s)
  PROVE  FreshTake' /\ OneClaim'
<1> USE ProcessFacts
        DEF HoldInv, TypeOK, Goto, FreshTake, OneClaim, Claims, Landed
<1>1. CASE TakeHold(s)
  <2>1. PICK p \in {"idle", "displace", "add"} : at' = [at EXCEPT ![s] = p]
    BY <1>1, TakeHoldFacts
  <2>2. PICK v \in {"nothing", "held", "already held"} :
          /\ told' = [told EXCEPT ![s] = v]
          /\ v = "held" => told[s] = "held" /\ at' = at
    BY <1>1, TakeHoldFacts
  <2>3. /\ at[s] = "idle"
        /\ UNCHANGED <<pr, holders, rearm, wasArmed, blind, wanted>>
    BY <1>1, TakeHoldFacts
  <2>4. QED
    BY <2>1, <2>2, <2>3
<1>2. CASE Displace(s)
  <2>1. PICK p \in {"displace", "add"} : at' = [at EXCEPT ![s] = p]
    BY <1>2, DisplaceFacts
  <2>2. /\ at[s] = "displace" /\ holders' \subseteq holders
        /\ UNCHANGED <<pr, rearm, wasArmed, told, blind, wanted>>
    BY <1>2, DisplaceFacts
  <2>3. QED
    BY <2>1, <2>2
<1>3. CASE AddLabel(s)
  BY <1>3 DEF AddLabel
<1>4. CASE HoldLanded(s)
  BY <1>4 DEF HoldLanded
<1>5. CASE ReadWasArmed(s)
  BY <1>5 DEF ReadWasArmed, AutoMergeRequested
<1>6. CASE Disarm(s)
  BY <1>6 DEF Disarm, Disarmed
<1>7. CASE DisarmVerdict(s)
  BY <1>7 DEF DisarmVerdict, AutoMergeRequested, Unseeing
<1>8. CASE MarkForRearm(s)
  BY <1>8 DEF MarkForRearm
<1>9. CASE NowHeld(s)
  BY <1>9 DEF NowHeld
<1>10. QED
  BY <1>1, <1>2, <1>3, <1>4, <1>5, <1>6, <1>7, <1>8, <1>9 DEF Take

LEMMA ReleaseClaims ==
  ASSUME HoldInv, NEW s \in Sessions, Release(s) \/ Ends(s)
  PROVE  FreshTake' /\ OneClaim'
<1> USE ProcessFacts
        DEF HoldInv, TypeOK, Goto, FreshTake, OneClaim, Claims, Landed
<1>1. CASE ReleaseHold(s)
  BY <1>1 DEF ReleaseHold
<1>2. CASE TakeOffLabel(s)
  BY <1>2 DEF TakeOffLabel
<1>3. CASE SeeRearm(s)
  BY <1>3 DEF SeeRearm
<1>4. CASE RearmAfterRelease(s)
  BY <1>4 DEF RearmAfterRelease, Armed
<1>5. CASE ArmVerdict(s)
  BY <1>5 DEF ArmVerdict
<1>6. CASE UnmarkRearm(s)
  BY <1>6 DEF UnmarkRearm
<1>7. CASE Ends(s)
  BY <1>7 DEF Ends
<1>8. QED
  BY <1>1, <1>2, <1>3, <1>4, <1>5, <1>6, <1>7 DEF Release

LEMMA OthersClaims ==
  ASSUME HoldInv,
         \/ ListCandidates
         \/ \E a \in Armers : ReadLabels(a) \/ Passes(a) \/ ArmMerge(a)
         \/ EnterQueue \/ Merge
         \/ UNCHANGED vars
  PROVE  FreshTake' /\ OneClaim'
<1> USE ProcessFacts
        DEF HoldInv, TypeOK, Goto, FreshTake, OneClaim, Claims, Landed
<1>1. CASE ListCandidates
  BY <1>1 DEF ListCandidates, Armers
<1>2. ASSUME NEW a \in Armers, ReadLabels(a)
      PROVE  FreshTake' /\ OneClaim'
  BY <1>2 DEF ReadLabels
<1>3. ASSUME NEW a \in Armers, Passes(a)
      PROVE  FreshTake' /\ OneClaim'
  BY <1>3 DEF Passes
<1>4. ASSUME NEW a \in Armers, ArmMerge(a)
      PROVE  FreshTake' /\ OneClaim'
  BY <1>4 DEF ArmMerge, Armed
<1>5. CASE EnterQueue \/ Merge
  BY <1>5 DEF EnterQueue, Merge
<1>6. CASE UNCHANGED vars
  BY <1>6 DEF vars
<1>7. QED
  BY <1>1, <1>2, <1>3, <1>4, <1>5, <1>6

(* One step arms nothing, and remembers no arming, that was not wanted.    *)
LEMMA TakeWanted ==
  ASSUME HoldInv, NEW s \in Sessions, Take(s)
  PROVE  OnlyWanted'
<1> USE ProcessFacts
        DEF HoldInv, TypeOK, Goto, OnlyWanted
<1>1. CASE TakeHold(s)
  <2>1. PICK p \in {"idle", "displace", "add"} : at' = [at EXCEPT ![s] = p]
    BY <1>1, TakeHoldFacts
  <2>2. PICK v \in {"nothing", "held", "already held"} :
          /\ told' = [told EXCEPT ![s] = v]
          /\ v = "held" => told[s] = "held" /\ at' = at
    BY <1>1, TakeHoldFacts
  <2>3. /\ at[s] = "idle"
        /\ UNCHANGED <<pr, holders, rearm, wasArmed, blind, wanted>>
    BY <1>1, TakeHoldFacts
  <2>4. QED
    BY <2>1, <2>2, <2>3
<1>2. CASE Displace(s)
  <2>1. PICK p \in {"displace", "add"} : at' = [at EXCEPT ![s] = p]
    BY <1>2, DisplaceFacts
  <2>2. /\ at[s] = "displace" /\ holders' \subseteq holders
        /\ UNCHANGED <<pr, rearm, wasArmed, told, blind, wanted>>
    BY <1>2, DisplaceFacts
  <2>3. QED
    BY <2>1, <2>2
<1>3. CASE AddLabel(s)
  BY <1>3 DEF AddLabel
<1>4. CASE HoldLanded(s)
  BY <1>4 DEF HoldLanded
<1>5. CASE ReadWasArmed(s)
  BY <1>5 DEF ReadWasArmed, AutoMergeRequested
<1>6. CASE Disarm(s)
  BY <1>6 DEF Disarm, Disarmed
<1>7. CASE DisarmVerdict(s)
  BY <1>7 DEF DisarmVerdict, AutoMergeRequested, Unseeing
<1>8. CASE MarkForRearm(s)
  BY <1>8 DEF MarkForRearm
<1>9. CASE NowHeld(s)
  BY <1>9 DEF NowHeld
<1>10. QED
  BY <1>1, <1>2, <1>3, <1>4, <1>5, <1>6, <1>7, <1>8, <1>9 DEF Take

LEMMA ReleaseWanted ==
  ASSUME HoldInv, NEW s \in Sessions, Release(s) \/ Ends(s)
  PROVE  OnlyWanted'
<1> USE ProcessFacts
        DEF HoldInv, TypeOK, Goto, OnlyWanted
<1>1. CASE ReleaseHold(s)
  BY <1>1 DEF ReleaseHold
<1>2. CASE TakeOffLabel(s)
  BY <1>2 DEF TakeOffLabel
<1>3. CASE SeeRearm(s)
  BY <1>3 DEF SeeRearm
<1>4. CASE RearmAfterRelease(s)
  BY <1>4 DEF RearmAfterRelease, Armed
<1>5. CASE ArmVerdict(s)
  BY <1>5 DEF ArmVerdict
<1>6. CASE UnmarkRearm(s)
  BY <1>6 DEF UnmarkRearm
<1>7. CASE Ends(s)
  BY <1>7 DEF Ends
<1>8. QED
  BY <1>1, <1>2, <1>3, <1>4, <1>5, <1>6, <1>7 DEF Release

LEMMA OthersWanted ==
  ASSUME HoldInv,
         \/ ListCandidates
         \/ \E a \in Armers : ReadLabels(a) \/ Passes(a) \/ ArmMerge(a)
         \/ EnterQueue \/ Merge
         \/ UNCHANGED vars
  PROVE  OnlyWanted'
<1> USE ProcessFacts
        DEF HoldInv, TypeOK, Goto, OnlyWanted
<1>1. CASE ListCandidates
  BY <1>1 DEF ListCandidates, Armers
<1>2. ASSUME NEW a \in Armers, ReadLabels(a)
      PROVE  OnlyWanted'
  BY <1>2 DEF ReadLabels
<1>3. ASSUME NEW a \in Armers, Passes(a)
      PROVE  OnlyWanted'
  BY <1>3 DEF Passes
<1>4. ASSUME NEW a \in Armers, ArmMerge(a)
      PROVE  OnlyWanted'
  BY <1>4 DEF ArmMerge, Armed
<1>5. CASE EnterQueue \/ Merge
  BY <1>5 DEF EnterQueue, Merge
<1>6. CASE UNCHANGED vars
  BY <1>6 DEF vars
<1>7. QED
  BY <1>1, <1>2, <1>3, <1>4, <1>5, <1>6

(* One step lets nobody arm a PR whose hold stands.                        *)
LEMMA TakeGuarded ==
  ASSUME HoldInv, NEW s \in Sessions, Take(s)
  PROVE  Guarded'
<1> USE ProcessFacts
        DEF HoldInv, TypeOK, Goto, FreshTake, Guarded, Stands
<1>1. CASE TakeHold(s)
  <2>1. PICK p \in {"idle", "displace", "add"} : at' = [at EXCEPT ![s] = p]
    BY <1>1, TakeHoldFacts
  <2>2. PICK v \in {"nothing", "held", "already held"} :
          /\ told' = [told EXCEPT ![s] = v]
          /\ v = "held" => told[s] = "held" /\ at' = at
    BY <1>1, TakeHoldFacts
  <2>3. /\ at[s] = "idle"
        /\ UNCHANGED <<pr, holders, rearm, wasArmed, blind, wanted>>
    BY <1>1, TakeHoldFacts
  <2>4. QED
    BY <2>1, <2>2, <2>3
<1>2. CASE Displace(s)
  <2>1. PICK p \in {"displace", "add"} : at' = [at EXCEPT ![s] = p]
    BY <1>2, DisplaceFacts
  <2>2. /\ at[s] = "displace" /\ holders' \subseteq holders
        /\ UNCHANGED <<pr, rearm, wasArmed, told, blind, wanted>>
    BY <1>2, DisplaceFacts
  <2>3. QED
    BY <2>1, <2>2
<1>3. CASE AddLabel(s)
  BY <1>3 DEF AddLabel
<1>4. CASE HoldLanded(s)
  BY <1>4 DEF HoldLanded
<1>5. CASE ReadWasArmed(s)
  BY <1>5 DEF ReadWasArmed, AutoMergeRequested
<1>6. CASE Disarm(s)
  BY <1>6 DEF Disarm, Disarmed
<1>7. CASE DisarmVerdict(s)
  BY <1>7 DEF DisarmVerdict, AutoMergeRequested, Unseeing
<1>8. CASE MarkForRearm(s)
  BY <1>8 DEF MarkForRearm
<1>9. CASE NowHeld(s)
  BY <1>9 DEF NowHeld
<1>10. QED
  BY <1>1, <1>2, <1>3, <1>4, <1>5, <1>6, <1>7, <1>8, <1>9 DEF Take

LEMMA ReleaseGuarded ==
  ASSUME HoldInv, NEW s \in Sessions, Release(s) \/ Ends(s)
  PROVE  Guarded'
<1> USE ProcessFacts
        DEF HoldInv, TypeOK, Goto, FreshTake, Guarded, Stands
<1>1. CASE ReleaseHold(s)
  BY <1>1 DEF ReleaseHold
<1>2. CASE TakeOffLabel(s)
  BY <1>2 DEF TakeOffLabel
<1>3. CASE SeeRearm(s)
  BY <1>3 DEF SeeRearm
<1>4. CASE RearmAfterRelease(s)
  BY <1>4 DEF RearmAfterRelease, Armed
<1>5. CASE ArmVerdict(s)
  BY <1>5 DEF ArmVerdict
<1>6. CASE UnmarkRearm(s)
  BY <1>6 DEF UnmarkRearm
<1>7. CASE Ends(s)
  BY <1>7 DEF Ends
<1>8. QED
  BY <1>1, <1>2, <1>3, <1>4, <1>5, <1>6, <1>7 DEF Release

LEMMA OthersGuarded ==
  ASSUME HoldInv,
         \/ ListCandidates
         \/ \E a \in Armers : ReadLabels(a) \/ Passes(a) \/ ArmMerge(a)
         \/ EnterQueue \/ Merge
         \/ UNCHANGED vars
  PROVE  Guarded'
<1> USE ProcessFacts
        DEF HoldInv, TypeOK, Goto, FreshTake, Guarded, Stands
<1>1. CASE ListCandidates
  BY <1>1 DEF ListCandidates, Armers
<1>2. ASSUME NEW a \in Armers, ReadLabels(a)
      PROVE  Guarded'
  BY <1>2 DEF ReadLabels
<1>3. ASSUME NEW a \in Armers, Passes(a)
      PROVE  Guarded'
  BY <1>3 DEF Passes
<1>4. ASSUME NEW a \in Armers, ArmMerge(a)
      PROVE  Guarded'
  BY <1>4 DEF ArmMerge, Armed
<1>5. CASE EnterQueue \/ Merge
  BY <1>5 DEF EnterQueue, Merge
<1>6. CASE UNCHANGED vars
  BY <1>6 DEF vars
<1>7. QED
  BY <1>1, <1>2, <1>3, <1>4, <1>5, <1>6

-----------------------------------------------------------------------------
LEMMA InitHold == Init => HoldInv
<1> SUFFICES ASSUME Init PROVE HoldInv
  OBVIOUS
<1>1. TypeOK
  BY ProcessFacts DEF Init, TypeOK
<1>2. FreshTake /\ OneClaim /\ OnlyWanted /\ Guarded
  BY ProcessFacts DEF Init, FreshTake, OneClaim, Claims, Landed, OnlyWanted, Guarded, Stands
<1>3. QED
  BY <1>1, <1>2 DEF HoldInv

LEMMA NextHold ==
  ASSUME HoldInv, [Next]_vars
  PROVE  HoldInv'
<1>1. CASE \E s \in Sessions : Take(s)
  BY <1>1, TakeTyped, TakeClaims, TakeWanted, TakeGuarded DEF HoldInv
<1>2. CASE \E s \in Sessions : Release(s) \/ Ends(s)
  BY <1>2, ReleaseTyped, ReleaseClaims, ReleaseWanted, ReleaseGuarded DEF HoldInv
<1>3. CASE \/ ListCandidates
           \/ \E a \in Armers : ReadLabels(a) \/ Passes(a) \/ ArmMerge(a)
           \/ EnterQueue \/ Merge
           \/ UNCHANGED vars
  BY <1>3, ArmersTyped, OthersClaims, OthersWanted, OthersGuarded DEF HoldInv
<1>4. QED
  BY <1>1, <1>2, <1>3 DEF Next

LEMMA HoldInvariant == Spec => []HoldInv
BY InitHold, NextHold, PTL DEF Spec

(* Every reachable state of a PR, its labels and its commands is of the    *)
(* declared types, and a take has labels to remove only while it does.     *)
THEOREM HoldTypeCorrect == Spec => []TypeOK
<1>1. HoldInv => TypeOK
  BY DEF HoldInv
<1>2. QED
  BY <1>1, HoldInvariant, PTL

(* No two sessions that were told they hold a PR have their labels on it   *)
(* (takeHold, holdLanded).                                                 *)
THEOREM OneHolderTold == Spec => []OneHolder
<1>1. HoldInv => OneHolder
  BY DEF HoldInv, OneClaim, Claims, OneHolder, Holds
<1>2. QED
  BY <1>1, HoldInvariant, PTL

(* A PR held with nobody blind to the label stays unarmed and unmerged     *)
(* (disarmAutoMerge, armabilityOf).                                        *)
THEOREM HeldIsUnmerged == Spec => []HoldStopsMerge
<1>1. HoldInv => HoldStopsMerge
  BY DEF HoldInv, Guarded, Stands, HoldStopsMerge, Holds
<1>2. QED
  BY <1>1, HoldInvariant, PTL

(* What a release arms, an armer had armed (markForRearm,                  *)
(* rearmAfterRelease).                                                     *)
THEOREM NothingIsArmedUnasked == Spec => []OnlyArmedIsRearmed
<1>1. HoldInv => OnlyArmedIsRearmed
  BY DEF HoldInv, OnlyWanted, OnlyArmedIsRearmed
<1>2. QED
  BY <1>1, HoldInvariant, PTL
-----------------------------------------------------------------------------
(* Reverts of main (TrunkRevert), the pull requests a failed run opens.    *)
(* The branch of a commit is a lock, that nobody breaks but who deletes    *)
(* it: whoever is about to open a revert holds it, for the first time.     *)
Creates(r, c) == run[r].step = "create" /\ run[r].sha = c

Locked(c) ==
  /\ \A r, q \in Runs : Creates(r, c) /\ Creates(q, c) => r = q
  /\ \A r \in Runs : Creates(r, c) => c \in branches /\ opened[c] = 0
  /\ opened[c] > 0 => c \in branches
  /\ opened[c] < 2

LockHeld == \A c \in Commits : c \notin cut => Locked(c)

Counted == \A c \in reverts : opened[c] > 0

LockInv == LockHeld /\ Counted /\ StrandedIsTold

(* A run is of a commit that was made, and proposes at most once.          *)
Placed(r) ==
  /\ run[r].step = "unused" => run[r] = Unused
  /\ run[r].step \in Started \/ run[r].opened => run[r].sha \in 1..tip
  /\ run[r].step # "over" => ~run[r].opened
  /\ run[r].step \in {"gate", "build"} => run[r].failing = {}

(* What a run goes on for.                                                 *)
FellFor(r) ==
  \/ run[r].failing # {} \/ run[r].buildBroke
  \/ run[r].gateBroke \/ run[r].sha \in deletes

(* What failed has a cause: the tree, or the world, now or before.  What   *)
(* the parent was found to fail is all its tree fails of what is tried     *)
(* there; and once the failure is held against the push, none of that      *)
(* failed of it.                                                           *)
Accounted(r) ==
  /\ run[r].step \in Judging =>
       /\ FellFor(r)
       /\ run[r].failing \subseteq defects[run[r].sha] \cup world \cup recovered
  /\ run[r].step \in Weighing /\ run[r].failing # {} =>
       /\ run[r].failing \cap Rechecked
            \subseteq defects[run[r].sha] \cup run[r].parents \cup recovered
       /\ defects[run[r].sha - 1] \cap Rechecked \subseteq run[r].parents
  /\ run[r].step \in Decided => run[r].failing \cap run[r].parents = {}

Guilty(r) ==
  run[r].opened =>
    \/ Own(run[r].sha)
    \/ run[r].failing # {} /\ run[r].failing \cap Rechecked \subseteq recovered
    \/ run[r].gateBroke \/ run[r].buildBroke

RunInv(r) == Placed(r) /\ Accounted(r) /\ Guilty(r)

TrunkInv == TrunkTypeOK /\ LockInv /\ \A r \in Runs : RunInv(r)
-----------------------------------------------------------------------------
(* What may happen around a run takes no evidence away.                    *)
WorldAges ==
  /\ tip <= tip'
  /\ \A c \in 0..tip : defects'[c] = defects[c]
  /\ deletes \subseteq deletes'
  /\ recovered \subseteq recovered'
  /\ world \subseteq world' \cup recovered'

Judges(r) ==
  \/ TrunkGate(r) \/ TrunkBuildTest(r) \/ Recheck(r)
  \/ LookAtBefore(r) \/ LookAtTip(r) \/ Search(r)

LEMMA UnusedTyped ==
   /\ Unused \in RunRecords
         /\ [Unused EXCEPT !.step = "over"] \in RunRecords
         /\ 0 \in Commits
<1>1. 0 \in Commits
  BY BoundsAssumption DEF Commits
<1>2. Unused \in RunRecords
  BY <1>1 DEF Unused, RunRecords
<1>3. [Unused EXCEPT !.step = "over"] \in RunRecords
  BY <1>1 DEF Unused, RunRecords
<1>4. QED
  BY <1>1, <1>2, <1>3

(* A step of a run is a step of its record alone.                          *)
LEMMA JudgeMoves ==
  ASSUME TrunkTypeOK, NEW r \in Runs, Placed(r), Judges(r)
  PROVE  /\ \E new \in RunRecords :
              /\ run' = [run EXCEPT ![r] = new]
              /\ new.step \notin {"unused", "create"}
         /\ run[r].step \in Started \ {"push", "create"}
         /\ UNCHANGED <<tip, defects, deletes, world, recovered, branches, cut,
                        reverts, opened, reported, untold>>
<1> USE DEF TrunkTypeOK, Goes, End, Elsewhere, Undecided
<1>1. run[r] \in RunRecords
  OBVIOUS
<1>2. ASSUME NEW s \in (Started \cup {"over"}) \ {"create"}, Goes(r, s)
      PROVE  \E new \in RunRecords :
               run' = [run EXCEPT ![r] = new] /\ new.step \notin {"unused", "create"}
  <2>1. [run[r] EXCEPT !.step = s] \in RunRecords
    BY <1>1 DEF RunRecords
  <2>2. [run[r] EXCEPT !.step = s].step = s
    BY <1>1 DEF RunRecords
  <2>3. s # "unused"
    BY DEF Started, Judging, Weighing, Decided
  <2>4. run' = [run EXCEPT ![r] = [run[r] EXCEPT !.step = s]]
    BY <1>2
  <2>5. QED
    BY <2>1, <2>2, <2>3, <2>4
<1>3. ASSUME End(r)
      PROVE  \E new \in RunRecords :
               run' = [run EXCEPT ![r] = new] /\ new.step \notin {"unused", "create"}
  BY <1>3, UnusedTyped DEF Unused
<1>4. CASE TrunkGate(r)
  <2>1. PICK broke \in BOOLEAN :
          \/ /\ run' = [run EXCEPT ![r].step = "recheck", ![r].gateBroke = broke]
          \/ Goes(r, "build")
    BY <1>4 DEF TrunkGate
  <2>2. CASE run' = [run EXCEPT ![r].step = "recheck", ![r].gateBroke = broke]
    <3> DEFINE new == [run[r] EXCEPT !.step = "recheck", !.gateBroke = broke]
    <3>1. new \in RunRecords /\ new.step = "recheck"
      BY <1>1 DEF RunRecords, Started, Judging
    <3>2. run' = [run EXCEPT ![r] = new]
      BY <2>2
    <3>3. QED
      BY <1>4, <3>1, <3>2 DEF TrunkGate, Started
  <2>3. CASE Goes(r, "build")
    BY <1>4, <1>2, <2>3 DEF TrunkGate, Started, Judging, Weighing, Decided
  <2>4. QED
    BY <2>1, <2>2, <2>3
<1>5. CASE TrunkBuildTest(r)
  <2> DEFINE F == defects[run[r].sha] \cup world
  <2>1. F \in SUBSET Tests
    BY <1>1 DEF RunRecords
  <2>2. CASE End(r)
    BY <1>5, <1>3, <2>2 DEF TrunkBuildTest, Started, Judging, Weighing, Decided
  <2>3. ASSUME NEW G \in SUBSET F,
               run' = [run EXCEPT ![r].step = "recheck", ![r].failing = G]
        PROVE  \E new \in RunRecords :
                 run' = [run EXCEPT ![r] = new] /\ new.step \notin {"unused", "create"}
    <3> DEFINE new == [run[r] EXCEPT !.step = "recheck", !.failing = G]
    <3>1. new \in RunRecords /\ new.step = "recheck"
      BY <1>1, <2>1 DEF RunRecords, Started, Judging
    <3>2. run' = [run EXCEPT ![r] = new]
      BY <2>3
    <3>3. QED
      BY <3>1, <3>2
  <2>4. CASE run' = [run EXCEPT ![r].step = "recheck", ![r].buildBroke = TRUE]
    <3> DEFINE new == [run[r] EXCEPT !.step = "recheck", !.buildBroke = TRUE]
    <3>1. new \in RunRecords /\ new.step = "recheck"
      BY <1>1 DEF RunRecords, Started, Judging
    <3>2. run' = [run EXCEPT ![r] = new]
      BY <2>4
    <3>3. QED
      BY <1>5, <3>1, <3>2 DEF TrunkBuildTest, Started, Judging, Weighing, Decided
  <2>5. \/ End(r)
        \/ \E G \in SUBSET F :
             run' = [run EXCEPT ![r].step = "recheck", ![r].failing = G]
        \/ run' = [run EXCEPT ![r].step = "recheck", ![r].buildBroke = TRUE]
    BY <1>5 DEF TrunkBuildTest
  <2>6. QED
    BY <1>5, <2>2, <2>3, <2>4, <2>5 DEF TrunkBuildTest, Started, Judging, Weighing, Decided
<1>6. CASE Recheck(r)
  <2> DEFINE W == (defects[run[r].sha - 1] \cup world) \cap Rechecked
  <2>1. CASE Goes(r, "before")
    BY <1>6, <1>2, <2>1 DEF Recheck, Started, Judging, Weighing, Decided
  <2>2. CASE End(r)
    BY <1>6, <1>3, <2>2 DEF Recheck, Started, Judging, Weighing, Decided
  <2>3. CASE run' = [run EXCEPT ![r].step = "before", ![r].parents = W]
    <3> DEFINE new == [run[r] EXCEPT !.step = "before", !.parents = W]
    <3>4. run[r].sha - 1 \in Commits
      <4>1. run[r].sha \in 1..tip /\ tip \in Commits
        BY <1>6 DEF Recheck, Placed, Started, Judging
      <4>2. QED
        BY <4>1, BoundsAssumption DEF Commits
    <3>5. W \in SUBSET Tests
      BY <3>4
    <3>1. new \in RunRecords /\ new.step = "before"
      BY <1>1, <3>5 DEF RunRecords, Started, Judging, Weighing
    <3>2. run' = [run EXCEPT ![r] = new]
      BY <2>3
    <3>3. QED
      BY <1>6, <3>1, <3>2 DEF Recheck, Started, Judging, Weighing, Decided
  <2>4. QED
    BY <1>6, <2>1, <2>2, <2>3 DEF Recheck
<1>7. CASE LookAtBefore(r) \/ LookAtTip(r) \/ Search(r)
  <2>1. Goes(r, "tip") \/ Goes(r, "search") \/ Goes(r, "push") \/ End(r)
    BY <1>7 DEF LookAtBefore, LookAtTip, Search
  <2>2. {"tip", "search", "push"} \subseteq (Started \cup {"over"}) \ {"create"}
    BY DEF Started, Judging, Weighing, Decided
  <2>3. run[r].step \in {"before", "tip", "search"}
    BY <1>7 DEF LookAtBefore, LookAtTip, Search
  <2>4. UNCHANGED <<tip, defects, deletes, world, recovered, branches, cut,
                    reverts, opened, reported, untold>>
    BY <1>7 DEF LookAtBefore, LookAtTip, Search
  <2>5. QED
    BY <1>2, <1>3, <2>1, <2>2, <2>3, <2>4 DEF Started, Judging, Weighing, Decided
<1>8. QED
  BY <1>4, <1>5, <1>6, <1>7 DEF Judges

LEMMA BeginMoves ==
  ASSUME TrunkTypeOK, NEW r \in Runs, NEW c \in Commits, Begin(r, c)
  PROVE  /\ run[r].step = "unused"
         /\ run' = [run EXCEPT ![r] = [run[r] EXCEPT !.step = "gate", !.sha = c]]
         /\ [run[r] EXCEPT !.step = "gate", !.sha = c] \in RunRecords
<1>1. run[r] \in RunRecords
  BY DEF TrunkTypeOK
<1>2. QED
  BY <1>1 DEF Begin, RunRecords, Started

JobRecords == [gate : {None, "success", "failure"},
               build : {None, "success", "failure", "skipped"}]

(* A job concludes, or another step leaves what GitHub has.                *)
LEMMA JudgeRecords ==
  ASSUME TrunkTypeOK, NEW r \in Runs,
         TrunkGate(r) \/ TrunkBuildTest(r) \/ UNCHANGED record
  PROVE  record' \in [Commits -> JobRecords]
<1>1. record \in [Commits -> JobRecords] /\ run[r].sha \in Commits
  BY DEF TrunkTypeOK, JobRecords, RunRecords
<1>2. CASE UNCHANGED record
  BY <1>1, <1>2
<1>3. ASSUME NEW jobs \in JobRecords, record' = [record EXCEPT ![run[r].sha] = jobs]
      PROVE  record' \in [Commits -> JobRecords]
  BY <1>1, <1>3
<1>4. CASE TrunkGate(r)
  <2>1. \/ record' = [record EXCEPT ![run[r].sha] =
                        [gate |-> "failure", build |-> "skipped"]]
        \/ record' = [record EXCEPT ![run[r].sha] =
                        [record[run[r].sha] EXCEPT !.gate = "success"]]
    BY <1>4 DEF TrunkGate
  <2>2. [gate |-> "failure", build |-> "skipped"] \in JobRecords
        /\ [record[run[r].sha] EXCEPT !.gate = "success"] \in JobRecords
    BY <1>1 DEF JobRecords
  <2>3. QED
    BY <1>3, <2>1, <2>2
<1>5. CASE TrunkBuildTest(r)
  <2>1. PICK ended \in {"success", "failure"} :
          record' = [record EXCEPT ![run[r].sha] =
                      [record[run[r].sha] EXCEPT !.build = ended]]
    BY <1>5 DEF TrunkBuildTest
  <2>2. [record[run[r].sha] EXCEPT !.build = ended] \in JobRecords
    BY <1>1 DEF JobRecords
  <2>3. QED
    BY <1>3, <2>1, <2>2
<1>6. QED
  BY <1>2, <1>4, <1>5

LEMMA TrunkStepTyped ==
  ASSUME TrunkTypeOK, \A r \in Runs : Placed(r), TrunkNext
  PROVE  TrunkTypeOK'
<1> USE UnusedTyped
<1>1. CASE WorldMoves
  BY <1>1 DEF WorldMoves, TrunkTypeOK
<1>2. ASSUME NEW c \in Commits, Close(c)
      PROVE  TrunkTypeOK'
  BY <1>2 DEF Close, TrunkTypeOK
<1>3. ASSUME NEW r \in Runs, Land(r)
      PROVE  TrunkTypeOK'
  <2>1. tip + 1 \in Commits
    BY <1>3, BoundsAssumption DEF Land, TrunkTypeOK, Commits
  <2>2. run' \in [Runs -> RunRecords]
    BY <1>3, <2>1, BeginMoves DEF Land, TrunkTypeOK
  <2>3. defects' \in [Commits -> SUBSET Tests] /\ deletes' \subseteq Commits
    BY <1>3, <2>1 DEF Land, TrunkTypeOK
  <2>4. QED
    BY <1>3, <2>1, <2>2, <2>3 DEF Land, TrunkTypeOK
<1>4. ASSUME NEW r \in Runs, Dispatch(r)
      PROVE  TrunkTypeOK'
  <2>1. PICK c \in 1..tip : Begin(r, c)
    BY <1>4 DEF Dispatch
  <2>2. c \in Commits
    BY BoundsAssumption DEF TrunkTypeOK, Commits
  <2>3. run' \in [Runs -> RunRecords]
    BY <2>1, <2>2, BeginMoves DEF TrunkTypeOK
  <2>4. QED
    BY <1>4, <2>3 DEF Dispatch, TrunkTypeOK
<1>5. ASSUME NEW r \in Runs, Judges(r)
      PROVE  TrunkTypeOK'
  <2>1. PICK new \in RunRecords : run' = [run EXCEPT ![r] = new]
    BY <1>5, JudgeMoves
  <2>2. run' \in [Runs -> RunRecords]
    BY <2>1 DEF TrunkTypeOK
  <2>3. record' \in [Commits -> JobRecords]
    BY <1>5, JudgeRecords DEF Judges, Recheck, LookAtBefore, LookAtTip, Search, Undecided
  <2>4. QED
    BY <1>5, <2>2, <2>3, JudgeMoves DEF TrunkTypeOK, JobRecords
<1>6. ASSUME NEW r \in Runs, Push(r) \/ Create(r) \/ Dies(r)
      PROVE  TrunkTypeOK'
  <2>1. run[r] \in RunRecords /\ run[r].sha \in Commits
    BY DEF TrunkTypeOK, RunRecords
  <2>2. run' \in [Runs -> RunRecords]
    <3>1. [run[r] EXCEPT !.step = "create"] \in RunRecords
      BY <2>1 DEF RunRecords, Started, Judging, Weighing, Decided
    <3>2. [run[r] EXCEPT !.step = "over", !.opened = TRUE, !.parents = {}] \in RunRecords
      BY <2>1 DEF RunRecords
    <3>3. \/ End(r)
          \/ run' = [run EXCEPT ![r] = [run[r] EXCEPT !.step = "create"]]
          \/ run' = [run EXCEPT ![r] =
                      [run[r] EXCEPT !.step = "over", !.opened = TRUE, !.parents = {}]]
      BY <1>6 DEF Push, Create, Dies, Opens, Goes, TrunkTypeOK
    <3>4. QED
      BY <3>1, <3>2, <3>3 DEF End, TrunkTypeOK
  <2>3. /\ branches' \subseteq Commits /\ reverts' \subseteq Commits
        /\ reported' \subseteq Commits /\ untold' \subseteq Commits
    BY <1>6, <2>1 DEF Push, Create, Dies, Opens, TrunkTypeOK
  <2>4. opened' \in [Commits -> Nat]
    BY <1>6, <2>1 DEF Push, Create, Dies, Opens, TrunkTypeOK
  <2>5. QED
    BY <1>6, <2>2, <2>3, <2>4 DEF Push, Create, Dies, Elsewhere, TrunkTypeOK
<1>7. QED
  BY <1>1, <1>2, <1>3, <1>4, <1>5, <1>6 DEF TrunkNext, Judges
-----------------------------------------------------------------------------
(* The lock                                                                *)

LEMMA LockUntouched ==
  ASSUME TrunkTypeOK, LockInv, NEW r \in Runs,
         NEW new, run' = [run EXCEPT ![r] = new],
         new.step # "create", run[r].step # "create",
         UNCHANGED <<branches, cut, reverts, opened, reported, untold>>
  PROVE  LockInv'
<1>1. \A q \in Runs, c \in Commits : Creates(q, c)' <=> Creates(q, c)
  BY DEF Creates, TrunkTypeOK
<1>2. LockHeld'
  BY <1>1 DEF LockInv, LockHeld, Locked
<1>3. StrandedIsTold'
  <2>1. \A c \in branches : c \in Commits
    BY DEF TrunkTypeOK
  <2>2. QED
    BY <1>1, <2>1 DEF LockInv, StrandedIsTold, Creates
<1>4. QED
  BY <1>2, <1>3 DEF LockInv, Counted

LEMMA PushLocks ==
  ASSUME TrunkTypeOK, LockInv, NEW r \in Runs, Push(r), run[r].sha \notin branches,
         run' = [run EXCEPT ![r].step = "create"],
         branches' = branches \cup {run[r].sha}
  PROVE  LockInv'
<1> DEFINE c == run[r].sha
<1>1. c \in Commits /\ run[r].step = "push"
  BY DEF TrunkTypeOK, RunRecords, Push
<1>2. UNCHANGED <<cut, reverts, opened, reported, untold>>
  BY DEF Push
<1>3. run'[r].step = "create" /\ run'[r].sha = c /\ \A q \in Runs \ {r} : run'[q] = run[q]
  BY DEF TrunkTypeOK, RunRecords
<1>4. \A q \in Runs, d \in Commits : Creates(q, d)' <=> Creates(q, d) \/ (q = r /\ d = c)
  BY <1>1, <1>3 DEF Creates
<1>5. ASSUME NEW d \in Commits, d \notin cut
      PROVE  Locked(d)'
  <2>1. Locked(d)
    BY <1>5 DEF LockInv, LockHeld
  <2>2. CASE d # c
    BY <1>2, <1>4, <2>1, <2>2 DEF Locked
  <2>3. CASE d = c
    <3>1. \A q \in Runs : ~Creates(q, c)
      BY <2>1, <2>3 DEF Locked
    <3>2. opened[c] = 0
      BY <1>1, <2>1, <2>3 DEF Locked, TrunkTypeOK
    <3>3. QED
      BY <1>2, <1>4, <2>3, <3>1, <3>2 DEF Locked
  <2>4. QED
    BY <2>2, <2>3
<1>6. LockHeld'
  BY <1>2, <1>5 DEF LockHeld
<1>7. StrandedIsTold'
  <2>1. \A d \in branches : d \in Commits
    BY DEF TrunkTypeOK
  <2>2. QED
    BY <1>1, <1>2, <1>4, <2>1 DEF LockInv, StrandedIsTold, Creates
<1>8. QED
  BY <1>2, <1>6, <1>7 DEF LockInv, Counted

LEMMA CreateUnlocks ==
  ASSUME TrunkTypeOK, LockInv, NEW r \in Runs, Create(r) \/ Dies(r)
  PROVE  LockInv'
<1> DEFINE c == run[r].sha
<1>1. c \in Commits /\ Creates(r, c)
  BY DEF TrunkTypeOK, RunRecords, Create, Dies, Creates
<1>2. UNCHANGED <<branches, cut>>
  BY DEF Create, Dies
<1>3. run'[r].step = "over" /\ \A q \in Runs \ {r} : run'[q] = run[q]
  <2>1. CASE End(r)
    BY <2>1 DEF TrunkTypeOK, End, Unused
  <2>2. CASE Opens(r, c)
    BY <2>2 DEF TrunkTypeOK, RunRecords, Opens
  <2>3. QED
    BY <2>1, <2>2 DEF Create, Dies
<1>4. \A q \in Runs, d \in Commits : Creates(q, d)' <=> Creates(q, d) /\ q # r
  BY <1>3 DEF Creates
<1>5. /\ \/ /\ opened' = [opened EXCEPT ![c] = @ + 1]
            /\ reverts' = reverts \cup {c}
         \/ /\ UNCHANGED <<opened, reverts>>
            /\ c \in reported' \cup untold'
      /\ reported \subseteq reported' /\ untold \subseteq untold'
  BY DEF Create, Dies, Opens
<1>6. opened'[c] \in {opened[c], opened[c] + 1} /\ \A d \in Commits : d # c => opened'[d] = opened[d]
  BY <1>1, <1>5 DEF TrunkTypeOK
<1>7. ASSUME NEW d \in Commits, d \notin cut
      PROVE  Locked(d)'
  <2>1. Locked(d)
    BY <1>7 DEF LockInv, LockHeld
  <2>2. CASE d # c
    BY <1>2, <1>4, <1>6, <2>1, <2>2 DEF Locked
  <2>3. CASE d = c
    <3>1. \A q \in Runs : ~Creates(q, d)'
      BY <1>1, <1>4, <2>1, <2>3 DEF Locked
    <3>2. opened[c] = 0 /\ c \in branches
      BY <1>1, <2>1, <2>3 DEF Locked
    <3>3. opened'[c] < 2
      BY <1>6, <3>2
    <3>4. QED
      BY <1>2, <2>3, <3>1, <3>2, <3>3 DEF Locked
  <2>4. QED
    BY <2>2, <2>3
<1>8. LockHeld'
  BY <1>2, <1>7 DEF LockHeld
<1>9. \A d \in Commits : opened[d] > 0 => opened'[d] > 0
  BY <1>1, <1>6 DEF TrunkTypeOK
<1>10. Counted'
  <2>1. CASE UNCHANGED <<opened, reverts>>
    BY <2>1 DEF LockInv, Counted
  <2>2. CASE opened' = [opened EXCEPT ![c] = @ + 1] /\ reverts' = reverts \cup {c}
    <3>1. opened'[c] > 0
      BY <1>1, <2>2 DEF TrunkTypeOK
    <3>2. \A d \in reverts : d \in Commits
      BY DEF TrunkTypeOK
    <3>3. QED
      BY <1>9, <2>2, <3>1, <3>2 DEF LockInv, Counted
  <2>3. QED
    BY <1>5, <2>1, <2>2
<1>11. StrandedIsTold'
  <2>1. \A d \in branches : d \in Commits
    BY DEF TrunkTypeOK
  <2>2. ASSUME NEW d \in branches
        PROVE  \/ d \in reverts' \cup reported' \cup untold'
               \/ opened'[d] > 0
               \/ \E q \in Runs : Creates(q, d)'
    <3>1. CASE d = c
      BY <1>5, <3>1
    <3>2. CASE d # c
      <4>1. \/ d \in reverts \cup reported \cup untold
            \/ opened[d] > 0
            \/ \E q \in Runs : Creates(q, d)
        BY DEF LockInv, StrandedIsTold, Creates
      <4>2. \A q \in Runs : Creates(q, d) => q # r
        BY <1>1, <3>2 DEF Creates
      <4>3. QED
        BY <1>4, <1>5, <1>9, <2>1, <4>1, <4>2
    <3>3. QED
      BY <3>1, <3>2
  <2>3. QED
    BY <1>2, <2>2 DEF StrandedIsTold, Creates
<1>12. QED
  BY <1>8, <1>10, <1>11 DEF LockInv

LEMMA LockStep ==
  ASSUME TrunkTypeOK, \A r \in Runs : Placed(r), LockInv,
         [TrunkNext]_trunkVars
  PROVE  LockInv'
<1> USE UnusedTyped
<1>1. CASE UNCHANGED <<run, branches, cut, reverts, opened, reported, untold>>
  <2>1. \A q \in Runs, c \in Commits : Creates(q, c)' <=> Creates(q, c)
    BY <1>1 DEF Creates
  <2>2. LockHeld'
    BY <1>1, <2>1 DEF LockInv, LockHeld, Locked
  <2>3. StrandedIsTold'
    BY <1>1 DEF LockInv, StrandedIsTold
  <2>4. QED
    BY <1>1, <2>2, <2>3 DEF LockInv, Counted
<1>2. ASSUME NEW c \in Commits, Close(c)
      PROVE  LockInv'
  <2>1. /\ reverts' = reverts \ {c}
        /\ UNCHANGED <<run, opened, reported, untold>>
        /\ \/ c \in reverts /\ UNCHANGED <<branches, cut>>
           \/ branches' = branches \ {c} /\ cut' = cut \cup {c}
    BY <1>2 DEF Close
  <2>2. \A q \in Runs, d \in Commits : Creates(q, d)' <=> Creates(q, d)
    BY <2>1 DEF Creates
  <2>3. ASSUME NEW d \in Commits, d \notin cut'
        PROVE  Locked(d)'
    <3>1. d \notin cut
      BY <2>1, <2>3
    <3>2. Locked(d)
      BY <3>1 DEF LockInv, LockHeld
    <3>3. d \in branches => d \in branches'
      BY <2>1, <2>3
    <3>4. QED
      BY <2>1, <2>2, <3>2, <3>3 DEF Locked
  <2>4. Counted'
    BY <2>1 DEF LockInv, Counted
  <2>5. StrandedIsTold'
    <3>1. ASSUME NEW d \in branches'
          PROVE  \/ d \in reverts' \cup reported' \cup untold'
                 \/ opened'[d] > 0
                 \/ \E q \in Runs : run'[q].sha = d /\ run'[q].step = "create"
      <4>1. d \in branches
        BY <2>1
      <4>2. \/ d \in reverts \cup reported \cup untold
            \/ opened[d] > 0
            \/ \E q \in Runs : run[q].sha = d /\ run[q].step = "create"
        BY <4>1 DEF LockInv, StrandedIsTold
      <4>3. d \in reverts => opened[d] > 0
        BY DEF LockInv, Counted
      <4>4. QED
        BY <2>1, <4>2, <4>3
    <3>2. QED
      BY <3>1 DEF StrandedIsTold
  <2>6. QED
    BY <2>3, <2>4, <2>5 DEF LockInv, LockHeld
<1>3. ASSUME NEW r \in Runs, Land(r)
      PROVE  LockInv'
  <2>1. tip + 1 \in Commits
    BY <1>3, BoundsAssumption DEF Land, TrunkTypeOK, Commits
  <2>2. /\ Begin(r, tip + 1)
        /\ UNCHANGED <<branches, cut, reverts, opened, reported, untold>>
    BY <1>3 DEF Land
  <2>3. [run[r] EXCEPT !.step = "gate", !.sha = tip + 1].step = "gate"
    BY DEF TrunkTypeOK, RunRecords
  <2>4. QED
    BY <2>1, <2>2, <2>3, BeginMoves, LockUntouched
<1>4. ASSUME NEW r \in Runs, Dispatch(r)
      PROVE  LockInv'
  <2>1. PICK c \in 1..tip : Begin(r, c)
    BY <1>4 DEF Dispatch
  <2>2. c \in Commits
    BY BoundsAssumption DEF TrunkTypeOK, Commits
  <2>3. UNCHANGED <<branches, cut, reverts, opened, reported, untold>>
    BY <1>4 DEF Dispatch
  <2>4. [run[r] EXCEPT !.step = "gate", !.sha = c].step = "gate"
    BY DEF TrunkTypeOK, RunRecords
  <2>5. QED
    BY <2>1, <2>2, <2>3, <2>4, BeginMoves, LockUntouched
<1>5. ASSUME NEW r \in Runs, Judges(r)
      PROVE  LockInv'
  <2>1. PICK new \in RunRecords : run' = [run EXCEPT ![r] = new] /\ new.step # "create"
    BY <1>5, JudgeMoves
  <2>2. run[r].step # "create" /\ UNCHANGED <<branches, cut, reverts, opened, reported, untold>>
    BY <1>5, JudgeMoves
  <2>3. QED
    BY <2>1, <2>2, LockUntouched
<1>6. ASSUME NEW r \in Runs, Push(r)
      PROVE  LockInv'
  <2>1. CASE End(r) /\ UNCHANGED branches
    <3>1. [Unused EXCEPT !.step = "over"].step = "over"
      BY DEF Unused
    <3>2. run[r].step = "push" /\ UNCHANGED <<branches, cut, reverts, opened, reported, untold>>
      BY <1>6, <2>1 DEF Push
    <3>3. QED
      BY <2>1, <3>1, <3>2, LockUntouched DEF End
  <2>2. CASE /\ run[r].sha \notin branches
             /\ Goes(r, "create")
             /\ branches' = branches \cup {run[r].sha}
    BY <1>6, <2>2, PushLocks DEF Goes
  <2>3. QED
    BY <1>6, <2>1, <2>2 DEF Push
<1>7. ASSUME NEW r \in Runs, Create(r) \/ Dies(r)
      PROVE  LockInv'
  BY <1>7, CreateUnlocks
<1>8. CASE WorldMoves \/ UNCHANGED trunkVars
  BY <1>1, <1>8 DEF WorldMoves, trunkVars
<1>9. QED
  BY <1>2, <1>3, <1>4, <1>5, <1>6, <1>7, <1>8 DEF TrunkNext, Judges
-----------------------------------------------------------------------------
(* The guilt                                                               *)

(* What happens elsewhere leaves a run's case as it stood.                 *)
LEMMA CaseStands ==
  ASSUME TrunkTypeOK, WorldAges, tip' \in Commits,
         NEW r \in Runs, RunInv(r), run'[r] = run[r]
  PROVE  RunInv(r)'
<1> DEFINE c == run[r].sha
<1>1. /\ c \in Nat /\ tip \in Nat /\ tip' \in Nat
      /\ run[r].step \in Started \/ run[r].opened => c \in 1..tip
  BY BoundsAssumption DEF TrunkTypeOK, RunRecords, RunInv, Placed, Commits
<1>2. run[r].step \in Started \/ run[r].opened => c \in 0..tip /\ c - 1 \in 0..tip
  BY <1>1
<1>3. run[r].step \in Started \/ run[r].opened =>
        defects'[c] = defects[c] /\ defects'[c - 1] = defects[c - 1]
  BY <1>2 DEF WorldAges
<1>4. run[r].step \in Started \/ run[r].opened => c \in 1..tip'
  BY <1>1 DEF WorldAges
<1>5. Judging \subseteq Started /\ Weighing \subseteq Started
  BY DEF Started, Judging
<1>6. Placed(r)'
  BY <1>4 DEF RunInv, Placed
<1>7. Accounted(r)'
  BY <1>3, <1>5 DEF RunInv, Accounted, FellFor, WorldAges
<1>8. Guilty(r)'
  BY <1>3 DEF RunInv, Guilty, Own, WorldAges
<1>9. QED
  BY <1>6, <1>7, <1>8 DEF RunInv

(* A run that is over and has proposed nothing has no case.                *)
LEMMA NoCase ==
  ASSUME NEW r \in Runs, TrunkTypeOK, End(r)
  PROVE  RunInv(r)'
<1>1. run'[r].step = "over" /\ ~run'[r].opened
  BY DEF TrunkTypeOK, End, Unused
<1>2. QED
  BY <1>1 DEF RunInv, Placed, Accounted, Guilty, Started, Judging, Weighing, Decided

LEMMA CaseBegins ==
  ASSUME TrunkTypeOK, NEW r \in Runs, RunInv(r),
         NEW c \in Commits, Begin(r, c), c \in 1..tip'
  PROVE  RunInv(r)'
<1>1. run[r] = Unused
  BY DEF RunInv, Placed, Begin
<1>2. run'[r] = [Unused EXCEPT !.step = "gate", !.sha = c]
  <2>1. run' = [run EXCEPT ![r] = [run[r] EXCEPT !.step = "gate", !.sha = c]]
    BY BeginMoves
  <2>2. QED
    BY <1>1, <2>1 DEF TrunkTypeOK
<1>3. /\ run'[r].step = "gate" /\ run'[r].sha = c
      /\ ~run'[r].opened /\ run'[r].failing = {}
  BY <1>2 DEF Unused
<1>4. QED
  BY <1>3 DEF RunInv, Placed, Accounted, Guilty, Started, Judging, Weighing, Decided

(* A failed job, a failed parent: what is held against a push has a cause. *)
LEMMA JobsAccount ==
  ASSUME TrunkTypeOK, NEW r \in Runs, RunInv(r),
         TrunkGate(r) \/ TrunkBuildTest(r)
  PROVE  RunInv(r)'
<1> DEFINE c == run[r].sha
<1> USE DEF Started, Judging, Weighing, Decided
<1>1. /\ run[r].step \in {"gate", "build"} /\ run[r] \in RunRecords
      /\ c \in 1..tip /\ ~run[r].opened /\ run[r].failing = {}
  BY DEF RunInv, Placed, TrunkTypeOK, TrunkGate, TrunkBuildTest
<1>2. UNCHANGED <<tip, defects, deletes, world, recovered>>
  BY DEF TrunkGate, TrunkBuildTest, Elsewhere
<1>3. CASE TrunkGate(r)
  <2>1. PICK broke \in BOOLEAN :
          \/ /\ broke \/ c \in deletes
             /\ run' = [run EXCEPT ![r].step = "recheck", ![r].gateBroke = broke]
          \/ Goes(r, "build")
    BY <1>3 DEF TrunkGate
  <2>2. CASE /\ broke \/ c \in deletes
             /\ run' = [run EXCEPT ![r].step = "recheck", ![r].gateBroke = broke]
    <3>1. /\ run'[r].step = "recheck" /\ run'[r].sha = c
          /\ run'[r].gateBroke = broke /\ run'[r].failing = {} /\ ~run'[r].opened
      BY <1>1, <2>2 DEF TrunkTypeOK, RunRecords
    <3>2. FellFor(r)'
      BY <1>2, <2>2, <3>1 DEF FellFor
    <3>3. QED
      BY <1>1, <1>2, <3>1, <3>2 DEF RunInv, Placed, Accounted, Guilty
  <2>3. CASE Goes(r, "build")
    <3>1. /\ run'[r].step = "build" /\ run'[r].sha = c
          /\ run'[r].failing = {} /\ ~run'[r].opened
      BY <1>1, <2>3 DEF Goes, TrunkTypeOK, RunRecords
    <3>2. QED
      BY <1>1, <1>2, <3>1 DEF RunInv, Placed, Accounted, Guilty
  <2>4. QED
    BY <2>1, <2>2, <2>3
<1>4. CASE TrunkBuildTest(r)
  <2> DEFINE F == defects[c] \cup world
  <2>1. CASE End(r)
    BY <2>1, NoCase
  <2>2. ASSUME NEW G \in SUBSET F, G # {},
               run' = [run EXCEPT ![r].step = "recheck", ![r].failing = G]
        PROVE  RunInv(r)'
    <3>1. /\ run'[r].step = "recheck" /\ run'[r].sha = c
          /\ run'[r].failing = G /\ ~run'[r].opened
      BY <1>1, <2>2 DEF TrunkTypeOK, RunRecords
    <3>2. FellFor(r)'
      BY <2>2, <3>1 DEF FellFor
    <3>3. QED
      BY <1>1, <1>2, <3>1, <3>2 DEF RunInv, Placed, Accounted, Guilty
  <2>3. CASE run' = [run EXCEPT ![r].step = "recheck", ![r].buildBroke = TRUE]
    <3>1. /\ run'[r].step = "recheck" /\ run'[r].sha = c
          /\ run'[r].buildBroke /\ run'[r].failing = {} /\ ~run'[r].opened
      BY <1>1, <2>3 DEF TrunkTypeOK, RunRecords
    <3>2. FellFor(r)'
      BY <3>1 DEF FellFor
    <3>3. QED
      BY <1>1, <1>2, <3>1, <3>2 DEF RunInv, Placed, Accounted, Guilty
  <2>4. \/ End(r)
        \/ \E G \in SUBSET F : /\ G # {}
              /\ run' = [run EXCEPT ![r].step = "recheck", ![r].failing = G]
        \/ run' = [run EXCEPT ![r].step = "recheck", ![r].buildBroke = TRUE]
    BY <1>4 DEF TrunkBuildTest
  <2>5. QED
    BY <2>1, <2>2, <2>3, <2>4
<1>5. QED
  BY <1>3, <1>4

LEMMA ParentAccounts ==
  ASSUME TrunkTypeOK, NEW r \in Runs, RunInv(r), Recheck(r)
  PROVE  RunInv(r)'
<1> DEFINE c == run[r].sha
           W == (defects[c - 1] \cup world) \cap Rechecked
           asked == run[r].failing # {} \/ run[r].buildBroke
<1> USE DEF Started, Judging, Weighing, Decided
<1>1. /\ run[r].step = "recheck" /\ run[r] \in RunRecords
      /\ c \in 1..tip /\ ~run[r].opened
  BY DEF RunInv, Placed, TrunkTypeOK, Recheck
<1>2. UNCHANGED <<tip, defects, deletes, world, recovered>>
  BY DEF Recheck, Elsewhere
<1>3. FellFor(r) /\ run[r].failing \subseteq defects[c] \cup world \cup recovered
  BY <1>1 DEF RunInv, Accounted
<1>4. CASE End(r)
  BY <1>4, NoCase
<1>5. ASSUME NEW parents, run'[r] = [run[r] EXCEPT !.step = "before", !.parents = parents],
             run[r].failing # {} => W \subseteq parents
      PROVE  RunInv(r)'
  <2>1. /\ run'[r].step = "before" /\ run'[r].sha = c /\ run'[r].parents = parents
        /\ run'[r].failing = run[r].failing /\ run'[r].buildBroke = run[r].buildBroke
        /\ run'[r].gateBroke = run[r].gateBroke /\ ~run'[r].opened
    BY <1>1, <1>5 DEF RunRecords
  <2>2. FellFor(r)'
    BY <1>2, <1>3, <2>1 DEF FellFor
  <2>3. run[r].failing # {} =>
          /\ run[r].failing \cap Rechecked \subseteq defects[c] \cup parents \cup recovered
          /\ defects[c - 1] \cap Rechecked \subseteq parents
    BY <1>3, <1>5
  <2>4. QED
    BY <1>1, <1>2, <1>3, <2>1, <2>2, <2>3 DEF RunInv, Placed, Accounted, Guilty
<1>6. CASE (~asked \/ W = {}) /\ Goes(r, "before")
  <2>1. run'[r] = [run[r] EXCEPT !.step = "before", !.parents = run[r].parents]
    BY <1>1, <1>6 DEF Goes, TrunkTypeOK, RunRecords
  <2>2. run[r].failing # {} => W \subseteq run[r].parents
    BY <1>6
  <2>3. QED
    BY <1>5, <2>1, <2>2
<1>7. CASE run' = [run EXCEPT ![r].step = "before", ![r].parents = W]
  <2>1. run'[r] = [run[r] EXCEPT !.step = "before", !.parents = W]
    BY <1>1, <1>7 DEF TrunkTypeOK, RunRecords
  <2>2. QED
    BY <1>5, <2>1
<1>8. QED
  BY <1>4, <1>6, <1>7 DEF Recheck

(* What goes on at nothing but a place stands as it did.                   *)
LEMMA CaseMoves ==
  ASSUME TrunkTypeOK, NEW r \in Runs, RunInv(r),
         NEW s \in Decided, Goes(r, s), run[r].step \in Weighing,
         run[r].step = "before" => run[r].failing \cap run[r].parents = {},
         UNCHANGED <<tip, defects, deletes, world, recovered>>
  PROVE  RunInv(r)'
<1> DEFINE c == run[r].sha
<1> USE DEF Started, Judging, Weighing, Decided
<1>1. /\ run[r] \in RunRecords /\ c \in 1..tip /\ ~run[r].opened
  BY DEF RunInv, Placed, TrunkTypeOK
<1>2. /\ run'[r].step = s /\ run'[r].sha = c /\ run'[r].parents = run[r].parents
      /\ run'[r].failing = run[r].failing /\ run'[r].buildBroke = run[r].buildBroke
      /\ run'[r].gateBroke = run[r].gateBroke /\ ~run'[r].opened
  BY <1>1 DEF Goes, TrunkTypeOK, RunRecords
<1>3. run[r].failing \cap run[r].parents = {}
  BY DEF RunInv, Accounted
<1>4. FellFor(r)'
  BY <1>2 DEF RunInv, Accounted, FellFor
<1>5. Accounted(r)'
  BY <1>2, <1>3, <1>4 DEF RunInv, Accounted
<1>6. Placed(r)'
  BY <1>1, <1>2 DEF Placed
<1>7. QED
  BY <1>2, <1>5, <1>6 DEF RunInv, Guilty

LEMMA VerdictAccounts ==
  ASSUME TrunkTypeOK, NEW r \in Runs, RunInv(r),
         \/ LookAtBefore(r) \/ LookAtTip(r)
         \/ Search(r) \/ Push(r)
  PROVE  RunInv(r)'
<1> USE DEF Weighing, Decided
<1>1. UNCHANGED <<tip, defects, deletes, world, recovered>>
  BY DEF LookAtBefore, LookAtTip, Search, Push, Elsewhere
<1>2. CASE End(r)
  BY <1>2, NoCase
<1>3. CASE BeforeWasGreen(r) /\ run[r].step = "before" /\ Goes(r, "tip")
  <2>1. run[r].failing \cap run[r].parents = {}
    BY <1>3 DEF BeforeWasGreen, Disjoint
  <2>2. QED
    BY <1>1, <1>3, <2>1, CaseMoves
<1>4. CASE /\ run[r].step \in {"tip", "search", "push"}
           /\ \E s \in Decided : Goes(r, s)
  BY <1>1, <1>4, CaseMoves
<1>5. QED
  BY <1>2, <1>3, <1>4 DEF LookAtBefore, LookAtTip, Search, Push

(* A revert is proposed: what failed neither at the parent nor for the     *)
(* world is the push's own.                                                *)
LEMMA ProposalIsJust ==
  ASSUME TrunkTypeOK, NEW r \in Runs, RunInv(r), Create(r)
  PROVE  RunInv(r)'
<1> DEFINE c == run[r].sha
<1> USE DEF Started, Judging, Weighing, Decided
<1>1. /\ run[r].step = "create" /\ run[r] \in RunRecords /\ c \in 1..tip
  BY DEF RunInv, Placed, TrunkTypeOK, Create
<1>2. UNCHANGED <<tip, defects, deletes, world, recovered>>
  BY DEF Create, Elsewhere
<1>3. CASE End(r)
  BY <1>3, NoCase
<1>4. CASE Opens(r, c)
  <2>1. /\ run'[r].step = "over" /\ run'[r].sha = c
        /\ run'[r].failing = run[r].failing /\ run'[r].buildBroke = run[r].buildBroke
        /\ run'[r].gateBroke = run[r].gateBroke
    BY <1>1, <1>4 DEF Opens, TrunkTypeOK, RunRecords
  <2>2. FellFor(r)
    BY <1>1 DEF RunInv, Accounted
  <2>3. run[r].failing # {} =>
          /\ run[r].failing \cap Rechecked
               \subseteq defects[c] \cup run[r].parents \cup recovered
          /\ defects[c - 1] \cap Rechecked \subseteq run[r].parents
          /\ run[r].failing \cap run[r].parents = {}
    BY <1>1 DEF RunInv, Accounted
  <2>4. run[r].failing # {} /\ defects[c] \subseteq defects[c - 1] =>
          run[r].failing \cap Rechecked \subseteq recovered
    BY <2>3
  <2>5. Guilty(r)'
    BY <1>2, <2>1, <2>2, <2>4 DEF Guilty, FellFor, Own
  <2>6. Placed(r)' /\ Accounted(r)'
    BY <1>1, <1>2, <2>1 DEF Placed, Accounted
  <2>7. QED
    BY <2>5, <2>6 DEF RunInv
<1>5. QED
  BY <1>3, <1>4 DEF Create

LEMMA RunStep ==
  ASSUME TrunkInv, [TrunkNext]_trunkVars, TrunkTypeOK',
         NEW q \in Runs
  PROVE  RunInv(q)'
<1> USE DEF TrunkInv
<1>1. TrunkTypeOK /\ RunInv(q)
  OBVIOUS
<1>2. tip' \in Commits /\ tip \in Nat
  BY BoundsAssumption DEF TrunkTypeOK, Commits
<1>3. ASSUME WorldAges, run'[q] = run[q]
      PROVE  RunInv(q)'
  BY <1>1, <1>2, <1>3, CaseStands
<1>4. ASSUME UNCHANGED <<tip, defects, deletes, world, recovered>>
      PROVE  WorldAges
  BY <1>2, <1>4 DEF WorldAges
<1>5. CASE \/ UNCHANGED trunkVars
           \/ \E c \in Commits : Close(c)
  <2>1. UNCHANGED <<tip, defects, deletes, world, recovered, run>>
    BY <1>5 DEF trunkVars, Close
  <2>2. QED
    BY <1>3, <1>4, <2>1
<1>6. CASE WorldMoves
  <2>1. UNCHANGED <<tip, defects, deletes, run>>
    BY <1>6 DEF WorldMoves
  <2>2. recovered \subseteq recovered' /\ world \subseteq world' \cup recovered'
    BY <1>6 DEF WorldMoves
  <2>3. WorldAges
    BY <1>2, <2>1, <2>2 DEF WorldAges
  <2>4. QED
    BY <1>3, <2>1, <2>3
<1>7. ASSUME NEW r \in Runs, Land(r)
      PROVE  RunInv(q)'
  <2>1. tip' = tip + 1 /\ tip + 1 \in Commits /\ Begin(r, tip + 1)
    BY <1>7, BoundsAssumption DEF Land, TrunkTypeOK, Commits
  <2>2. CASE q = r
    <3>1. tip + 1 \in 1..tip'
      BY <1>2, <2>1
    <3>2. QED
      BY <1>1, <2>1, <2>2, <3>1, CaseBegins
  <2>3. CASE q # r
    <3>1. run'[q] = run[q]
      BY <2>1, <2>3 DEF Begin, TrunkTypeOK
    <3>2. PICK d : defects' = [defects EXCEPT ![tip + 1] = d]
      BY <1>7 DEF Land
    <3>3. \A c \in 0..tip : defects'[c] = defects[c]
      <4>1. \A c \in 0..tip : c \in Commits /\ c # tip + 1
        BY <1>1, <1>2, BoundsAssumption DEF TrunkTypeOK, Commits
      <4>2. QED
        BY <3>2, <4>1 DEF TrunkTypeOK
    <3>4. deletes \subseteq deletes' /\ UNCHANGED <<world, recovered>>
      BY <1>7 DEF Land
    <3>5. WorldAges
      BY <1>2, <2>1, <3>3, <3>4 DEF WorldAges
    <3>6. QED
      BY <1>3, <3>1, <3>5
  <2>4. QED
    BY <2>2, <2>3
<1>8. ASSUME NEW r \in Runs, Dispatch(r)
      PROVE  RunInv(q)'
  <2>1. PICK c \in 1..tip : Begin(r, c)
    BY <1>8 DEF Dispatch
  <2>2. c \in Commits
    BY BoundsAssumption DEF TrunkTypeOK, Commits
  <2>3. UNCHANGED <<tip, defects, deletes, world, recovered>>
    BY <1>8 DEF Dispatch
  <2>4. CASE q = r
    <3>1. c \in 1..tip'
      BY <2>3
    <3>2. QED
      BY <1>1, <2>1, <2>2, <2>4, <3>1, CaseBegins
  <2>5. CASE q # r
    <3>1. run'[q] = run[q]
      BY <2>1, <2>5 DEF Begin, TrunkTypeOK
    <3>2. QED
      BY <1>3, <1>4, <2>3, <3>1
  <2>6. QED
    BY <2>4, <2>5
<1>9. ASSUME NEW r \in Runs, Judges(r) \/ Push(r) \/ Create(r) \/ Dies(r)
      PROVE  RunInv(q)'
  <2>1. CASE q = r
    BY <1>1, <1>9, <2>1, JobsAccount, ParentAccounts, VerdictAccounts,
       ProposalIsJust, NoCase DEF Judges, Dies
  <2>2. CASE q # r
    <3>1. /\ UNCHANGED <<tip, defects, deletes, world, recovered>>
          /\ \E new : run' = [run EXCEPT ![r] = new]
      <4>1. CASE Judges(r)
        BY <4>1, JudgeMoves DEF RunInv
      <4>2. CASE Push(r)
        BY <4>2 DEF Push, Goes, End, Elsewhere
      <4>3. CASE Create(r)
        BY <4>3 DEF Create, Opens, End, Elsewhere
      <4>4. CASE Dies(r)
        BY <4>4 DEF Dies, End, Elsewhere
      <4>5. QED
        BY <1>9, <4>1, <4>2, <4>3, <4>4
    <3>2. run'[q] = run[q]
      BY <2>2, <3>1 DEF TrunkTypeOK
    <3>3. QED
      BY <1>3, <1>4, <3>1, <3>2
  <2>3. QED
    BY <2>1, <2>2
<1>10. QED
  BY <1>5, <1>6, <1>7, <1>8, <1>9 DEF TrunkNext, Judges

LEMMA InitTrunk == TrunkInit => TrunkInv
<1> SUFFICES ASSUME TrunkInit
             PROVE  TrunkInv
  OBVIOUS
<1> USE UnusedTyped DEF TrunkInit
<1>1. TrunkTypeOK
  BY DEF TrunkTypeOK
<1>2. \A r \in Runs : run[r].step = "unused" /\ ~run[r].opened
  BY DEF Unused
<1>3. LockHeld
  BY <1>2 DEF LockHeld, Locked, Creates
<1>4. LockInv
  BY <1>3 DEF LockInv, Counted, StrandedIsTold
<1>5. ASSUME NEW r \in Runs
      PROVE  RunInv(r)
  BY <1>2 DEF RunInv, Placed, Accounted, Guilty, Started, Judging, Weighing, Decided
<1>6. QED
  BY <1>1, <1>4, <1>5 DEF TrunkInv

LEMMA TrunkInvariant == TrunkSpec => []TrunkInv
<1>1. TrunkInit => TrunkInv
  BY InitTrunk
<1>2. TrunkInv /\ [TrunkNext]_trunkVars => TrunkInv'
  <2> SUFFICES ASSUME TrunkInv, [TrunkNext]_trunkVars
               PROVE  TrunkInv'
    OBVIOUS
  <2>1. TrunkTypeOK /\ LockInv /\ \A r \in Runs : Placed(r)
    BY DEF TrunkInv, RunInv
  <2>2. TrunkTypeOK'
    <3>1. CASE TrunkNext
      BY <2>1, <3>1, TrunkStepTyped
    <3>2. CASE UNCHANGED trunkVars
      BY <2>1, <3>2 DEF trunkVars, TrunkTypeOK
    <3>3. QED
      BY <3>1, <3>2
  <2>3. LockInv'
    BY <2>1, LockStep
  <2>4. \A r \in Runs : RunInv(r)'
    BY <2>2, RunStep
  <2>5. QED
    BY <2>2, <2>3, <2>4 DEF TrunkInv
<1>3. QED
  BY <1>1, <1>2, PTL DEF TrunkSpec

(* Every reachable state of main, the runs on it and their reverts is      *)
(* typed: a run is at a step of the workflow, and a commit's conclusions   *)
(* are ones its jobs come to.                                              *)
THEOREM TrunkTypeCorrect == TrunkSpec => []TrunkTypeOK
<1>1. TrunkInv => TrunkTypeOK
  BY DEF TrunkInv
<1>2. QED
  BY <1>1, TrunkInvariant, PTL

(* However many runs look at however many pushes, a revert is proposed of  *)
(* one that broke something itself; that failed on a world which, of what  *)
(* is tried at the parent, recovered before that; or whose jobs did not    *)
(* run.                                                                    *)
THEOREM RevertsAreDeserved == TrunkSpec => []OnlyTheGuilty
<1>1. TrunkInv => OnlyTheGuilty
  BY DEF TrunkInv, RunInv, Guilty, OnlyTheGuilty
<1>2. QED
  BY <1>1, TrunkInvariant, PTL

(* However many runs decide on a push and whatever their searches find, a  *)
(* revert is not proposed twice unless its branch was deleted.             *)
THEOREM BranchIsTheLock == TrunkSpec => []OneRevertPerBranch
<1>1. TrunkInv => OneRevertPerBranch
  <2> SUFFICES ASSUME TrunkInv, NEW c \in Commits, opened[c] > 1, c \notin cut
               PROVE  FALSE
    BY DEF OneRevertPerBranch
  <2>1. Locked(c) /\ opened[c] \in Nat
    BY DEF TrunkInv, TrunkTypeOK, LockInv, LockHeld
  <2>2. opened[c] < 2
    BY <2>1 DEF Locked
  <2>3. QED
    BY <2>1, <2>2
<1>2. QED
  BY <1>1, TrunkInvariant, PTL

(* A revert branch without a pull request is about to get one, was         *)
(* reported, had one that a human closed, or was left by a run that died.  *)
THEOREM StrandedBranchIsTold == TrunkSpec => []StrandedIsTold
<1>1. TrunkInv => StrandedIsTold
  BY DEF TrunkInv, LockInv
<1>2. QED
  BY <1>1, TrunkInvariant, PTL
=============================================================================
