----------------------------- MODULE GuestProofs -----------------------------
(***************************************************************************)
(* The guest before and under a capture, for any number of preparations,   *)
(* dialogs, drives and misfortunes: DesktopPrepare, then ScreenReader.     *)
(*                                                                         *)
(* The fence of a preparation works because one still under way whose      *)
(* signal has not fired is the one the worker waits for                    *)
(* (UnfencedIsAwaited).                                                    *)
(*                                                                         *)
(* NVDA is recycled in time, and fresh after a failure, because in an      *)
(* orderly world one flow drives it, and at each place that flow can be at *)
(* the belief, where there is one, is not behind the fact: it credits no   *)
(* less than NVDA has served, and no NVDA that a capture died on is        *)
(* believed in (Along).                                                    *)
(*                                                                         *)
(* In any world the belief credits at most the quota and one capture for   *)
(* each flow, which is what its type says and not inductive: a flow that   *)
(* has asked will credit one more (CreditIsBounded).                       *)
(***************************************************************************)
EXTENDS DesktopPrepare, ScreenReader, FiniteSetTheorems, TLAPS

UnfencedIsAwaited ==
  \A p \in Preparations :
    at[p] # "over" /\ p \notin aborted => p = mine /\ slot = "preparing"

(* What is still up, it is about to close, or opened since it looked.      *)
ClearedSoFar ==
  slot # "free" /\ at[mine] # "list" /\ mine \notin aborted \cup degraded =>
    desktop \subseteq since \cup (IF at[mine] = "close" THEN seen[mine] ELSE {})

DesktopInv == TypeOK /\ UnfencedIsAwaited /\ ClearedSoFar

-----------------------------------------------------------------------------
LEMMA InitInv == Init => DesktopInv
<1> SUFFICES ASSUME Init PROVE DesktopInv
  OBVIOUS
<1>1. misfortunes \in 0 .. MaxMisfortunes
  <2>1. misfortunes = 0
    BY DEF Init
  <2>2. QED
    BY <2>1, MisfortunesAssumption
<1> USE DEF Init, Samplers
<1>2. TypeOK
  BY <1>1 DEF TypeOK
<1>3. UnfencedIsAwaited
  BY BootAssumption DEF UnfencedIsAwaited
<1>4. ClearedSoFar
  BY DEF ClearedSoFar
<1>5. QED
  BY <1>2, <1>3, <1>4 DEF DesktopInv

LEMMA WrongTyped ==
  ASSUME TypeOK, GoesWrong \/ UNCHANGED misfortunes
  PROVE  misfortunes' \in 0 .. MaxMisfortunes
<1>1. misfortunes \in 0 .. MaxMisfortunes
  BY DEF TypeOK
<1>2. QED
  BY <1>1, MisfortunesAssumption DEF GoesWrong

-----------------------------------------------------------------------------
LEMMA SamplesKeepTypes ==
  ASSUME TypeOK, NEW p \in Samplers, Samples(p)
  PROVE  TypeOK'
<1> USE BootAssumption DEF TypeOK, Samplers, GoesTo
<1>1. CASE ListDialogs(p)
  <2>1. misfortunes' \in 0 .. MaxMisfortunes
    BY <1>1, WrongTyped DEF ListDialogs
  <2>2. seen' \in [Samplers -> SUBSET Dialogs] /\ since' \subseteq Dialogs
        /\ degraded' \subseteq Preparations
    BY <1>1 DEF ListDialogs
  <2>3. \A q \in Samplers : at'[q] = "close" => seen'[q] # {}
    BY <1>1 DEF ListDialogs
  <2>4. at' \in [Samplers -> {"list", "close", "listed", "probe", "probed", "clear", "cleared", "over"}]
        /\ at'[Boot] \notin {"close", "clear", "cleared"}
    BY <1>1 DEF ListDialogs
  <2>5. QED
    BY <1>1, <2>1, <2>2, <2>3, <2>4 DEF ListDialogs
<1>2. CASE CloseDialogs(p)
  <2>1. misfortunes' \in 0 .. MaxMisfortunes
    BY <1>2, WrongTyped DEF CloseDialogs
  <2>2. desktop' \subseteq Dialogs /\ degraded' \subseteq Preparations
    BY <1>2 DEF CloseDialogs
  <2>3. QED
    BY <1>2, <2>1, <2>2 DEF CloseDialogs
<1>3. CASE DialogsDismissed(p)
  BY <1>3 DEF DialogsDismissed, AbandonedAfter, Forgets, cachevars
<1>4. CASE ProbeWindowOwner(p)
  <2>1. misfortunes' \in 0 .. MaxMisfortunes
    BY <1>4, WrongTyped DEF ProbeWindowOwner
  <2>2. QED
    BY <1>4, <2>1 DEF ProbeWindowOwner
<1>5. CASE WindowOwnerProbed(p)
  BY <1>5 DEF WindowOwnerProbed, AbandonedAfter, Forgets, cachevars
<1>6. CASE DismissForeground(p)
  <2>1. misfortunes' \in 0 .. MaxMisfortunes
    BY <1>6, WrongTyped DEF DismissForeground
  <2>2. QED
    BY <1>6, <2>1 DEF DismissForeground
<1>7. CASE ForegroundDismissed(p)
  BY <1>7 DEF ForegroundDismissed
<1>8. QED
  BY <1>1, <1>2, <1>3, <1>4, <1>5, <1>6, <1>7 DEF Samples

LEMMA BootKeepsTypes ==
  ASSUME TypeOK, BootSamples
  PROVE  TypeOK'
<1>1. CASE Samples(Boot)
  BY <1>1, SamplesKeepTypes DEF Samplers
<1>2. CASE DialogsSampled \/ ForegroundSampled
  BY <1>2, BootAssumption
     DEF DialogsSampled, ForegroundSampled, Forgets, GoesTo, TypeOK, Samplers
<1>3. QED
  BY <1>1, <1>2 DEF BootSamples

LEMMA CapturesKeepTypes ==
  ASSUME TypeOK,
         (\E p \in Preparations : PrepareDesktop(p)) \/ Captures \/ PrepareTimesOut
  PROVE  TypeOK'
<1> USE BootAssumption DEF TypeOK, Samplers, GoesTo
<1>1. ASSUME NEW p \in Preparations, PrepareDesktop(p)
      PROVE  TypeOK'
  BY <1>1 DEF PrepareDesktop
<1>2. CASE Captures
  BY <1>2 DEF Captures, PreparedInTime, CaptureEnds
<1>3. CASE PrepareTimesOut
  <2>1. misfortunes' \in 0 .. MaxMisfortunes
    BY <1>3, WrongTyped DEF PrepareTimesOut
  <2>2. QED
    BY <1>3, <2>1 DEF PrepareTimesOut
<1>4. QED
  BY <1>1, <1>2, <1>3

LEMMA WindowsKeepTypes ==
  ASSUME TypeOK, Windows
  PROVE  TypeOK'
<1>1. misfortunes' \in 0 .. MaxMisfortunes
  BY WrongTyped DEF Windows, DialogOpens, DialogGoes, ForegroundTaken, ForegroundGivenBack
<1>2. QED
  BY <1>1 DEF Windows, DialogOpens, DialogGoes, ForegroundTaken, ForegroundGivenBack, TypeOK

-----------------------------------------------------------------------------
(* A preparation that goes on changes nobody's signal and nobody's slot.   *)
LEMMA SamplesKeepFence ==
  ASSUME DesktopInv, NEW p \in Samplers, Samples(p)
  PROVE  UnfencedIsAwaited'
<1>1. slot' = slot /\ mine' = mine /\ aborted' = aborted
  BY DEF Samples, ListDialogs, CloseDialogs, DialogsDismissed, ProbeWindowOwner,
         WindowOwnerProbed, DismissForeground, ForegroundDismissed
<1>2. \A q \in Preparations \ {p} : at'[q] = at[q]
  BY DEF Samples, ListDialogs, CloseDialogs, DialogsDismissed, ProbeWindowOwner,
         WindowOwnerProbed, DismissForeground, ForegroundDismissed, GoesTo, AbandonedAfter,
         DesktopInv, TypeOK, Samplers
<1>3. at[p] # "over"
  BY DEF Samples, ListDialogs, CloseDialogs, DialogsDismissed, ProbeWindowOwner,
         WindowOwnerProbed, DismissForeground, ForegroundDismissed
<1>4. QED
  BY <1>1, <1>2, <1>3 DEF UnfencedIsAwaited, DesktopInv

LEMMA SamplesKeepCleared ==
  ASSUME DesktopInv, NEW p \in Samplers, Samples(p)
  PROVE  ClearedSoFar'
<1> USE BootAssumption DEF DesktopInv, TypeOK, Samplers, GoesTo, ClearedSoFar
<1>1. CASE ListDialogs(p) /\ p # mine
  <2>1. since' = since /\ at'[mine] = at[mine] /\ seen'[mine] = seen[mine]
        /\ degraded \subseteq degraded'
    BY <1>1 DEF ListDialogs
  <2>2. QED
    BY <1>1, <2>1 DEF ListDialogs
<1>2. CASE ListDialogs(p) /\ p = mine
  <2>1. CASE slot = "preparing"
    <3>1. CASE seen' = [seen EXCEPT ![p] = desktop]
               /\ GoesTo(p, IF p \in Preparations /\ desktop # {} THEN "close" ELSE "listed")
      BY <1>2, <2>1, <3>1 DEF ListDialogs
    <3>2. CASE degraded' = degraded \cup ({p} \ {Boot})
      BY <1>2, <2>1, <3>2 DEF ListDialogs
    <3>3. QED
      BY <1>2, <3>1, <3>2 DEF ListDialogs
  <2>2. CASE slot # "preparing"
    BY <1>2, <2>2 DEF ListDialogs, UnfencedIsAwaited
  <2>3. QED
    BY <2>1, <2>2
<1>3. CASE CloseDialogs(p)
  <2>1. desktop' \subseteq desktop /\ degraded \subseteq degraded'
    BY <1>3 DEF CloseDialogs
  <2>2. CASE p # mine
    BY <1>3, <2>1, <2>2 DEF CloseDialogs
  <2>3. CASE p = mine /\ desktop' = desktop \ seen[p]
    BY <1>3, <2>1, <2>3 DEF CloseDialogs
  <2>4. CASE p = mine /\ degraded' = degraded \cup {p}
    BY <1>3, <2>1, <2>4 DEF CloseDialogs
  <2>5. QED
    BY <1>3, <2>2, <2>3, <2>4 DEF CloseDialogs
<1>4. CASE DialogsDismissed(p) \/ WindowOwnerProbed(p)
  <2>1. /\ at[p] # "list" /\ at[p] # "close" /\ at'[p] # "close"
        /\ \A q \in Samplers \ {p} : at'[q] = at[q] /\ seen'[q] = seen[q]
        /\ UNCHANGED <<desktop, slot, mine, aborted, degraded, since>>
    BY <1>4 DEF DialogsDismissed, WindowOwnerProbed, AbandonedAfter, Forgets
  <2>2. QED
    BY <2>1
<1>5. CASE ProbeWindowOwner(p) \/ DismissForeground(p) \/ ForegroundDismissed(p)
  BY <1>5 DEF ProbeWindowOwner, DismissForeground, ForegroundDismissed
<1>6. QED
  BY <1>1, <1>2, <1>3, <1>4, <1>5 DEF Samples

LEMMA BootKeepsInv ==
  ASSUME DesktopInv, BootSamples
  PROVE  DesktopInv'
<1>1. TypeOK'
  BY BootKeepsTypes DEF DesktopInv
<1>2. CASE Samples(Boot)
  BY <1>1, <1>2, SamplesKeepFence, SamplesKeepCleared DEF DesktopInv, Samplers
<1>3. CASE DialogsSampled \/ ForegroundSampled
  <2>1. /\ \A p \in Preparations : at'[p] = at[p] /\ seen'[p] = seen[p]
        /\ UNCHANGED <<desktop, slot, mine, aborted, degraded, since>>
    BY <1>3, BootAssumption
       DEF DialogsSampled, ForegroundSampled, Forgets, GoesTo, DesktopInv, TypeOK, Samplers
  <2>2. mine \in Preparations
    BY DEF DesktopInv, TypeOK
  <2>3. UnfencedIsAwaited' /\ ClearedSoFar'
    BY <2>1, <2>2 DEF DesktopInv, UnfencedIsAwaited, ClearedSoFar
  <2>4. QED
    BY <1>1, <2>3 DEF DesktopInv
<1>4. QED
  BY <1>2, <1>3 DEF BootSamples

LEMMA CapturesKeepInv ==
  ASSUME DesktopInv,
         (\E p \in Preparations : PrepareDesktop(p)) \/ Captures \/ PrepareTimesOut
  PROVE  DesktopInv'
<1>1. TypeOK'
  BY CapturesKeepTypes DEF DesktopInv
<1>2. UnfencedIsAwaited' /\ ClearedSoFar'
  <2> USE BootAssumption
      DEF DesktopInv, TypeOK, Samplers, UnfencedIsAwaited, ClearedSoFar, GoesTo
  <2>1. ASSUME NEW p \in Preparations, PrepareDesktop(p)
        PROVE  UnfencedIsAwaited' /\ ClearedSoFar'
    BY <2>1 DEF PrepareDesktop
  <2>2. CASE Captures
    BY <2>2 DEF Captures, PreparedInTime, CaptureEnds
  <2>3. CASE PrepareTimesOut
    BY <2>3 DEF PrepareTimesOut
  <2>4. QED
    BY <2>1, <2>2, <2>3
<1>3. QED
  BY <1>1, <1>2 DEF DesktopInv

LEMMA WindowsKeepInv ==
  ASSUME DesktopInv, Windows
  PROVE  DesktopInv'
<1>1. TypeOK'
  BY WindowsKeepTypes DEF DesktopInv
<1>2. UnfencedIsAwaited'
  BY DEF DesktopInv, UnfencedIsAwaited, Windows, DialogOpens, DialogGoes, ForegroundTaken,
         ForegroundGivenBack
<1>3. ClearedSoFar'
  BY DEF DesktopInv, TypeOK, ClearedSoFar, Windows, DialogOpens, DialogGoes, ForegroundTaken,
         ForegroundGivenBack
<1>4. QED
  BY <1>1, <1>2, <1>3 DEF DesktopInv

LEMMA NextInv == DesktopInv /\ [Next]_vars => DesktopInv'
<1> SUFFICES ASSUME DesktopInv, [Next]_vars PROVE DesktopInv'
  OBVIOUS
<1>1. ASSUME NEW p \in Preparations, Samples(p)
      PROVE  DesktopInv'
  BY <1>1, SamplesKeepTypes, SamplesKeepFence, SamplesKeepCleared DEF DesktopInv, Samplers
<1>2. CASE BootSamples
  BY <1>2, BootKeepsInv
<1>3. CASE (\E p \in Preparations : PrepareDesktop(p)) \/ Captures \/ PrepareTimesOut
  BY <1>3, CapturesKeepInv
<1>4. CASE Windows
  BY <1>4, WindowsKeepInv
<1>5. CASE UNCHANGED vars
  BY <1>5 DEF vars, DesktopInv, TypeOK, UnfencedIsAwaited, ClearedSoFar, cachevars
<1>6. QED
  BY <1>1, <1>2, <1>3, <1>4, <1>5 DEF Next

-----------------------------------------------------------------------------
(* Every reachable state of the desktop's preparation is typed.            *)
THEOREM DesktopTypeCorrect == Spec => []TypeOK
<1>1. DesktopInv => TypeOK
  BY DEF DesktopInv
<1>2. QED
  BY <1>1, InitInv, NextInv, PTL DEF Spec

(* A capture prepared in time, every call working, finds no dialog that    *)
(* was up when its preparation looked.                                     *)
THEOREM PreparedFindsItClear == Spec => []PreparedMeansClear
<1>1. DesktopInv => PreparedMeansClear
  BY DEF DesktopInv, TypeOK, Samplers, UnfencedIsAwaited, ClearedSoFar, PreparedMeansClear
<1>2. QED
  BY <1>1, InitInv, NextInv, PTL DEF Spec

(* The fence: but for the boot sample, only the preparation the worker     *)
(* waits for ever writes what /health answers from.                        *)
THEOREM TheFenceHolds == Spec => OnlyTheAwaitedWrites
<1> DEFINE Awaited ==
      \/ at[Boot] # at'[Boot]
      \/ slot = "preparing" /\ at[mine] # at'[mine] /\ mine \notin aborted
<1>1. DesktopInv /\ [Next]_vars => [cachevars' # cachevars => Awaited]_vars
  <2> SUFFICES ASSUME DesktopInv, Next, cachevars' # cachevars PROVE Awaited
    BY DEF vars, cachevars
  <2> USE DEF DesktopInv, TypeOK, Samplers, GoesTo
  <2>1. ASSUME NEW p \in Samplers, Samples(p)
        PROVE  Awaited
    <3>1. /\ p \in Preparations /\ p \notin aborted
          /\ at[p] # "over" /\ at[p] # at'[p]
      BY <2>1 DEF Samples, ListDialogs, CloseDialogs, DialogsDismissed, ProbeWindowOwner,
         WindowOwnerProbed, DismissForeground, ForegroundDismissed, AbandonedAfter, cachevars
    <3>2. QED
      BY <3>1 DEF UnfencedIsAwaited
  <2>2. CASE DialogsSampled \/ ForegroundSampled
    BY <2>2 DEF DialogsSampled, ForegroundSampled
  <2>3. CASE (\E p \in Preparations : PrepareDesktop(p)) \/ Captures \/ PrepareTimesOut \/ Windows
    BY <2>3 DEF PrepareDesktop, Captures, PreparedInTime, CaptureEnds, PrepareTimesOut,
       Windows, DialogOpens, DialogGoes, ForegroundTaken, ForegroundGivenBack, cachevars
  <2>4. QED
    BY <2>1, <2>2, <2>3 DEF Next, BootSamples
<1>2. QED
  BY <1>1, InitInv, NextInv, PTL DEF Spec, OnlyTheAwaitedWrites

-----------------------------------------------------------------------------
(* The one NVDA (ScreenReader), for any number of drives and misfortunes.  *)
FlowRecords == [pc : Places, attempt : Nat, reuse : BOOLEAN,
                restart : BOOLEAN, outcome : Outcomes]

(* What the types say that hold in every world.                            *)
NvdaTyped ==
  /\ screenReader \in [running : BOOLEAN, captures : Nat]
  /\ served \in Nat
  /\ flow \in [Flows -> FlowRecords]
  /\ trouble \in [quirks : SUBSET AllQuirks, left : Nat]

Believed == screenReader.running
Credited == screenReader.captures

(* The quota is not used up, and what is believed to run is credited with  *)
(* what it has served; at p the next read-through is credited already.     *)
Counted(p) ==
  /\ served <= MAX_CAPTURES_PER_NVDA
  /\ Credited <= MAX_CAPTURES_PER_NVDA
  /\ Believed => served <= Credited
  /\ nvda = "down" => served = 0
  /\ p = "probe" =>
       served < MAX_CAPTURES_PER_NVDA /\ Credited < MAX_CAPTURES_PER_NVDA
  /\ p \in {"ensure", "restarted"} => served < MAX_CAPTURES_PER_NVDA
  /\ p \in {"ensure", "restarted"} /\ Believed => served < Credited

(* An NVDA a capture died on is not believed in, or about to be stopped.   *)
Untainted(p) ==
  /\ nvda = "down" => ~tainted
  /\ tainted /\ Believed => p = "stopping"
  /\ p \in {"probe", "ensure", "restarted", "reading"} => ~tainted
  /\ p \in {"gone", "again"} => nvda = "down"

Along(p) == Counted(p) /\ Untainted(p)

(* One flow at a time drives it; the others are at rest.                   *)
Alone(f) == \A g \in Flows \ {f} : flow[g].pc = "idle"

NvdaInv ==
  /\ NvdaTyped
  /\ Orderly =>
       /\ abandoned = {}
       /\ \E f \in Flows : Alone(f) /\ Along(flow[f].pc)

-----------------------------------------------------------------------------
LEMMA FlowMoves ==
  ASSUME flow \in [Flows -> FlowRecords], NEW f \in Flows,
         NEW r \in FlowRecords, flow' = [flow EXCEPT ![f] = r]
  PROVE  /\ flow' \in [Flows -> FlowRecords]
         /\ flow'[f] = r
         /\ \A g \in Flows \ {f} : flow'[g] = flow[g]
  OBVIOUS

LEMMA FlowGoes ==
  ASSUME flow \in [Flows -> FlowRecords], NEW f \in Flows,
         NEW place \in Places, Goto(f, place)
  PROVE  /\ flow' \in [Flows -> FlowRecords]
         /\ flow'[f].pc = place
         /\ \A g \in Flows \ {f} : flow'[g] = flow[g]
<1>1. flow' = [flow EXCEPT ![f] = [flow[f] EXCEPT !.pc = place]]
  BY DEF Goto
<1>2. [flow[f] EXCEPT !.pc = place] \in FlowRecords
  BY DEF FlowRecords
<1>3. [flow[f] EXCEPT !.pc = place].pc = place
  BY DEF FlowRecords
<1>4. QED
  BY <1>1, <1>2, <1>3, FlowMoves

LEMMA RestIsARecord == Rest \in FlowRecords /\ Rest.pc = "idle"
  BY DEF Rest, FlowRecords, Places, Starting, Outcomes

LEMMA Believes ==
  /\ Forgotten \in [running : BOOLEAN, captures : Nat]
  /\ Fresh \in [running : BOOLEAN, captures : Nat]
  /\ ~Forgotten.running /\ Forgotten.captures = 0
  /\ Fresh.running /\ Fresh.captures = 1
  BY DEF Forgotten, Fresh

LEMMA AskedPlaces ==
  ASSUME NEW reuse
  PROVE  AskFor(reuse) \in {"probe", "stop", "start"}
  BY DEF AskFor

-----------------------------------------------------------------------------
(* The counts.                                                             *)

LEMMA CountsAsked ==
  ASSUME NvdaTyped, NEW p, NEW reuse \in BOOLEAN, Counted(p)
  PROVE  Counted(AskFor(reuse))
<1> USE NvdaLimitsAssumption DEF NvdaTyped, Counted, Believed, Credited
<1>1. CASE reuse /\ screenReader.running
           /\ screenReader.captures < MAX_CAPTURES_PER_NVDA
  <2>1. AskFor(reuse) = "probe"
    BY <1>1 DEF AskFor
  <2>2. served < MAX_CAPTURES_PER_NVDA
    BY <1>1
  <2>3. QED
    BY <1>1, <2>1, <2>2
<1>2. CASE ~(reuse /\ screenReader.running
             /\ screenReader.captures < MAX_CAPTURES_PER_NVDA)
  <2>1. AskFor(reuse) \in {"stop", "start"}
    BY <1>2 DEF AskFor
  <2>2. QED
    BY <2>1
<1>3. QED
  BY <1>1, <1>2

(* Away from the places where a read-through is credited, all are alike.   *)
LEMMA CountsElsewhere ==
  ASSUME NEW p, NEW q, Counted(p), q \notin {"probe", "ensure", "restarted"}
  PROVE  Counted(q)
  BY DEF Counted

LEMMA TaintsElsewhere ==
  ASSUME NEW p, NEW q, Untainted(p), p # "stopping",
         q \notin {"probe", "ensure", "restarted", "reading", "gone", "again"}
  PROVE  Untainted(q)
  BY DEF Untainted

LEMMA TaintsAsked ==
  ASSUME NEW p, NEW reuse \in BOOLEAN, Untainted(p), p # "stopping"
  PROVE  Untainted(AskFor(reuse))
  BY DEF Untainted, AskFor, Believed

-----------------------------------------------------------------------------
(* What a step may do to NVDA and to the belief.                           *)

LEMMA UnmovedAlong ==
  ASSUME NEW p, Along(p), UNCHANGED <<screenReader, nvda, served, tainted>>
  PROVE  Along(p)'
  BY DEF Along, Counted, Untainted, Believed, Credited

(* NVDA anew, or gone, and the belief with it.                             *)
LEMMA AnewAlong ==
  ASSUME NEW p, p # "probe", served' = 0, tainted' = FALSE,
         screenReader' \in {Forgotten, Fresh},
         p \in {"gone", "again"} => nvda' = "down"
  PROVE  Along(p)'
<1>1. Counted(p)'
  <2>1. CASE screenReader' = Forgotten
    BY <2>1, Believes, NvdaLimitsAssumption DEF Counted, Believed, Credited
  <2>2. CASE screenReader' = Fresh
    BY <2>2, Believes, NvdaLimitsAssumption DEF Counted, Believed, Credited
  <2>3. QED
    BY <2>1, <2>2
<1>2. Untainted(p)'
  BY DEF Untainted
<1>3. QED
  BY <1>1, <1>2 DEF Along

(* NVDA anew, or gone, behind a belief that stays.                         *)
LEMMA AnewBehind ==
  ASSUME NvdaTyped, NEW q, Along(q), NEW p,
         p \notin {"probe", "ensure", "restarted"} \/ p = q,
         p \in {"gone", "again"} => nvda' = "down",
         served' = 0, tainted' = FALSE, screenReader' = screenReader
  PROVE  Along(p)'
<1>1. Counted(p)'
  <2>1. 0 <= Credited /\ 0 < MAX_CAPTURES_PER_NVDA
    BY NvdaLimitsAssumption DEF NvdaTyped, Credited
  <2>2. Counted(q)
    BY DEF Along
  <2>3. Credited <= MAX_CAPTURES_PER_NVDA
        /\ (p = "probe" => Credited < MAX_CAPTURES_PER_NVDA)
        /\ (p \in {"ensure", "restarted"} /\ Believed => 0 < Credited)
    <3>1. served \in Nat /\ Credited \in Nat
      BY DEF NvdaTyped, Credited
    <3>2. QED
      BY <2>2, <3>1 DEF Counted
  <2>4. served' = 0 /\ Credited' = Credited /\ (Believed' => Believed)
    BY DEF Believed, Credited
  <2>5. Believed' => served' <= Credited'
    BY <2>1, <2>4
  <2>6. p \in {"ensure", "restarted"} /\ Believed' => served' < Credited'
    BY <2>3, <2>4
  <2>7. /\ served' <= MAX_CAPTURES_PER_NVDA
        /\ Credited' <= MAX_CAPTURES_PER_NVDA
        /\ p = "probe" => served' < MAX_CAPTURES_PER_NVDA
                          /\ Credited' < MAX_CAPTURES_PER_NVDA
        /\ p \in {"ensure", "restarted"} => served' < MAX_CAPTURES_PER_NVDA
    BY <2>1, <2>3, <2>4, NvdaLimitsAssumption
  <2>8. QED
    BY <2>4, <2>5, <2>6, <2>7 DEF Counted
<1>2. Untainted(p)'
  BY DEF Untainted
<1>3. QED
  BY <1>1, <1>2 DEF Along

LEMMA ForgottenAlong ==
  ASSUME NEW q, Along(q), NEW p,
         \/ p = q
         \/ p \notin {"probe", "ensure", "restarted", "reading", "gone", "again"},
         UNCHANGED <<nvda, served, tainted>>, screenReader' = Forgotten
  PROVE  Along(p)'
<1>1. Counted(p)'
  BY Believes, NvdaLimitsAssumption DEF Along, Counted, Believed, Credited
<1>2. Untainted(p)'
  BY Believes DEF Along, Untainted, Believed
<1>3. QED
  BY <1>1, <1>2 DEF Along

LEMMA TroubleKept ==
  ASSUME NvdaTyped, UNCHANGED trouble \/ \E q \in AllQuirks : Quirk(q)
  PROVE  /\ trouble' \in [quirks : SUBSET AllQuirks, left : Nat]
         /\ Orderly' <=> Orderly
<1>1. CASE UNCHANGED trouble
  BY <1>1 DEF NvdaTyped, Orderly
<1>2. ASSUME NEW q \in AllQuirks, Quirk(q)
      PROVE  /\ trouble' \in [quirks : SUBSET AllQuirks, left : Nat]
             /\ Orderly' <=> Orderly
  <2>1. trouble' = [trouble EXCEPT !.left = trouble.left - 1] /\ trouble.left > 0
    BY <1>2 DEF Quirk
  <2>2. trouble.left - 1 \in Nat
    BY <2>1 DEF NvdaTyped
  <2>3. trouble'.quirks = trouble.quirks
    BY <2>1 DEF NvdaTyped
  <2>4. QED
    BY <2>1, <2>2, <2>3 DEF NvdaTyped, Orderly
<1>3. QED
  BY <1>1, <1>2

(* In an orderly world a stop works.                                       *)
LEMMA StopsWork ==
  ASSUME Orderly, NvdaStops
  PROVE  nvda' = "down" /\ served' = 0 /\ tainted' = FALSE
  BY DEF Orderly, NvdaStops, Quirk, OneAtATime

LEMMA StopFacts ==
  ASSUME NvdaTyped, NvdaStops
  PROVE  /\ served' \in Nat
         /\ UNCHANGED trouble \/ \E q \in AllQuirks : Quirk(q)
<1>1. CASE served' = 0 /\ UNCHANGED trouble
  BY <1>1
<1>2. CASE Quirk("stop does not take") /\ UNCHANGED served
  <2>1. "stop does not take" \in AllQuirks
    BY DEF AllQuirks
  <2>2. QED
    BY <1>2, <2>1 DEF NvdaTyped
<1>3. QED
  BY <1>1, <1>2 DEF NvdaStops

LEMMA ComeFacts ==
  ASSUME NvdaTyped, NvdaComesUp \/ NvdaFailsToStart
  PROVE  /\ served' = 0 /\ tainted' = FALSE
         /\ UNCHANGED trouble \/ \E q \in AllQuirks : Quirk(q)
  BY DEF NvdaComesUp, NvdaFailsToStart, AllQuirks

-----------------------------------------------------------------------------
(* Starting NVDA, step by step.                                            *)

(* A step of f keeps the types and the others where they are, reaches the  *)
(* read-through from a channel that was ensured only, and in an orderly    *)
(* world in which f is alone keeps what the counts say.                    *)
NvdaKeeps(f) ==
  /\ NvdaTyped'
  /\ Orderly' => Orderly
  /\ \A g \in Flows \ {f} : flow'[g] = flow[g]
  /\ flow'[f].pc = "reading" => flow[f].pc \in {"ensure", "restarted", "reading"}
  /\ Orderly /\ abandoned = {} /\ Along(flow[f].pc) =>
       abandoned' = {} /\ Along(flow[f].pc)'

LEMMA StartedFacts ==
  ASSUME NvdaTyped, NEW f \in Flows, Started(f)
  PROVE  /\ flow' \in [Flows -> FlowRecords]
         /\ flow'[f].pc \in {"idle", "ensure", "restarted"}
         /\ \A g \in Flows \ {f} : flow'[g] = flow[g]
<1>1. CASE f = Warm
  BY <1>1, FlowMoves, RestIsARecord DEF Started, NvdaTyped
<1>2. CASE f # Warm
  <2>1. PICK place \in {"restarted", "ensure"} : Goto(f, place)
    BY <1>2 DEF Started
  <2>2. place \in Places
    BY DEF Places
  <2>3. QED
    BY <2>1, <2>2, FlowGoes DEF NvdaTyped
<1>3. QED
  BY <1>1, <1>2

LEMMA FailsFacts ==
  ASSUME NvdaTyped, NEW f \in Flows, AttemptFails(f)
  PROVE  /\ flow' \in [Flows -> FlowRecords]
         /\ flow'[f].pc \in {"start", "idle"}
         /\ \A g \in Flows \ {f} : flow'[g] = flow[g]
         /\ screenReader' \in {Forgotten, screenReader}
         /\ abandoned' \subseteq abandoned
<1>1. CASE flow[f].attempt < NVDA_START_ATTEMPTS
  <2> DEFINE r == [flow[f] EXCEPT !.pc = "start", !.attempt = flow[f].attempt + 1]
  <2>1. flow' = [flow EXCEPT ![f] = r]
    BY <1>1 DEF AttemptFails
  <2>2. r \in FlowRecords /\ r.pc = "start"
    <3>1. flow[f] \in FlowRecords
      BY DEF NvdaTyped
    <3>2. flow[f].attempt + 1 \in Nat /\ "start" \in Places
      BY <3>1 DEF FlowRecords, Places, Starting
    <3>3. QED
      BY <3>1, <3>2 DEF FlowRecords
  <2>3. screenReader' = screenReader /\ abandoned' = abandoned
    BY <1>1 DEF AttemptFails
  <2> HIDE DEF r
  <2>4. QED
    BY <2>1, <2>2, <2>3, FlowMoves DEF NvdaTyped
<1>2. CASE ~(flow[f].attempt < NVDA_START_ATTEMPTS)
  BY <1>2, FlowMoves, RestIsARecord
     DEF AttemptFails, NotStarted, NvdaTyped
<1>3. QED
  BY <1>1, <1>2

LEMMA ProbeKeeps ==
  ASSUME NvdaTyped, NEW f \in Flows, Probe(f)
  PROVE  NvdaKeeps(f)
<1>1. UNCHANGED <<nvda, served, tainted, trouble, abandoned>>
  BY DEF Probe, NvdaUnchanged
<1>2. trouble' \in [quirks : SUBSET AllQuirks, left : Nat]
      /\ (Orderly' <=> Orderly)
  BY <1>1, TroubleKept
<1>3. CASE nvda = "down"
  <2> DEFINE r == [flow[f] EXCEPT !.pc = "start", !.attempt = 1]
  <2>1. flow' = [flow EXCEPT ![f] = r] /\ screenReader' = Forgotten
    BY <1>3 DEF Probe
  <2>2. r \in FlowRecords /\ r.pc = "start"
    BY DEF NvdaTyped, FlowRecords, Places, Starting
  <2> HIDE DEF r
  <2>3. /\ flow' \in [Flows -> FlowRecords] /\ flow'[f].pc = "start"
        /\ \A g \in Flows \ {f} : flow'[g] = flow[g]
    BY <2>1, <2>2, FlowMoves DEF NvdaTyped
  <2>4. NvdaTyped'
    BY <1>1, <1>2, <2>1, <2>3, Believes DEF NvdaTyped
  <2>5. ASSUME Along(flow[f].pc) PROVE Along(flow[f].pc)'
    <3>1. Along("start")'
      BY <1>1, <2>1, <2>5, ForgottenAlong
    <3>2. QED
      BY <2>3, <3>1
  <2>6. QED
    BY <1>1, <1>2, <2>3, <2>4, <2>5 DEF NvdaKeeps
<1>4. CASE nvda # "down"
  <2>1. /\ screenReader' = [screenReader EXCEPT !.captures = screenReader.captures + 1]
        /\ Started(f)
        /\ flow[f].pc = "probe"
    BY <1>4 DEF Probe
  <2>2. /\ flow' \in [Flows -> FlowRecords]
        /\ flow'[f].pc \in {"idle", "ensure", "restarted"}
        /\ \A g \in Flows \ {f} : flow'[g] = flow[g]
    BY <2>1, StartedFacts
  <2>3. Credited' = Credited + 1 /\ Believed' = Believed /\ Credited \in Nat
    BY <2>1 DEF NvdaTyped, Credited, Believed
  <2>4. NvdaTyped'
    BY <1>1, <1>2, <2>1, <2>2 DEF NvdaTyped
  <2>5. ASSUME Along("probe"), NEW p \in {"idle", "ensure", "restarted"}
        PROVE  Along(p)'
    <3>1. /\ served < MAX_CAPTURES_PER_NVDA /\ Credited < MAX_CAPTURES_PER_NVDA
          /\ Believed => served <= Credited
          /\ nvda = "down" => served = 0
      BY <2>5 DEF Along, Counted
    <3>2. Counted(p)'
      <4>1. served' \in Nat /\ served' = served /\ Credited' \in Nat
            /\ MAX_CAPTURES_PER_NVDA \in Nat
        BY <1>1, <2>3, NvdaLimitsAssumption DEF NvdaTyped
      <4>2. Believed' => served' < Credited'
        BY <2>3, <3>1, <4>1
      <4>3. served' < MAX_CAPTURES_PER_NVDA /\ Credited' <= MAX_CAPTURES_PER_NVDA
        BY <2>3, <3>1, <4>1
      <4>4. QED
        BY <1>1, <3>1, <4>1, <4>2, <4>3 DEF Counted
    <3>3. Untainted(p)'
      BY <1>1, <2>5 DEF Along, Untainted
    <3>4. QED
      BY <3>2, <3>3 DEF Along
  <2>6. ASSUME Along(flow[f].pc) PROVE Along(flow[f].pc)'
    <3>1. PICK p \in {"idle", "ensure", "restarted"} : flow'[f].pc = p
      BY <2>2
    <3>2. Along(p)'
      BY <2>1, <2>5, <2>6
    <3>3. QED
      BY <3>1, <3>2
  <2>7. QED
    BY <1>1, <1>2, <2>2, <2>4, <2>6 DEF NvdaKeeps
<1>5. QED
  BY <1>3, <1>4

LEMMA StopKeeps ==
  ASSUME NvdaTyped, NEW f \in Flows, Stop(f)
  PROVE  NvdaKeeps(f)
<1> DEFINE r == [flow[f] EXCEPT !.pc = "start", !.attempt = 1]
<1>1. /\ flow' = [flow EXCEPT ![f] = r] /\ screenReader' = Forgotten
      /\ NvdaStops /\ abandoned' = abandoned
  BY DEF Stop
<1>2. r \in FlowRecords /\ r.pc = "start"
  BY DEF NvdaTyped, FlowRecords, Places, Starting
<1> HIDE DEF r
<1>3. /\ flow' \in [Flows -> FlowRecords] /\ flow'[f].pc = "start"
      /\ \A g \in Flows \ {f} : flow'[g] = flow[g]
  BY <1>1, <1>2, FlowMoves DEF NvdaTyped
<1>4. /\ served' \in Nat
      /\ trouble' \in [quirks : SUBSET AllQuirks, left : Nat]
      /\ Orderly' <=> Orderly
  BY <1>1, StopFacts, TroubleKept
<1>5. NvdaTyped'
  BY <1>1, <1>3, <1>4, Believes DEF NvdaTyped
<1>6. ASSUME Orderly PROVE Along(flow[f].pc)'
  <2>1. Along("start")'
    BY <1>1, <1>6, StopsWork, AnewAlong
  <2>2. QED
    BY <1>3, <2>1
<1>7. QED
  BY <1>1, <1>3, <1>4, <1>5, <1>6 DEF NvdaKeeps

(* The outcomes of a call of nvda.start that finds no NVDA.                *)
LEMMA ComesUpOwned ==
  ASSUME NvdaTyped, NEW f \in Flows,
         NvdaComesUp, Owned(f)
  PROVE  NvdaKeeps(f)
<1>1. /\ flow' \in [Flows -> FlowRecords]
      /\ flow'[f].pc \in {"idle", "ensure", "restarted"}
      /\ \A g \in Flows \ {f} : flow'[g] = flow[g]
  BY StartedFacts DEF Owned
<1>2. screenReader' = Fresh /\ abandoned' = abandoned
  BY DEF Owned
<1>3. /\ served' = 0 /\ tainted' = FALSE
      /\ trouble' \in [quirks : SUBSET AllQuirks, left : Nat]
      /\ Orderly' <=> Orderly
  BY ComeFacts, TroubleKept
<1>4. NvdaTyped'
  BY <1>1, <1>2, <1>3, Believes DEF NvdaTyped
<1>5. PICK p \in {"idle", "ensure", "restarted"} : flow'[f].pc = p
  BY <1>1
<1>6. Along(p)'
  BY <1>2, <1>3, AnewAlong
<1>7. QED
  BY <1>1, <1>2, <1>3, <1>4, <1>5, <1>6 DEF NvdaKeeps

LEMMA FailsToStart ==
  ASSUME NvdaTyped, NEW f \in Flows,
         NvdaFailsToStart, AttemptFails(f)
  PROVE  NvdaKeeps(f)
<1>1. /\ flow' \in [Flows -> FlowRecords]
      /\ flow'[f].pc \in {"start", "idle"}
      /\ \A g \in Flows \ {f} : flow'[g] = flow[g]
      /\ screenReader' \in {Forgotten, screenReader}
      /\ abandoned' \subseteq abandoned
  BY FailsFacts
<1>2. /\ served' = 0 /\ tainted' = FALSE
      /\ trouble' \in [quirks : SUBSET AllQuirks, left : Nat]
      /\ Orderly' <=> Orderly
  BY ComeFacts, TroubleKept
<1>3. NvdaTyped'
  BY <1>1, <1>2, Believes DEF NvdaTyped
<1>4. PICK p \in {"start", "idle"} : flow'[f].pc = p
  BY <1>1
<1>5. ASSUME Along(flow[f].pc) PROVE Along(p)'
  <2>1. CASE screenReader' = Forgotten
    BY <1>2, <2>1, AnewAlong
  <2>2. CASE screenReader' = screenReader
    BY <1>2, <1>5, <2>2, AnewBehind
  <2>3. QED
    BY <1>1, <2>1, <2>2
<1>6. QED
  BY <1>1, <1>2, <1>3, <1>4, <1>5 DEF NvdaKeeps

(* A step that only goes on.                                               *)
LEMMA GoingKeeps ==
  ASSUME NvdaTyped, NEW f \in Flows,
         NEW place \in Places \ {"reading"}, Goto(f, place),
         UNCHANGED <<screenReader, nvda, served, tainted, trouble, abandoned>>,
         Along(flow[f].pc) => Along(place)
  PROVE  NvdaKeeps(f)
<1>1. /\ flow' \in [Flows -> FlowRecords]
      /\ flow'[f].pc = place
      /\ \A g \in Flows \ {f} : flow'[g] = flow[g]
  BY FlowGoes DEF NvdaTyped
<1>2. NvdaTyped' /\ (Orderly' => Orderly)
  BY <1>1 DEF NvdaTyped, Orderly
<1>3. ASSUME Along(flow[f].pc) PROVE Along(flow[f].pc)'
  <2>1. Along(place)'
    BY <1>3, UnmovedAlong
  <2>2. QED
    BY <1>1, <2>1
<1>4. QED
  BY <1>1, <1>2, <1>3 DEF NvdaKeeps

LEMMA StartFreshKeeps ==
  ASSUME NvdaTyped, NEW f \in Flows,
         StartFreshScreenReader(f)
  PROVE  NvdaKeeps(f)
<1>1. CASE NvdaComesUp /\ Owned(f)
  BY <1>1, ComesUpOwned
<1>2. CASE NvdaFailsToStart /\ AttemptFails(f)
  BY <1>2, FailsToStart
<1>3. CASE NvdaUnchanged /\ Goto(f, "clear")
           /\ UNCHANGED <<screenReader, abandoned, warm>>
  <2>1. "clear" \in Places \ {"reading"}
    BY DEF Places, Starting
  <2>2. flow[f].pc = "start"
    BY DEF StartFreshScreenReader
  <2>3. Along(flow[f].pc) => Along("clear")
    BY <2>2, CountsElsewhere, TaintsElsewhere DEF Along
  <2>4. QED
    BY <1>3, <2>1, <2>3, GoingKeeps DEF NvdaUnchanged
<1>4. QED
  BY <1>1, <1>2, <1>3 DEF StartFreshScreenReader

LEMMA ClearKeeps ==
  ASSUME NvdaTyped, NEW f \in Flows, ClearLeftover(f)
  PROVE  NvdaKeeps(f)
<1>1. /\ NvdaStops /\ Goto(f, "gone")
      /\ UNCHANGED <<screenReader, abandoned>>
  BY DEF ClearLeftover
<1>2. "gone" \in Places
  BY DEF Places, Starting
<1>3. /\ flow' \in [Flows -> FlowRecords] /\ flow'[f].pc = "gone"
      /\ \A g \in Flows \ {f} : flow'[g] = flow[g]
  BY <1>1, <1>2, FlowGoes DEF NvdaTyped
<1>4. /\ served' \in Nat
      /\ trouble' \in [quirks : SUBSET AllQuirks, left : Nat]
      /\ Orderly' <=> Orderly
  BY <1>1, StopFacts, TroubleKept
<1>5. NvdaTyped'
  BY <1>1, <1>3, <1>4 DEF NvdaTyped
<1>6. ASSUME Orderly, Along(flow[f].pc) PROVE Along(flow[f].pc)'
  <2>1. Along("gone")'
    BY <1>1, <1>6, StopsWork, AnewBehind
  <2>2. QED
    BY <1>3, <2>1
<1>7. QED
  BY <1>1, <1>3, <1>4, <1>5, <1>6 DEF NvdaKeeps

LEMMA WaitKeeps ==
  ASSUME NvdaTyped, NEW f \in Flows,
         WaitForScreenReaderGone(f)
  PROVE  NvdaKeeps(f)
<1>1. "again" \in Places \ {"reading"}
  BY DEF Places, Starting
<1>2. flow[f].pc = "gone" /\ Goto(f, "again")
      /\ UNCHANGED <<screenReader, nvda, served, tainted, trouble, abandoned>>
  BY DEF WaitForScreenReaderGone, NvdaUnchanged
<1>3. Along("gone") => Along("again")
  BY CountsElsewhere DEF Along, Untainted
<1>4. QED
  BY <1>1, <1>2, <1>3, GoingKeeps

LEMMA StartAgainKeeps ==
  ASSUME NvdaTyped, NEW f \in Flows, StartAgain(f)
  PROVE  NvdaKeeps(f)
<1>1. CASE NvdaComesUp /\ Owned(f)
  BY <1>1, ComesUpOwned
<1>2. CASE NvdaFailsToStart /\ AttemptFails(f)
  BY <1>2, FailsToStart
<1>3. CASE /\ nvda # "down" /\ NvdaUnchanged
           /\ AttemptFails(f) \/ Owned(f)
  <2>1. ~Along(flow[f].pc)
    BY <1>3 DEF StartAgain, Along, Untainted
  <2>2. /\ flow' \in [Flows -> FlowRecords]
        /\ flow'[f].pc \in {"start", "idle", "ensure", "restarted"}
        /\ \A g \in Flows \ {f} : flow'[g] = flow[g]
        /\ screenReader' \in {Forgotten, Fresh, screenReader}
    BY <1>3, FailsFacts, StartedFacts DEF Owned
  <2>3. UNCHANGED <<served, trouble>>
    BY <1>3 DEF NvdaUnchanged
  <2>4. NvdaTyped' /\ (Orderly' => Orderly)
    BY <2>2, <2>3, Believes DEF NvdaTyped, Orderly
  <2>5. QED
    BY <2>1, <2>2, <2>4 DEF NvdaKeeps
<1>4. QED
  BY <1>1, <1>2, <1>3 DEF StartAgain

LEMMA FlowStepKeeps ==
  ASSUME NvdaTyped, NEW f \in Flows, FlowStep(f)
  PROVE  NvdaKeeps(f)
  BY ProbeKeeps, StopKeeps, StartFreshKeeps, ClearKeeps, WaitKeeps,
     StartAgainKeeps DEF FlowStep

-----------------------------------------------------------------------------
(* A drive.                                                                *)

LEMMA DrivesFlow == ASSUME NEW d \in Drives PROVE d \in Flows
  BY DEF Flows

LEMMA BeginKeeps ==
  ASSUME NvdaTyped, NEW d \in Drives, NEW reuse \in BOOLEAN,
         Begin(d, reuse)
  PROVE  NvdaKeeps(d)
<1> DEFINE r == [Rest EXCEPT !.pc = "opening", !.reuse = reuse]
<1>1. flow' = [flow EXCEPT ![d] = r] /\ flow[d].pc = "idle"
      /\ UNCHANGED <<screenReader, nvda, served, tainted, trouble, abandoned>>
  BY DEF Begin, NvdaUnchanged
<1>2. r \in FlowRecords /\ r.pc = "opening"
  BY RestIsARecord DEF FlowRecords, Places
<1> HIDE DEF r
<1>3. /\ flow' \in [Flows -> FlowRecords] /\ flow'[d].pc = "opening"
      /\ \A g \in Flows \ {d} : flow'[g] = flow[g]
  BY <1>1, <1>2, FlowMoves, DrivesFlow DEF NvdaTyped
<1>4. NvdaTyped' /\ (Orderly' => Orderly)
  BY <1>1, <1>3 DEF NvdaTyped, Orderly
<1>5. ASSUME Along("idle") PROVE Along("opening")'
  <2>1. Along("opening")
    BY <1>5, CountsElsewhere, TaintsElsewhere DEF Along
  <2>2. QED
    BY <1>1, <2>1, UnmovedAlong
<1>6. QED
  BY <1>1, <1>3, <1>4, <1>5 DEF NvdaKeeps

LEMMA PageOpensKeeps ==
  ASSUME NvdaTyped, NEW d \in Drives, PageOpens(d)
  PROVE  NvdaKeeps(d)
<1>1. flow[d].reuse \in BOOLEAN
  BY DrivesFlow DEF NvdaTyped, FlowRecords
<1>2. PICK place \in Places \ {"reading"} : place = AskFor(flow[d].reuse)
  BY AskedPlaces DEF Places, Starting
<1>3. Along("opening") => Along(place)
  BY <1>1, <1>2, CountsAsked, TaintsAsked DEF Along
<1>4. flow[d].pc = "opening" /\ Goto(d, place)
      /\ UNCHANGED <<screenReader, nvda, served, tainted, trouble, abandoned>>
  BY <1>2 DEF PageOpens, NvdaUnchanged
<1>5. QED
  BY <1>3, <1>4, GoingKeeps, DrivesFlow

(* A drive that is over, with what it believed or without.                 *)
LEMMA OverKeeps ==
  ASSUME NvdaTyped, NEW d \in Drives,
         flow' = [flow EXCEPT ![d] = Rest],
         abandoned' = abandoned \ {d},
         UNCHANGED <<nvda, served, trouble>>,
         screenReader' \in {screenReader, Forgotten},
         Along(flow[d].pc) /\ abandoned = {} => Along("idle")'
  PROVE  NvdaKeeps(d)
<1>1. /\ flow' \in [Flows -> FlowRecords] /\ flow'[d].pc = "idle"
      /\ \A g \in Flows \ {d} : flow'[g] = flow[g]
  BY FlowMoves, RestIsARecord, DrivesFlow DEF NvdaTyped
<1>2. NvdaTyped' /\ (Orderly' => Orderly)
  BY <1>1, Believes DEF NvdaTyped, Orderly
<1>3. QED
  BY <1>1, <1>2 DEF NvdaKeeps

LEMMA PageFailsKeeps ==
  ASSUME NvdaTyped, NEW d \in Drives, PageFails(d)
  PROVE  NvdaKeeps(d)
<1>1. /\ flow[d].pc = "opening"
      /\ flow' = [flow EXCEPT ![d] = Rest]
      /\ abandoned' = abandoned \ {d}
      /\ UNCHANGED <<nvda, served, tainted, trouble>>
      /\ screenReader' \in {screenReader, Forgotten}
  BY DEF PageFails, RecoverFromFailure, NvdaUnchanged
<1>2. ASSUME Along("opening") PROVE Along("idle")'
  <2>1. CASE screenReader' = Forgotten
    BY <1>1, <1>2, <2>1, ForgottenAlong
  <2>2. CASE screenReader' = screenReader
    <3>1. Along("idle")
      BY <1>2, CountsElsewhere, TaintsElsewhere DEF Along
    <3>2. QED
      BY <1>1, <2>2, <3>1, UnmovedAlong
  <2>3. QED
    BY <1>1, <2>1, <2>2
<1>3. QED
  BY <1>1, <1>2, OverKeeps

(* The finally of a drive whose NVDA no capture has died on.               *)
LEMMA CleanupKeeps ==
  ASSUME NvdaTyped, NEW d \in Drives,
         NEW outcome \in Outcomes, StopAndCleanup(d, outcome),
         UNCHANGED <<nvda, served, trouble>>,
         flow[d].pc \in {"reading", "restarted"}
  PROVE  NvdaKeeps(d)
<1>1. ASSUME NEW p \in {"reading", "restarted"}, Along(p)
      PROVE  /\ \A q \in {"idle", "stopping"} : Counted(q) /\ Untainted(q)
             /\ ~tainted
  BY <1>1, CountsElsewhere DEF Along, Untainted
<1>2. CASE flow[d].reuse /\ outcome = "ok"
  <2>1. /\ flow' = [flow EXCEPT ![d] = Rest]
        /\ abandoned' = abandoned \ {d}
        /\ UNCHANGED <<screenReader, tainted>>
    BY <1>2 DEF StopAndCleanup, RecoverFromFailure
  <2>2. ASSUME Along(flow[d].pc) PROVE Along("idle")'
    BY <1>1, <2>1, <2>2, UnmovedAlong DEF Along
  <2>3. QED
    BY <2>1, <2>2, OverKeeps
<1>3. CASE ~(flow[d].reuse /\ outcome = "ok") /\ screenReader.running
  <2> DEFINE r == [flow[d] EXCEPT !.pc = "stopping", !.outcome = outcome]
  <2>1. /\ flow' = [flow EXCEPT ![d] = r]
        /\ tainted' = (tainted \/ (nvda # "down" /\ outcome # "ok"))
        /\ UNCHANGED <<screenReader, abandoned>>
    BY <1>3 DEF StopAndCleanup
  <2>2. r \in FlowRecords /\ r.pc = "stopping"
    BY DrivesFlow DEF NvdaTyped, FlowRecords, Places
  <2> HIDE DEF r
  <2>3. /\ flow' \in [Flows -> FlowRecords] /\ flow'[d].pc = "stopping"
        /\ \A g \in Flows \ {d} : flow'[g] = flow[g]
    BY <2>1, <2>2, FlowMoves, DrivesFlow DEF NvdaTyped
  <2>4. NvdaTyped' /\ (Orderly' => Orderly)
    BY <2>1, <2>3 DEF NvdaTyped, Orderly
  <2>5. ASSUME Along(flow[d].pc) PROVE Along("stopping")'
    <3>1. Counted("stopping")'
      BY <1>1, <2>1, <2>5 DEF Counted, Believed, Credited
    <3>2. Untainted("stopping")'
      BY <1>1, <2>1, <2>5 DEF Untainted, Believed
    <3>3. QED
      BY <3>1, <3>2 DEF Along
  <2>6. QED
    BY <2>1, <2>3, <2>4, <2>5 DEF NvdaKeeps
<1>4. CASE ~(flow[d].reuse /\ outcome = "ok") /\ ~screenReader.running
  <2>1. /\ flow' = [flow EXCEPT ![d] = Rest]
        /\ abandoned' = abandoned \ {d}
        /\ tainted' = (tainted \/ (nvda # "down" /\ outcome # "ok"))
        /\ screenReader' \in {screenReader, Forgotten}
    BY <1>4 DEF StopAndCleanup, RecoverFromFailure
  <2>2. ~screenReader'.running
    BY <1>4, <2>1, Believes
  <2>3. ASSUME Along(flow[d].pc) PROVE Along("idle")'
    <3>1. Counted("idle") /\ Untainted("idle")
      BY <1>1, <2>3
    <3>2. Credited' <= MAX_CAPTURES_PER_NVDA
      BY <2>1, <3>1, Believes, NvdaLimitsAssumption DEF Counted, Credited
    <3>3. Counted("idle")'
      BY <2>2, <3>1, <3>2 DEF Counted, Believed
    <3>4. Untainted("idle")'
      BY <2>1, <2>2, <3>1 DEF Untainted, Believed
    <3>5. QED
      BY <3>3, <3>4 DEF Along
  <2>4. QED
    BY <2>1, <2>3, OverKeeps
<1>5. QED
  BY <1>2, <1>3, <1>4

LEMMA ReadsKeeps ==
  ASSUME NvdaTyped, NEW d \in Drives, Reads(d),
         flow[d].pc \in {"ensure", "restarted"}, nvda = "up"
  PROVE  NvdaKeeps(d)
<1>1. /\ Goto(d, "reading") /\ served' = served + 1
      /\ UNCHANGED <<screenReader, nvda, tainted, abandoned, trouble>>
  BY DEF Reads
<1>2. "reading" \in Places
  BY DEF Places
<1>3. /\ flow' \in [Flows -> FlowRecords] /\ flow'[d].pc = "reading"
      /\ \A g \in Flows \ {d} : flow'[g] = flow[g]
  BY <1>1, <1>2, FlowGoes, DrivesFlow DEF NvdaTyped
<1>4. NvdaTyped' /\ (Orderly' => Orderly)
  BY <1>1, <1>3 DEF NvdaTyped, Orderly
<1>5. ASSUME NEW p \in {"ensure", "restarted"}, Along(p)
      PROVE  Along("reading")'
  <2>1. served \in Nat /\ Credited \in Nat /\ MAX_CAPTURES_PER_NVDA \in Nat
    BY NvdaLimitsAssumption DEF NvdaTyped, Credited
  <2>2. /\ served < MAX_CAPTURES_PER_NVDA /\ Credited <= MAX_CAPTURES_PER_NVDA
        /\ Believed => served < Credited
    BY <1>5 DEF Along, Counted
  <2>3. served' <= MAX_CAPTURES_PER_NVDA /\ (Believed => served' <= Credited)
    BY <1>1, <2>1, <2>2
  <2>4. Believed' = Believed /\ Credited' = Credited
    BY <1>1 DEF Believed, Credited
  <2>5. Counted("reading")'
    BY <1>1, <2>2, <2>3, <2>4 DEF Counted
  <2>6. Untainted("reading")'
    BY <1>1, <1>5 DEF Along, Untainted
  <2>7. QED
    BY <2>5, <2>6 DEF Along
<1>6. QED
  BY <1>1, <1>3, <1>4, <1>5 DEF NvdaKeeps

LEMMA EnsureKeeps ==
  ASSUME NvdaTyped, NEW d \in Drives,
         EnsureSpeechChannel(d)
  PROVE  NvdaKeeps(d)
<1>1. flow[d].pc = "ensure"
  BY DEF EnsureSpeechChannel
<1>2. CASE nvda = "up" /\ Reads(d)
  BY <1>1, <1>2, ReadsKeeps
<1>3. CASE ResetSpeechSocket
  <2>1. /\ nvda = "mute" /\ nvda' = "up"
        /\ UNCHANGED <<screenReader, served, tainted, flow, abandoned, trouble>>
    BY <1>3 DEF ResetSpeechSocket
  <2>2. NvdaTyped' /\ (Orderly' => Orderly)
    BY <2>1 DEF NvdaTyped, Orderly
  <2>3. ASSUME Along("ensure") PROVE Along("ensure")'
    BY <2>1, <2>3 DEF Along, Counted, Untainted, Believed, Credited
  <2>4. QED
    BY <1>1, <2>1, <2>2, <2>3 DEF NvdaKeeps
<1>4. CASE /\ flow' = [flow EXCEPT ![d].pc = AskFor(FALSE),
                                   ![d].attempt = 1, ![d].restart = TRUE]
           /\ UNCHANGED <<screenReader, abandoned>>
           /\ NvdaUnchanged
  <2> DEFINE r == [flow[d] EXCEPT !.pc = AskFor(FALSE), !.attempt = 1,
                                  !.restart = TRUE]
  <2>1. /\ flow' = [flow EXCEPT ![d] = r]
        /\ UNCHANGED <<screenReader, nvda, served, tainted, abandoned, trouble>>
    BY <1>4 DEF NvdaUnchanged
  <2>2. AskFor(FALSE) \in Places
    BY AskedPlaces DEF Places, Starting
  <2>3. r \in FlowRecords /\ r.pc = AskFor(FALSE)
    BY <2>2, DrivesFlow DEF NvdaTyped, FlowRecords
  <2> HIDE DEF r
  <2>4. /\ flow' \in [Flows -> FlowRecords]
        /\ flow'[d].pc = AskFor(FALSE)
        /\ \A g \in Flows \ {d} : flow'[g] = flow[g]
    BY <2>1, <2>3, FlowMoves, DrivesFlow DEF NvdaTyped
  <2>5. NvdaTyped' /\ (Orderly' => Orderly)
    BY <2>1, <2>4 DEF NvdaTyped, Orderly
  <2>6. PICK p \in {"probe", "stop", "start"} : p = AskFor(FALSE)
    BY AskedPlaces
  <2>7. ASSUME Along("ensure") PROVE Along(p)'
    <3>1. Along(p)
      BY <2>6, <2>7, CountsAsked, TaintsAsked DEF Along
    <3>2. QED
      BY <2>1, <3>1, UnmovedAlong
  <2>8. QED
    BY <1>1, <2>1, <2>4, <2>5, <2>6, <2>7 DEF NvdaKeeps
<1>5. QED
  BY <1>2, <1>3, <1>4 DEF EnsureSpeechChannel

LEMMA FreshChannelKeeps ==
  ASSUME NvdaTyped, NEW d \in Drives, FreshChannel(d)
  PROVE  NvdaKeeps(d)
<1>1. flow[d].pc = "restarted"
  BY DEF FreshChannel
<1>2. CASE nvda = "up" /\ Reads(d)
  BY <1>1, <1>2, ReadsKeeps
<1>3. CASE StopAndCleanup(d, "thrown") /\ UNCHANGED <<nvda, served, trouble>>
  BY <1>1, <1>3, CleanupKeeps DEF Outcomes
<1>4. QED
  BY <1>2, <1>3 DEF FreshChannel

LEMMA ReadKeeps ==
  ASSUME NvdaTyped, NEW d \in Drives,
         NEW outcome \in Outcomes, Read(d, outcome)
  PROVE  NvdaKeeps(d)
  BY CleanupKeeps DEF Read

LEMMA StoppedKeeps ==
  ASSUME NvdaTyped, NEW d \in Drives, Stopped(d)
  PROVE  NvdaKeeps(d)
<1>1. /\ NvdaStops /\ screenReader' = Forgotten
      /\ flow' = [flow EXCEPT ![d] = Rest]
      /\ abandoned' = abandoned \ {d}
  BY DEF Stopped
<1>2. /\ flow' \in [Flows -> FlowRecords] /\ flow'[d].pc = "idle"
      /\ \A g \in Flows \ {d} : flow'[g] = flow[g]
  BY <1>1, FlowMoves, RestIsARecord, DrivesFlow DEF NvdaTyped
<1>3. /\ served' \in Nat
      /\ trouble' \in [quirks : SUBSET AllQuirks, left : Nat]
      /\ Orderly' <=> Orderly
  BY <1>1, StopFacts, TroubleKept
<1>4. NvdaTyped'
  BY <1>1, <1>2, <1>3, Believes DEF NvdaTyped
<1>5. ASSUME Orderly PROVE Along("idle")'
  BY <1>1, <1>5, StopsWork, AnewAlong
<1>6. QED
  BY <1>1, <1>2, <1>3, <1>4, <1>5 DEF NvdaKeeps

LEMMA DriveStepKeeps ==
  ASSUME NvdaTyped, NEW d \in Drives, DriveStep(d)
  PROVE  NvdaKeeps(d)
  BY PageOpensKeeps, PageFailsKeeps, EnsureKeeps, FreshChannelKeeps,
     ReadKeeps, StoppedKeeps DEF DriveStep

LEMMA WarmUpKeeps ==
  ASSUME NvdaTyped, WarmUpOnceIfNeeded
  PROVE  NvdaKeeps(Warm)
<1> DEFINE r == [Rest EXCEPT !.pc = AskFor(TRUE)]
<1>1. /\ flow' = [flow EXCEPT ![Warm] = r] /\ flow[Warm].pc = "idle"
      /\ UNCHANGED <<screenReader, nvda, served, tainted, abandoned, trouble>>
  BY DEF WarmUpOnceIfNeeded, NvdaUnchanged
<1>2. AskFor(TRUE) \in Places /\ Warm \in Flows
  BY AskedPlaces DEF Places, Starting, Flows
<1>3. r \in FlowRecords /\ r.pc = AskFor(TRUE)
  BY <1>2, RestIsARecord DEF FlowRecords
<1> HIDE DEF r
<1>4. /\ flow' \in [Flows -> FlowRecords]
      /\ flow'[Warm].pc = AskFor(TRUE)
      /\ \A g \in Flows \ {Warm} : flow'[g] = flow[g]
  BY <1>1, <1>2, <1>3, FlowMoves DEF NvdaTyped
<1>5. NvdaTyped' /\ (Orderly' => Orderly)
  BY <1>1, <1>4 DEF NvdaTyped, Orderly
<1>6. PICK p \in {"probe", "stop", "start"} : p = AskFor(TRUE)
  BY AskedPlaces
<1>7. ASSUME Along("idle") PROVE Along(p)'
  <2>1. Along(p)
    BY <1>6, <1>7, CountsAsked, TaintsAsked DEF Along
  <2>2. QED
    BY <1>1, <2>1, UnmovedAlong
<1>8. QED
  BY <1>1, <1>4, <1>5, <1>6, <1>7 DEF NvdaKeeps

-----------------------------------------------------------------------------
(* The steps that are nobody's.                                            *)

LEMMA HardTimeoutKeeps ==
  ASSUME NvdaInv, NEW d \in Drives, HardTimeout(d)
  PROVE  NvdaInv'
<1>1. /\ Quirk("hangs") /\ screenReader' = Forgotten
      /\ UNCHANGED <<served, flow>>
  BY DEF HardTimeout
<1>2. trouble' \in [quirks : SUBSET AllQuirks, left : Nat]
      /\ (Orderly' <=> Orderly)
  BY <1>1, TroubleKept DEF NvdaInv, AllQuirks
<1>3. ~Orderly
  BY <1>1 DEF Quirk, Orderly, OneAtATime
<1>4. QED
  BY <1>1, <1>2, <1>3, Believes DEF NvdaInv, NvdaTyped

LEMMA DiesKeeps ==
  ASSUME NvdaTyped, NEW f \in Flows, Dies
  PROVE  NvdaKeeps(f)
<1>1. /\ nvda # "down"
      /\ \/ Quirk("dies") /\ nvda' = "down" /\ served' = 0 /\ tainted' = FALSE
         \/ Quirk("mute") /\ nvda' = "mute" /\ UNCHANGED <<served, tainted>>
      /\ UNCHANGED <<screenReader, flow, abandoned>>
  BY DEF Dies
<1>2. "dies" \in AllQuirks /\ "mute" \in AllQuirks
  BY DEF AllQuirks
<1>3. /\ trouble' \in [quirks : SUBSET AllQuirks, left : Nat]
      /\ Orderly' <=> Orderly
  BY <1>1, <1>2, TroubleKept
<1>4. NvdaTyped'
  BY <1>1, <1>3 DEF NvdaTyped
<1>5. ASSUME NEW p, Along(p) PROVE Along(p)'
  <2>1. CASE nvda' = "down" /\ served' = 0 /\ tainted' = FALSE
    BY <1>1, <1>5, <2>1, AnewBehind
  <2>2. CASE nvda' = "mute" /\ UNCHANGED <<served, tainted>>
    BY <1>1, <1>5, <2>2 DEF Along, Counted, Untainted, Believed, Credited
  <2>3. QED
    BY <1>1, <2>1, <2>2
<1>6. PICK p : p = flow[f].pc
  OBVIOUS
<1>7. Along(p) => Along(p)'
  BY <1>5
<1>8. QED
  BY <1>1, <1>3, <1>4, <1>6, <1>7 DEF NvdaKeeps

LEMMA ChannelLostKeeps ==
  ASSUME NvdaTyped, NEW f \in Flows, ChannelLost
  PROVE  NvdaKeeps(f)
<1>1. /\ Quirk("channel lost") /\ screenReader' = Forgotten
      /\ UNCHANGED <<nvda, served, tainted, flow, abandoned>>
  BY DEF ChannelLost
<1>2. "channel lost" \in AllQuirks
  BY DEF AllQuirks
<1>3. /\ trouble' \in [quirks : SUBSET AllQuirks, left : Nat]
      /\ Orderly' <=> Orderly
  BY <1>1, <1>2, TroubleKept
<1>4. NvdaTyped'
  BY <1>1, <1>3, Believes DEF NvdaTyped
<1>5. PICK p : p = flow[f].pc
  OBVIOUS
<1>6. Along(p) => Along(p)'
  BY <1>1, ForgottenAlong
<1>7. QED
  BY <1>1, <1>3, <1>4, <1>5, <1>6 DEF NvdaKeeps

(* All flows but the warm-up's are at rest, and that one is to start NVDA. *)
LEMMA WarmStarts ==
  ASSUME NEW fs,
         fs = [f \in Flows |->
                 IF f = Warm THEN [Rest EXCEPT !.pc = "start"] ELSE Rest]
  PROVE  /\ fs \in [Flows -> FlowRecords]
         /\ Warm \in Flows /\ fs[Warm].pc = "start"
         /\ \A g \in Flows \ {Warm} : fs[g].pc = "idle"
<1>1. [Rest EXCEPT !.pc = "start"] \in FlowRecords
  BY RestIsARecord DEF FlowRecords, Places, Starting
<1>2. [Rest EXCEPT !.pc = "start"].pc = "start"
  BY RestIsARecord DEF FlowRecords
<1>3. QED
  BY <1>1, <1>2, RestIsARecord DEF Flows

LEMMA TerminateKeeps ==
  ASSUME NvdaInv, Terminate
  PROVE  NvdaInv'
<1>1. /\ IF screenReader.running THEN NvdaStops ELSE NvdaUnchanged
      /\ screenReader' = Forgotten /\ abandoned' = {}
      /\ flow' = [f \in Flows |->
                    IF f = Warm THEN [Rest EXCEPT !.pc = "start"] ELSE Rest]
  BY DEF Terminate
<1>2. /\ flow' \in [Flows -> FlowRecords]
      /\ Warm \in Flows /\ flow'[Warm].pc = "start"
      /\ \A g \in Flows \ {Warm} : flow'[g].pc = "idle"
  BY <1>1, WarmStarts
<1>3. /\ served' \in Nat
      /\ UNCHANGED trouble \/ \E q \in AllQuirks : Quirk(q)
  <2>1. CASE NvdaStops
    BY <2>1, StopFacts DEF NvdaInv
  <2>2. CASE NvdaUnchanged
    BY <2>2 DEF NvdaInv, NvdaTyped, NvdaUnchanged
  <2>3. QED
    BY <1>1, <2>1, <2>2
<1>4. /\ trouble' \in [quirks : SUBSET AllQuirks, left : Nat]
      /\ Orderly' <=> Orderly
  BY <1>3, TroubleKept DEF NvdaInv
<1>5. NvdaTyped'
  BY <1>1, <1>2, <1>3, <1>4, Believes DEF NvdaTyped
<1>6. ASSUME Orderly PROVE Along("start")'
  <2>1. CASE NvdaStops
    BY <1>1, <1>6, <2>1, StopsWork, AnewAlong
  <2>2. CASE NvdaUnchanged
    <3>1. PICK q : Along(q)
      BY <1>6 DEF NvdaInv
    <3>2. QED
      BY <1>1, <2>2, <3>1, ForgottenAlong DEF NvdaUnchanged
  <2>3. QED
    BY <1>1, <2>1, <2>2
<1>7. QED
  BY <1>1, <1>2, <1>4, <1>5, <1>6 DEF NvdaInv, Alone

-----------------------------------------------------------------------------
(* Who acts is the flow that is alone.                                     *)

LEMMA TheOneAtWork ==
  ASSUME NvdaInv, Orderly, NEW f \in Flows,
         flow[f].pc # "idle" \/ \A g \in Flows : flow[g].pc = "idle"
  PROVE  abandoned = {} /\ Alone(f) /\ Along(flow[f].pc)
<1>1. PICK g \in Flows : Alone(g) /\ Along(flow[g].pc)
  BY DEF NvdaInv
<1>2. Alone(f) /\ flow[f].pc = flow[g].pc
  BY <1>1 DEF Alone
<1>3. QED
  BY <1>1, <1>2 DEF NvdaInv

LEMMA KeepsInv ==
  ASSUME NvdaInv, NEW f \in Flows, NvdaKeeps(f),
         Orderly => abandoned = {} /\ Alone(f) /\ Along(flow[f].pc)
  PROVE  NvdaInv'
<1>1. ASSUME Orderly'
      PROVE  abandoned' = {} /\ Alone(f)' /\ Along(flow[f].pc)'
  BY <1>1 DEF NvdaKeeps, Alone
<1>2. QED
  BY <1>1 DEF NvdaInv, NvdaKeeps

LEMMA NvdaStepKeeps ==
  ASSUME NvdaInv, [NvdaNext]_nvdaVars
  PROVE  NvdaInv'
<1>0. NvdaTyped
  BY DEF NvdaInv
<1>1. ASSUME NEW f \in Flows, FlowStep(f)
      PROVE  NvdaInv'
  <2>1. flow[f].pc # "idle"
    BY <1>1 DEF FlowStep, Probe, Stop, StartFreshScreenReader,
                ClearLeftover, WaitForScreenReaderGone, StartAgain
  <2>2. QED
    BY <1>0, <1>1, <2>1, FlowStepKeeps, TheOneAtWork, KeepsInv
<1>2. ASSUME NEW d \in Drives, DriveStep(d)
      PROVE  NvdaInv'
  <2>1. flow[d].pc # "idle"
    BY <1>2 DEF DriveStep, PageOpens, PageFails,
                EnsureSpeechChannel, FreshChannel, Read, Stopped
  <2>2. QED
    BY <1>0, <1>2, <2>1, DrivesFlow, DriveStepKeeps, TheOneAtWork, KeepsInv
<1>3. ASSUME NEW d \in Drives, NEW reuse \in BOOLEAN, Begin(d, reuse)
      PROVE  NvdaInv'
  <2>1. ASSUME Orderly PROVE \A g \in Flows : flow[g].pc = "idle"
    BY <1>3, <2>1
       DEF Begin, Current, Flows, Orderly, OneAtATime,
           NvdaInv
  <2>2. QED
    BY <1>0, <1>3, <2>1, DrivesFlow, BeginKeeps, TheOneAtWork, KeepsInv
<1>4. CASE WarmUpOnceIfNeeded
  <2>1. ASSUME Orderly PROVE \A g \in Flows : flow[g].pc = "idle"
    BY <1>4, <2>1
       DEF WarmUpOnceIfNeeded, Current, Flows, Orderly,
           OneAtATime, NvdaInv
  <2>2. Warm \in Flows
    BY DEF Flows
  <2>3. QED
    BY <1>0, <1>4, <2>1, <2>2, WarmUpKeeps, TheOneAtWork, KeepsInv
<1>5. CASE Dies \/ ChannelLost
  <2>1. PICK f \in Flows :
          Orderly => Alone(f) /\ Along(flow[f].pc)
    BY DEF NvdaInv, Flows
  <2>2. NvdaKeeps(f)
    BY <1>0, <1>5, DiesKeeps, ChannelLostKeeps
  <2>3. QED
    BY <2>1, <2>2, KeepsInv DEF NvdaInv
<1>6. CASE UNCHANGED nvdaVars
  <2>1. UNCHANGED <<screenReader, nvda, served, tainted, flow, abandoned, trouble>>
    BY <1>6 DEF nvdaVars
  <2>2. NvdaTyped' /\ (Orderly' <=> Orderly)
    BY <1>0, <2>1 DEF NvdaTyped, Orderly
  <2>3. ASSUME NEW p, Along(p) PROVE Along(p)'
    BY <2>1, <2>3, UnmovedAlong
  <2>4. QED
    BY <2>1, <2>2, <2>3 DEF NvdaInv, Alone
<1>7. QED
  BY <1>1, <1>2, <1>3, <1>4, <1>5, <1>6, HardTimeoutKeeps, TerminateKeeps
     DEF NvdaNext

LEMMA InitNvda == NvdaInit => NvdaInv
<1> SUFFICES ASSUME NvdaInit
             PROVE  NvdaInv
  OBVIOUS
<1>1. /\ flow \in [Flows -> FlowRecords]
      /\ Warm \in Flows /\ flow[Warm].pc = "start" /\ Alone(Warm)
  BY WarmStarts DEF NvdaInit, Alone
<1>2. trouble \in [quirks : SUBSET AllQuirks, left : Nat]
  BY WorldsAssumption DEF NvdaInit
<1>3. NvdaTyped
  BY <1>1, <1>2, Believes DEF NvdaInit, NvdaTyped
<1>4. Along("start")
  BY Believes, NvdaLimitsAssumption
   DEF NvdaInit, Along, Counted, Untainted, Believed, Credited
<1>5. QED
  BY <1>1, <1>3, <1>4 DEF NvdaInv, NvdaInit

LEMMA NvdaInvariant == NvdaSpec => []NvdaInv
<1>1. NvdaInit => NvdaInv
  BY InitNvda
<1>2. NvdaInv /\ [NvdaNext]_nvdaVars => NvdaInv'
  BY NvdaStepKeeps
<1>3. QED
  BY <1>1, <1>2, PTL DEF NvdaSpec

(* An NVDA serves no more read-throughs than MAX_CAPTURES_PER_NVDA: in an  *)
(* orderly world the belief that counts them, though it may be forgotten   *)
(* at any time, is never behind what NVDA has served.                      *)
THEOREM NvdaIsRecycled == NvdaSpec => []RecycledInTime
<1>1. NvdaInv => RecycledInTime
  BY DEF NvdaInv, Along, Counted, RecycledInTime
<1>2. QED
  BY <1>1, NvdaInvariant, PTL

(* No read-through begins on an NVDA an earlier capture died on.           *)
BeginsUntainted ==
  Orderly => \A d \in Drives : StartsReading(d) => ~tainted

(* Who comes to read comes from a channel it has ensured, where NVDA is    *)
(* untainted.                                                              *)
LEMMA ReadsUntainted ==
  ASSUME NvdaInv, Orderly, NEW d \in Drives, StartsReading(d),
         NEW f \in Flows, NvdaKeeps(f)
  PROVE  ~tainted
<1>1. abandoned = {}
  BY DEF NvdaInv
<1>2. flow'[d].pc = "reading" /\ flow[d].pc # "reading"
  BY <1>1 DEF StartsReading, Reading
<1>3. d = f
  BY <1>2, DrivesFlow DEF NvdaKeeps
<1>4. flow[d].pc \in {"ensure", "restarted"}
  BY <1>2, <1>3 DEF NvdaKeeps
<1>5. Along(flow[d].pc)
  BY <1>4, DrivesFlow, TheOneAtWork
<1>6. QED
  BY <1>4, <1>5 DEF Along, Untainted

LEMMA StepUntainted ==
  ASSUME NvdaInv, NvdaNext
  PROVE  BeginsUntainted
<1> SUFFICES ASSUME Orderly, NEW d \in Drives, StartsReading(d)
             PROVE  ~tainted
  BY DEF BeginsUntainted
<1>0. NvdaTyped /\ Warm \in Flows /\ d \in Flows
  BY DEF NvdaInv, Flows
<1>1. CASE \E f \in Flows : FlowStep(f)
  BY <1>0, <1>1, FlowStepKeeps, ReadsUntainted
<1>2. CASE \E e \in Drives : DriveStep(e)
  BY <1>0, <1>2, DrivesFlow, DriveStepKeeps, ReadsUntainted
<1>3. CASE \E e \in Drives, reuse \in BOOLEAN : Begin(e, reuse)
  BY <1>0, <1>3, DrivesFlow, BeginKeeps, ReadsUntainted
<1>4. CASE WarmUpOnceIfNeeded
  BY <1>0, <1>4, WarmUpKeeps, ReadsUntainted
<1>5. CASE Dies \/ ChannelLost
  BY <1>0, <1>5, DiesKeeps, ChannelLostKeeps, ReadsUntainted
<1>6. CASE \E e \in Drives : HardTimeout(e)
  BY <1>6 DEF HardTimeout, Quirk, Orderly, OneAtATime
<1>7. CASE Terminate
  <2>1. flow'[d].pc \in {"start", "idle"}
    BY <1>0, <1>7, WarmStarts DEF Terminate
  <2>2. QED
    BY <2>1 DEF StartsReading, Reading
<1>8. QED
  BY <1>1, <1>2, <1>3, <1>4, <1>5, <1>6, <1>7 DEF NvdaNext

(* The attempt after a failure reads from a fresh NVDA, whatever the       *)
(* belief, the leftovers and the recovery were (ensureSpeechChannel,       *)
(* recoverFromFailure).                                                    *)
THEOREM FreshNvdaAfterFailure == NvdaSpec => FreshAfterFailure
<1>1. NvdaInv /\ [NvdaNext]_nvdaVars => [BeginsUntainted]_nvdaVars
  BY StepUntainted
<1>2. NvdaSpec => [][BeginsUntainted]_nvdaVars
  BY <1>1, NvdaInvariant, PTL DEF NvdaSpec
<1>3. QED
  BY <1>2 DEF FreshAfterFailure, BeginsUntainted

-----------------------------------------------------------------------------
(* The types, in every world.  How many captures the belief credits has a  *)
(* bound although flows may overlap: each asks while the quota is not used *)
(* up, and credits one capture from its probe.                             *)

StepRecords == [pc : Places, attempt : 1 .. NVDA_START_ATTEMPTS,
                reuse : BOOLEAN, restart : BOOLEAN, outcome : Outcomes]

Probing == {f \in Flows : flow[f].pc = "probe"}

CreditIsBounded ==
  Credited + Cardinality(Probing) <= MAX_CAPTURES_PER_NVDA + Cardinality(Flows)

NvdaTypesInv == NvdaTypeOK /\ CreditIsBounded

(* What a step of f may make of the belief: credit a capture from a probe, *)
(* begin anew, or leave it, and f comes to a probe within the quota only.  *)
Credits(f) ==
  \/ screenReader' \in {Forgotten, Fresh}
  \/ /\ screenReader' = screenReader
     /\ flow'[f].pc = "probe" =>
          flow[f].pc = "probe" \/ Credited < MAX_CAPTURES_PER_NVDA
  \/ /\ flow[f].pc = "probe" /\ flow'[f].pc # "probe"
     /\ screenReader' = [screenReader EXCEPT !.captures = screenReader.captures + 1]

(* A flow that comes to rest is nobody's any more.                         *)
Rests(f) ==
  /\ abandoned' \in {abandoned, abandoned \ {f}}
  /\ flow'[f].pc = "idle" => f \notin abandoned'

FlowTyped(f) ==
  /\ flow' \in [Flows -> StepRecords]
  /\ \A g \in Flows \ {f} : flow'[g] = flow[g]

NvdaKinds ==
  /\ nvda' \in {"down", "up", "mute"}
  /\ tainted' \in BOOLEAN

WarmKinds == [ok : BOOLEAN, attempts : 0 .. MAX_WARM_ATTEMPTS]

TypesKept(f) ==
  /\ FlowTyped(f) /\ Rests(f) /\ Credits(f)
  /\ NvdaKinds /\ warm' \in WarmKinds

LEMMA TypesOfFlows ==
  ASSUME NvdaTypeOK
  PROVE  /\ flow \in [Flows -> StepRecords]
         /\ warm \in WarmKinds
         /\ Warm \in Flows /\ Warm \notin abandoned /\ abandoned \subseteq Drives
  BY FlowsAssumption DEF NvdaTypeOK, StepRecords, WarmKinds, Flows

LEMMA FlowMovesTyped ==
  ASSUME NvdaTypeOK, NEW f \in Flows,
         NEW r \in StepRecords, flow' = [flow EXCEPT ![f] = r]
  PROVE  FlowTyped(f) /\ flow'[f] = r
  BY TypesOfFlows DEF FlowTyped

LEMMA FlowGoesTyped ==
  ASSUME NvdaTypeOK, NEW f \in Flows, NEW place \in Places, Goto(f, place)
  PROVE  FlowTyped(f) /\ flow'[f].pc = place
<1>1. flow' = [flow EXCEPT ![f] = [flow[f] EXCEPT !.pc = place]]
  BY DEF Goto
<1>2. /\ [flow[f] EXCEPT !.pc = place] \in StepRecords
      /\ [flow[f] EXCEPT !.pc = place].pc = place
  BY TypesOfFlows DEF StepRecords
<1>3. QED
  BY <1>1, <1>2, FlowMovesTyped

(* Places a flow begins its starts at, with the first attempt.             *)
LEMMA FlowBeginsTyped ==
  ASSUME NvdaTypeOK, NEW f \in Flows, NEW place \in Places, NEW again \in BOOLEAN,
         \/ flow' = [flow EXCEPT ![f] = [flow[f] EXCEPT !.pc = place, !.attempt = 1]]
         \/ flow' = [flow EXCEPT ![f] =
              [flow[f] EXCEPT !.pc = place, !.attempt = 1, !.restart = again]]
  PROVE  FlowTyped(f) /\ flow'[f].pc = place
<1>1. flow[f] \in StepRecords /\ 1 \in 1 .. NVDA_START_ATTEMPTS
  BY TypesOfFlows, NvdaLimitsAssumption
<1>2. PICK r : /\ flow' = [flow EXCEPT ![f] = r]
               /\ \/ r = [flow[f] EXCEPT !.pc = place, !.attempt = 1]
                  \/ r = [flow[f] EXCEPT !.pc = place, !.attempt = 1, !.restart = again]
  OBVIOUS
<1>3. r \in StepRecords /\ r.pc = place
  BY <1>1, <1>2 DEF StepRecords
<1>4. QED
  BY <1>2, <1>3, FlowMovesTyped

LEMMA RestIsTyped == Rest \in StepRecords /\ Rest.pc = "idle"
  BY NvdaLimitsAssumption DEF Rest, StepRecords, Places, Starting, Outcomes

LEMMA NvdaActs ==
  ASSUME NvdaTypeOK, NvdaStops \/ NvdaComesUp \/ NvdaFailsToStart \/ NvdaUnchanged
  PROVE  NvdaKinds
  BY DEF NvdaTypeOK, NvdaStops, NvdaComesUp, NvdaFailsToStart, NvdaUnchanged, NvdaKinds

-----------------------------------------------------------------------------
LEMMA StartedTyped ==
  ASSUME NvdaTypeOK, NEW f \in Flows, Started(f), abandoned' = abandoned
  PROVE  FlowTyped(f) /\ flow'[f].pc # "probe" /\ Rests(f) /\ warm' \in WarmKinds
<1>1. CASE f = Warm
  <2>1. flow' = [flow EXCEPT ![f] = Rest] /\ warm' = [ok |-> TRUE, attempts |-> 0]
    BY <1>1 DEF Started
  <2>2. FlowTyped(f) /\ flow'[f].pc = "idle"
    BY <2>1, FlowMovesTyped, RestIsTyped
  <2>3. warm' \in WarmKinds
    BY <2>1, NvdaLimitsAssumption DEF WarmKinds
  <2>4. QED
    BY <1>1, <2>2, <2>3, TypesOfFlows DEF Rests
<1>2. CASE f # Warm
  <2>1. PICK place \in {"restarted", "ensure"} : Goto(f, place)
    BY <1>2 DEF Started
  <2>2. place \in Places /\ warm' = warm
    BY <1>2 DEF Places, Started
  <2>3. QED
    BY <2>1, <2>2, FlowGoesTyped, TypesOfFlows DEF Rests
<1>3. QED
  BY <1>1, <1>2

LEMMA NotStartedTyped ==
  ASSUME NvdaTypeOK, NEW f \in Flows, NotStarted(f)
  PROVE  FlowTyped(f) /\ Rests(f) /\ Credits(f) /\ warm' \in WarmKinds
  BY FlowMovesTyped, RestIsTyped, TypesOfFlows DEF NotStarted, Rests, Credits

LEMMA FailsTyped ==
  ASSUME NvdaTypeOK, NEW f \in Flows, AttemptFails(f)
  PROVE  FlowTyped(f) /\ Rests(f) /\ Credits(f) /\ warm' \in WarmKinds
<1>1. CASE flow[f].attempt < NVDA_START_ATTEMPTS
  <2> DEFINE r == [flow[f] EXCEPT !.pc = "start", !.attempt = flow[f].attempt + 1]
  <2>1. flow' = [flow EXCEPT ![f] = r] /\ UNCHANGED <<screenReader, abandoned, warm>>
    BY <1>1 DEF AttemptFails
  <2>2. r \in StepRecords /\ r.pc = "start"
    <3>1. flow[f] \in StepRecords
      BY TypesOfFlows
    <3>2. flow[f].attempt + 1 \in 1 .. NVDA_START_ATTEMPTS /\ "start" \in Places
      BY <1>1, <3>1, NvdaLimitsAssumption DEF StepRecords, Places, Starting
    <3>3. QED
      BY <3>1, <3>2 DEF StepRecords
  <2> HIDE DEF r
  <2>3. QED
    BY <2>1, <2>2, FlowMovesTyped, TypesOfFlows DEF Rests, Credits
<1>2. CASE ~(flow[f].attempt < NVDA_START_ATTEMPTS)
  BY <1>2, NotStartedTyped DEF AttemptFails
<1>3. QED
  BY <1>1, <1>2

LEMMA OwnedTyped ==
  ASSUME NvdaTypeOK, NEW f \in Flows, Owned(f)
  PROVE  FlowTyped(f) /\ Rests(f) /\ Credits(f) /\ warm' \in WarmKinds
  BY StartedTyped DEF Owned, Credits

(* To await something else, the belief as it is.                           *)
LEMMA GoesOnTyped ==
  ASSUME NvdaTypeOK, NEW f \in Flows, NEW place \in Places \ {"idle", "probe"},
         Goto(f, place), UNCHANGED <<screenReader, abandoned, warm>>
  PROVE  FlowTyped(f) /\ Rests(f) /\ Credits(f) /\ warm' \in WarmKinds
  BY FlowGoesTyped, TypesOfFlows DEF Rests, Credits

LEMMA FlowStepTyped ==
  ASSUME NvdaTypeOK, NEW f \in Flows, FlowStep(f)
  PROVE  TypesKept(f)
<1> USE DEF TypesKept
<1>0. {"start", "clear", "gone", "again"} \subseteq Places \ {"idle", "probe"}
  BY DEF Places, Starting
<1>1. CASE Probe(f)
  <2>1. NvdaKinds /\ flow[f].pc = "probe" /\ abandoned' = abandoned
    BY <1>1, NvdaActs DEF Probe
  <2>2. CASE nvda = "down"
    <3>1. /\ screenReader' = Forgotten /\ warm' = warm
          /\ flow' = [flow EXCEPT ![f] = [flow[f] EXCEPT !.pc = "start", !.attempt = 1]]
      BY <1>1, <2>2 DEF Probe
    <3>2. FlowTyped(f) /\ flow'[f].pc = "start"
      BY <1>0, <3>1, FlowBeginsTyped
    <3>3. QED
      BY <2>1, <3>1, <3>2, TypesOfFlows DEF Rests, Credits
  <2>3. CASE nvda # "down"
    <3>1. /\ screenReader' = [screenReader EXCEPT !.captures = screenReader.captures + 1]
          /\ Started(f)
      BY <1>1, <2>3 DEF Probe
    <3>2. QED
      BY <2>1, <3>1, StartedTyped DEF Credits
  <2>4. QED
    BY <2>2, <2>3
<1>2. CASE Stop(f)
  <2>1. NvdaKinds /\ screenReader' = Forgotten /\ UNCHANGED <<abandoned, warm>>
    BY <1>2, NvdaActs DEF Stop
  <2>2. flow' = [flow EXCEPT ![f] = [flow[f] EXCEPT !.pc = "start", !.attempt = 1]]
    BY <1>2 DEF Stop
  <2>3. FlowTyped(f) /\ flow'[f].pc = "start"
    BY <1>0, <2>2, FlowBeginsTyped
  <2>4. QED
    BY <2>1, <2>3, TypesOfFlows DEF Rests, Credits
<1>3. CASE StartFreshScreenReader(f)
  BY <1>0, <1>3, NvdaActs, OwnedTyped, FailsTyped, GoesOnTyped DEF StartFreshScreenReader
<1>4. CASE ClearLeftover(f)
  BY <1>0, <1>4, NvdaActs, GoesOnTyped DEF ClearLeftover
<1>5. CASE WaitForScreenReaderGone(f)
  BY <1>0, <1>5, NvdaActs, GoesOnTyped DEF WaitForScreenReaderGone
<1>6. CASE StartAgain(f)
  BY <1>6, NvdaActs, OwnedTyped, FailsTyped DEF StartAgain
<1>7. QED
  BY <1>1, <1>2, <1>3, <1>4, <1>5, <1>6 DEF FlowStep

LEMMA RecoversTyped ==
  ASSUME NvdaTypeOK, NEW d \in Drives, NEW outcome, RecoverFromFailure(d, outcome)
  PROVE  FlowTyped(d) /\ Rests(d) /\ Credits(d)
<1>1. flow' = [flow EXCEPT ![d] = Rest] /\ abandoned' = abandoned \ {d}
      /\ screenReader' \in {Forgotten, screenReader}
  BY DEF RecoverFromFailure
<1>2. FlowTyped(d) /\ flow'[d].pc = "idle"
  BY <1>1, FlowMovesTyped, RestIsTyped, DrivesFlow
<1>3. QED
  BY <1>1, <1>2 DEF Rests, Credits

LEMMA CleanupTyped ==
  ASSUME NvdaTypeOK, NEW d \in Drives, NEW outcome \in Outcomes,
         StopAndCleanup(d, outcome)
  PROVE  FlowTyped(d) /\ Rests(d) /\ Credits(d) /\ tainted' \in BOOLEAN
<1>1. tainted' \in BOOLEAN
  BY DEF StopAndCleanup, NvdaTypeOK
<1>2. CASE RecoverFromFailure(d, outcome)
  BY <1>1, <1>2, RecoversTyped
<1>3. CASE ~RecoverFromFailure(d, outcome)
  <2> DEFINE r == [flow[d] EXCEPT !.pc = "stopping", !.outcome = outcome]
  <2>1. flow' = [flow EXCEPT ![d] = r] /\ UNCHANGED <<screenReader, abandoned>>
    BY <1>3 DEF StopAndCleanup
  <2>2. r \in StepRecords /\ r.pc = "stopping"
    BY TypesOfFlows, DrivesFlow DEF StepRecords, Places
  <2> HIDE DEF r
  <2>3. QED
    BY <1>1, <2>1, <2>2, FlowMovesTyped, DrivesFlow DEF Rests, Credits
<1>4. QED
  BY <1>2, <1>3

LEMMA ReadsTyped ==
  ASSUME NvdaTypeOK, NEW d \in Drives, Reads(d)
  PROVE  FlowTyped(d) /\ Rests(d) /\ Credits(d) /\ NvdaKinds
<1>1. Goto(d, "reading") /\ UNCHANGED <<screenReader, nvda, tainted, abandoned>>
  BY DEF Reads
<1>2. FlowTyped(d) /\ flow'[d].pc = "reading"
  BY <1>1, FlowGoesTyped, DrivesFlow DEF Places
<1>3. QED
  BY <1>1, <1>2 DEF Rests, Credits, NvdaKinds, NvdaTypeOK

(* Who asks for a screen reader comes to a probe within the quota.         *)
LEMMA AsksTyped ==
  ASSUME NvdaTypeOK, NEW f \in Flows, NEW reuse \in BOOLEAN,
         FlowTyped(f), flow'[f].pc = AskFor(reuse),
         UNCHANGED <<screenReader, abandoned>>
  PROVE  Rests(f) /\ Credits(f)
  BY DEF AskFor, Rests, Credits, Credited

LEMMA DriveStepTyped ==
  ASSUME NvdaTypeOK, NEW d \in Drives, DriveStep(d)
  PROVE  TypesKept(d)
<1> USE DrivesFlow DEF TypesKept
<1>0. warm' = warm /\ warm' \in WarmKinds
  BY TypesOfFlows DEF DriveStep, PageOpens, PageFails, EnsureSpeechChannel,
     FreshChannel, Read, Stopped
<1>1. CASE PageOpens(d)
  <2>1. flow[d].reuse \in BOOLEAN
    BY TypesOfFlows DEF StepRecords
  <2>2. PICK place \in {"probe", "stop", "start"} : place = AskFor(flow[d].reuse)
    BY AskedPlaces
  <2>3. FlowTyped(d) /\ flow'[d].pc = place
    BY <1>1, <2>2, FlowGoesTyped DEF PageOpens, Places, Starting
  <2>4. Rests(d) /\ Credits(d)
    BY <1>1, <2>1, <2>2, <2>3, AsksTyped DEF PageOpens
  <2>5. QED
    BY <1>0, <1>1, <2>3, <2>4, NvdaActs DEF PageOpens
<1>2. CASE PageFails(d)
  BY <1>0, <1>2, RecoversTyped, NvdaActs DEF PageFails
<1>3. CASE EnsureSpeechChannel(d)
  <2>1. CASE Reads(d)
    BY <1>0, <2>1, ReadsTyped
  <2>2. CASE ResetSpeechSocket
    BY <1>0, <2>2, TypesOfFlows
       DEF ResetSpeechSocket, NvdaTypeOK, NvdaKinds, FlowTyped, Rests, Credits
  <2>3. CASE /\ flow' = [flow EXCEPT ![d] = [flow[d] EXCEPT !.pc = AskFor(FALSE),
                                                !.attempt = 1, !.restart = TRUE]]
             /\ UNCHANGED <<screenReader, abandoned>>
             /\ NvdaUnchanged
    <3>1. PICK place \in {"probe", "stop", "start"} : place = AskFor(FALSE)
      BY AskedPlaces
    <3>2. place \in Places
      BY DEF Places, Starting
    <3>3. FlowTyped(d) /\ flow'[d].pc = place
      BY <2>3, <3>1, <3>2, FlowBeginsTyped
    <3>4. QED
      BY <1>0, <2>3, <3>1, <3>3, AsksTyped, NvdaActs
  <2>4. QED
    BY <1>3, <2>1, <2>2, <2>3 DEF EnsureSpeechChannel
<1>4. CASE FreshChannel(d)
  <2>1. CASE Reads(d)
    BY <1>0, <2>1, ReadsTyped
  <2>2. CASE StopAndCleanup(d, "thrown") /\ UNCHANGED <<nvda, served, trouble>>
    BY <1>0, <2>2, CleanupTyped DEF Outcomes, NvdaKinds, NvdaTypeOK
  <2>3. QED
    BY <1>4, <2>1, <2>2 DEF FreshChannel
<1>5. ASSUME NEW outcome \in Outcomes, Read(d, outcome) PROVE TypesKept(d)
  BY <1>0, <1>5, CleanupTyped DEF Read, NvdaKinds, NvdaTypeOK
<1>6. CASE Stopped(d)
  <2>1. FlowTyped(d) /\ flow'[d].pc = "idle"
    BY <1>6, FlowMovesTyped, RestIsTyped DEF Stopped
  <2>2. QED
    BY <1>0, <1>6, <2>1, NvdaActs DEF Stopped, Rests, Credits
<1>7. QED
  BY <1>1, <1>2, <1>3, <1>4, <1>5, <1>6 DEF DriveStep

LEMMA BeginTyped ==
  ASSUME NvdaTypeOK, NEW d \in Drives, NEW reuse \in BOOLEAN, Begin(d, reuse)
  PROVE  TypesKept(d)
<1> DEFINE r == [Rest EXCEPT !.pc = "opening", !.reuse = reuse]
<1>1. flow' = [flow EXCEPT ![d] = r] /\ UNCHANGED <<screenReader, abandoned, warm>>
  BY DEF Begin
<1>2. r \in StepRecords /\ r.pc = "opening"
  BY RestIsTyped DEF StepRecords, Places
<1> HIDE DEF r
<1>3. FlowTyped(d) /\ flow'[d].pc = "opening"
  BY <1>1, <1>2, FlowMovesTyped, DrivesFlow
<1>4. NvdaKinds
  BY NvdaActs DEF Begin
<1>5. QED
  BY <1>1, <1>3, <1>4, TypesOfFlows DEF TypesKept, Rests, Credits

LEMMA WarmUpTyped ==
  ASSUME NvdaTypeOK, WarmUpOnceIfNeeded
  PROVE  TypesKept(Warm)
<1>1. PICK place \in {"probe", "stop", "start"} : place = AskFor(TRUE)
  BY AskedPlaces
<1> DEFINE r == [Rest EXCEPT !.pc = place]
<1>2. flow' = [flow EXCEPT ![Warm] = r] /\ UNCHANGED <<screenReader, abandoned>>
  BY <1>1 DEF WarmUpOnceIfNeeded
<1>3. r \in StepRecords /\ r.pc = place
  BY RestIsTyped DEF StepRecords, Places, Starting
<1> HIDE DEF r
<1>4. FlowTyped(Warm) /\ flow'[Warm].pc = place
  BY <1>2, <1>3, FlowMovesTyped, TypesOfFlows
<1>5. Rests(Warm) /\ Credits(Warm)
  BY <1>1, <1>2, <1>4, AsksTyped, TypesOfFlows
<1>6. warm' \in WarmKinds
  <2>1. warm \in WarmKinds /\ warm.attempts < MAX_WARM_ATTEMPTS
        /\ warm' = [warm EXCEPT !.attempts = warm.attempts + 1]
    BY TypesOfFlows DEF WarmUpOnceIfNeeded
  <2>2. warm.attempts + 1 \in 0 .. MAX_WARM_ATTEMPTS
    BY <2>1, NvdaLimitsAssumption DEF WarmKinds
  <2>3. QED
    BY <2>1, <2>2 DEF WarmKinds
<1>7. QED
  BY <1>4, <1>5, <1>6, NvdaActs DEF TypesKept, WarmUpOnceIfNeeded

-----------------------------------------------------------------------------
(* The bound on the credits.                                               *)
LEMMA FlowsFinite ==
  ASSUME NEW S \in SUBSET Flows
  PROVE  /\ Cardinality(Flows) \in Nat /\ IsFiniteSet(S)
         /\ Cardinality(S) \in Nat /\ Cardinality(S) <= Cardinality(Flows)
<1>1. IsFiniteSet(Flows)
  BY FlowsAssumption, FS_AddElement DEF Flows
<1>2. QED
  BY <1>1, FS_Subset, FS_CardinalityType

LEMMA ProbingFinite ==
  /\ Cardinality(Flows) \in Nat /\ IsFiniteSet(Probing)
  /\ Cardinality(Probing) \in Nat /\ Cardinality(Probing) <= Cardinality(Flows)
  /\ Cardinality(Probing') \in Nat /\ Cardinality(Probing') <= Cardinality(Flows)
<1>1. Probing \in SUBSET Flows /\ Probing' \in SUBSET Flows
  BY DEF Probing
<1>2. QED
  BY <1>1, FlowsFinite

(* The count is typed because the bound holds.                             *)
LEMMA CreditInType ==
  ASSUME NvdaTyped', CreditIsBounded'
  PROVE  screenReader' \in [running : BOOLEAN,
                           captures : 0 .. MAX_CAPTURES_PER_NVDA + Cardinality(Flows)]
<1>1. screenReader' \in [running : BOOLEAN, captures : Nat]
  BY DEF NvdaTyped
<1>2. Credited' + Cardinality(Probing') <= MAX_CAPTURES_PER_NVDA + Cardinality(Flows)
  BY DEF CreditIsBounded
<1>3. Credited' \in Nat /\ Credited' = screenReader'.captures
  BY <1>1 DEF Credited
<1>4. screenReader'.captures \in 0 .. MAX_CAPTURES_PER_NVDA + Cardinality(Flows)
  BY <1>2, <1>3, ProbingFinite, NvdaLimitsAssumption
<1>5. QED
  BY <1>1, <1>4

LEMMA WithinQuota ==
  ASSUME screenReader'.captures \in 0 .. MAX_CAPTURES_PER_NVDA
  PROVE  CreditIsBounded'
  BY ProbingFinite, NvdaLimitsAssumption DEF CreditIsBounded, Credited

LEMMA CreditsBounded ==
  ASSUME NvdaTypesInv, NEW f \in Flows, FlowTyped(f), Credits(f)
  PROVE  CreditIsBounded'
<1>2. /\ Cardinality(Flows) \in Nat /\ IsFiniteSet(Probing)
      /\ Cardinality(Probing) \in Nat
  BY ProbingFinite
<1>3. /\ Credited \in Nat
      /\ Credited + Cardinality(Probing) <= MAX_CAPTURES_PER_NVDA + Cardinality(Flows)
  BY <1>2, NvdaLimitsAssumption DEF NvdaTypesInv, NvdaTypeOK, CreditIsBounded, Credited
<1>4. CASE screenReader' \in {Forgotten, Fresh}
  BY <1>4, WithinQuota, Believes, NvdaLimitsAssumption DEF NvdaTypesInv
<1>5. CASE screenReader' = screenReader /\ Credited < MAX_CAPTURES_PER_NVDA
  BY <1>3, <1>5, WithinQuota, NvdaLimitsAssumption DEF NvdaTypesInv, Credited
<1>6. CASE screenReader' = screenReader /\ (flow'[f].pc = "probe" => flow[f].pc = "probe")
  <2>1. Probing' \subseteq Probing
    BY <1>6 DEF Probing, FlowTyped
  <2>2. Cardinality(Probing') \in Nat /\ Cardinality(Probing') <= Cardinality(Probing)
    BY <1>2, <2>1, FS_Subset, FS_CardinalityType
  <2>3. QED
    BY <1>2, <1>3, <1>6, <2>2, NvdaLimitsAssumption DEF CreditIsBounded, Credited
<1>7. CASE /\ flow[f].pc = "probe" /\ flow'[f].pc # "probe"
           /\ screenReader' = [screenReader EXCEPT !.captures = screenReader.captures + 1]
  <2>1. Probing' = Probing \ {f} /\ f \in Probing
    BY <1>7 DEF Probing, FlowTyped
  <2>2. Cardinality(Probing') = Cardinality(Probing) - 1
    BY <1>2, <2>1, FS_RemoveElement
  <2>3. Credited' = Credited + 1
    BY <1>7 DEF Credited, NvdaTypesInv, NvdaTypeOK
  <2>4. QED
    BY <1>2, <1>3, <2>2, <2>3, NvdaLimitsAssumption DEF CreditIsBounded
<1>8. QED
  BY <1>4, <1>5, <1>6, <1>7 DEF Credits

-----------------------------------------------------------------------------
LEMMA KeptIsInvariant ==
  ASSUME NvdaTypesInv, NvdaTyped', NEW f \in Flows, TypesKept(f), restarts' \in Nat
  PROVE  NvdaTypesInv'
<1>1. CreditIsBounded'
  BY CreditsBounded DEF TypesKept
<1>2. screenReader' \in [running : BOOLEAN,
                        captures : 0 .. MAX_CAPTURES_PER_NVDA + Cardinality(Flows)]
  BY <1>1, CreditInType
<1>3. abandoned' \subseteq {d \in Drives : flow'[d].pc # "idle"}
  <2>1. abandoned \subseteq {d \in Drives : flow[d].pc # "idle"}
    BY DEF NvdaTypesInv, NvdaTypeOK
  <2>2. QED
    BY <2>1, DrivesFlow DEF TypesKept, Rests, FlowTyped
<1>4. QED
  BY <1>1, <1>2, <1>3
     DEF NvdaTypesInv, NvdaTypeOK, NvdaTyped, TypesKept, FlowTyped, NvdaKinds,
         StepRecords, WarmKinds

(* What stands still is typed as it was.                                   *)
LEMMA StillTyped ==
  ASSUME NvdaTypeOK, UNCHANGED <<screenReader, flow, abandoned, warm>>, NvdaKinds
  PROVE  TypesKept(Warm)
  BY TypesOfFlows DEF TypesKept, FlowTyped, Rests, Credits

(* All flows begin anew with the process.                                  *)
LEMMA WarmStartsTyped ==
  ASSUME NEW fs,
         fs = [f \in Flows |->
                 IF f = Warm THEN [Rest EXCEPT !.pc = "start"] ELSE Rest]
  PROVE  fs \in [Flows -> StepRecords]
<1>1. [Rest EXCEPT !.pc = "start"] \in StepRecords
  BY RestIsTyped DEF StepRecords, Places, Starting
<1>2. QED
  BY <1>1, RestIsTyped

LEMMA AnewTyped ==
  ASSUME NvdaTyped', screenReader' = Forgotten, abandoned' = {}, NvdaKinds,
         flow' \in [Flows -> StepRecords], warm' = [ok |-> FALSE, attempts |-> 0],
         restarts' \in Nat
  PROVE  NvdaTypesInv'
<1>1. CreditIsBounded'
  BY WithinQuota, Believes, NvdaLimitsAssumption
<1>2. screenReader' \in [running : BOOLEAN,
                        captures : 0 .. MAX_CAPTURES_PER_NVDA + Cardinality(Flows)]
  BY <1>1, CreditInType
<1>3. warm' \in WarmKinds
  BY NvdaLimitsAssumption DEF WarmKinds
<1>4. QED
  BY <1>1, <1>2, <1>3
     DEF NvdaTypesInv, NvdaTypeOK, NvdaTyped, NvdaKinds, StepRecords, WarmKinds

LEMMA TypesStepKeeps ==
  ASSUME NvdaTypesInv, NvdaTyped', [NvdaNext]_nvdaVars
  PROVE  NvdaTypesInv'
<1>0. NvdaTypeOK /\ restarts \in Nat
  BY DEF NvdaTypesInv, NvdaTypeOK
<1>1. ASSUME NEW f \in Flows, FlowStep(f) PROVE NvdaTypesInv'
  <2>1. restarts' = restarts
    BY <1>1 DEF FlowStep, Probe, Stop, StartFreshScreenReader,
       ClearLeftover, WaitForScreenReaderGone, StartAgain
  <2>2. QED
    BY <1>0, <1>1, <2>1, FlowStepTyped, KeptIsInvariant
<1>2. ASSUME NEW d \in Drives, DriveStep(d) PROVE NvdaTypesInv'
  <2>1. restarts' = restarts
    BY <1>2 DEF DriveStep, PageOpens, PageFails, EnsureSpeechChannel, FreshChannel,
       Read, Stopped
  <2>2. QED
    BY <1>0, <1>2, <2>1, DriveStepTyped, DrivesFlow, KeptIsInvariant
<1>3. ASSUME NEW d \in Drives, NEW reuse \in BOOLEAN, Begin(d, reuse)
      PROVE  NvdaTypesInv'
  <2>1. restarts' = restarts
    BY <1>3 DEF Begin
  <2>2. QED
    BY <1>0, <1>3, <2>1, BeginTyped, DrivesFlow, KeptIsInvariant
<1>4. ASSUME NEW d \in Drives, HardTimeout(d) PROVE NvdaTypesInv'
  <2>1. /\ screenReader' = Forgotten /\ flow' = flow /\ warm' = warm
        /\ restarts' = restarts /\ abandoned' = abandoned \cup {d}
        /\ d \in Drives /\ flow[d].pc # "idle"
    BY <1>4 DEF HardTimeout, Current
  <2>2. NvdaKinds
    BY <1>0, <1>4 DEF HardTimeout, NvdaKinds, NvdaTypeOK
  <2>3. CreditIsBounded'
    BY <1>0, <2>1, WithinQuota, Believes, NvdaLimitsAssumption
  <2>4. screenReader' \in [running : BOOLEAN,
                          captures : 0 .. MAX_CAPTURES_PER_NVDA + Cardinality(Flows)]
    BY <2>3, CreditInType
  <2>5. abandoned' \subseteq {e \in Drives : flow'[e].pc # "idle"}
    BY <1>0, <2>1 DEF NvdaTypeOK
  <2>6. QED
    BY <1>0, <2>1, <2>2, <2>3, <2>4, <2>5
       DEF NvdaTypesInv, NvdaTypeOK, NvdaTyped, NvdaKinds
<1>5. CASE WarmUpOnceIfNeeded
  <2>1. restarts' = restarts
    BY <1>5 DEF WarmUpOnceIfNeeded
  <2>2. QED
    BY <1>0, <1>5, <2>1, WarmUpTyped, TypesOfFlows, KeptIsInvariant
<1>6. CASE Dies
  <2>1. NvdaKinds
    BY <1>0, <1>6 DEF Dies, NvdaKinds, NvdaTypeOK
  <2>2. UNCHANGED <<screenReader, flow, abandoned, warm, restarts>>
    BY <1>6 DEF Dies
  <2>3. QED
    BY <1>0, <2>1, <2>2, StillTyped, TypesOfFlows, KeptIsInvariant
<1>7. CASE ChannelLost
  <2>1. /\ screenReader' = Forgotten
        /\ UNCHANGED <<nvda, tainted, flow, abandoned, warm, restarts>>
    BY <1>7 DEF ChannelLost
  <2>2. TypesKept(Warm)
    BY <1>0, <2>1, TypesOfFlows
       DEF TypesKept, FlowTyped, Rests, Credits, NvdaKinds, NvdaTypeOK
  <2>3. QED
    BY <1>0, <2>1, <2>2, TypesOfFlows, KeptIsInvariant
<1>8. CASE Terminate
  <2>1. /\ screenReader' = Forgotten /\ abandoned' = {}
        /\ warm' = [ok |-> FALSE, attempts |-> 0]
        /\ flow' = [f \in Flows |->
                      IF f = Warm THEN [Rest EXCEPT !.pc = "start"] ELSE Rest]
    BY <1>8 DEF Terminate
  <2>2. restarts' \in Nat
    BY <1>0, <1>8 DEF Terminate
  <2>3. NvdaKinds
    BY <1>0, <1>8, NvdaActs DEF Terminate
  <2>4. QED
    BY <2>1, <2>2, <2>3, WarmStartsTyped, AnewTyped
<1>9. CASE UNCHANGED nvdaVars
  <2>1. NvdaKinds
    BY <1>0, <1>9 DEF nvdaVars, NvdaKinds, NvdaTypeOK
  <2>2. UNCHANGED <<screenReader, flow, abandoned, warm, restarts>>
    BY <1>9 DEF nvdaVars
  <2>3. QED
    BY <1>0, <2>1, <2>2, StillTyped, TypesOfFlows, KeptIsInvariant
<1>10. QED
  BY <1>1, <1>2, <1>3, <1>4, <1>5, <1>6, <1>7, <1>8, <1>9 DEF NvdaNext

(* Every reachable state is typed, in any world: an abandoned capture is   *)
(* one that is still under way, and the belief never credits more captures *)
(* than the quota and one for each flow (startScreenReader reads the count *)
(* before its probe and adds to it after).                                 *)
THEOREM NvdaTypeCorrect == NvdaSpec => []NvdaTypeOK
<1>1. NvdaInit => NvdaTypesInv
  <2> SUFFICES ASSUME NvdaInit PROVE NvdaTypesInv
    OBVIOUS
  <2>1. NvdaTyped
    BY InitNvda DEF NvdaInv
  <2>2. screenReader = Forgotten /\ abandoned = {} /\ flow \in [Flows -> StepRecords]
    BY WarmStartsTyped DEF NvdaInit
  <2>3. restarts \in Nat /\ warm \in WarmKinds
    BY WorldsAssumption, NvdaLimitsAssumption DEF NvdaInit, WarmKinds
  <2>4. Credited = 0 /\ CreditIsBounded
    BY <2>2, ProbingFinite, Believes, NvdaLimitsAssumption DEF CreditIsBounded, Credited
  <2>5. 0 \in 0 .. MAX_CAPTURES_PER_NVDA + Cardinality(Flows)
    BY ProbingFinite, NvdaLimitsAssumption
  <2>6. screenReader \in [running : BOOLEAN,
                          captures : 0 .. MAX_CAPTURES_PER_NVDA + Cardinality(Flows)]
    BY <2>2, <2>5 DEF Forgotten
  <2>7. QED
    BY <2>1, <2>2, <2>3, <2>4, <2>6
       DEF NvdaTypesInv, NvdaTypeOK, NvdaTyped, NvdaInit, StepRecords, WarmKinds
<1>2. NvdaTypesInv /\ NvdaTyped' /\ [NvdaNext]_nvdaVars => NvdaTypesInv'
  BY TypesStepKeeps
<1>3. NvdaInv => NvdaTyped
  BY DEF NvdaInv
<1>4. NvdaTypesInv => NvdaTypeOK
  BY DEF NvdaTypesInv
<1>5. QED
  BY <1>1, <1>2, <1>3, <1>4, NvdaInvariant, PTL DEF NvdaSpec

=============================================================================
