--------------------------- MODULE DesktopPrepare ---------------------------
(***************************************************************************)
(* Clearing the desktop before a capture (nvda-worker/src/                 *)
(* desktop-prepare.mjs, desktop-dialogs.mjs; server.mjs' readiness and     *)
(* prepareDesktopBounded), and the two caches /health answers from.        *)
(*                                                                         *)
(* Every PowerShell call takes time: it looks at the desktop in one step   *)
(* and returns in a later one, and a preparation that outlives its bound   *)
(* is abandoned, not stopped.  So several preparations may be under way,   *)
(* beside the sample the worker takes when it boots.  A preparation is a   *)
(* name of Preparations, free for another capture when it is over.         *)
(*                                                                         *)
(* A window is a handle that may open and close again.  What a capture     *)
(* does, what /health says beyond the two checks, marks and ages are left  *)
(* out; ScreenReader and CaptureWorker have the rest of a capture.         *)
(* (X_Slip: a fault seeded in X, see ResultStore.)                         *)
(***************************************************************************)
EXTENDS Integers

CONSTANTS Preparations, Boot, Dialogs, MaxMisfortunes

ASSUME BootAssumption == Boot \notin Preparations
ASSUME MisfortunesAssumption == MaxMisfortunes \in Nat

Samplers == Preparations \cup {Boot}

VARIABLES
  desktop,          \* the modal dialogs that are up
  held,             \* a shell surface holds the foreground
  dialogCache,      \* what noBlockingDialog answers from
  foregroundCache,  \* what noForegroundBlocker answers from
  slot,             \* free, preparing (the worker waits), capturing
  mine,             \* the preparation of the capture in the slot
  at,               \* the call each sampler is in
  seen,             \* the dialogs its enumeration returned
  sawHeld,          \* its probe found a holder
  aborted,          \* the preparations whose signal has fired
  degraded,         \* those a call or a close of which did not work
  since,            \* the dialogs that opened since mine enumerated
  misfortunes       \* how much has gone wrong so far (bounded)

cachevars == <<dialogCache, foregroundCache>>
vars == <<desktop, held, dialogCache, foregroundCache, slot, mine, at, seen, sawHeld,
          aborted, degraded, since, misfortunes>>

TypeOK ==
  /\ desktop \subseteq Dialogs
  /\ held \in BOOLEAN
  /\ dialogCache \in {"not sampled", "clear", "blocked"}
  /\ foregroundCache \in {"not sampled", "clear", "held"}
  /\ slot \in {"free", "preparing", "capturing"}
  /\ mine \in Preparations
  /\ at \in [Samplers -> {"list", "close", "listed", "probe", "probed", "clear", "cleared", "over"}]
  /\ at[Boot] \notin {"close", "clear", "cleared"}
  /\ \A p \in Samplers : at[p] = "close" => seen[p] # {}
  /\ seen \in [Samplers -> SUBSET Dialogs]
  /\ sawHeld \in [Samplers -> BOOLEAN]
  /\ aborted \subseteq Preparations
  /\ degraded \subseteq Preparations
  /\ since \subseteq Dialogs
  /\ misfortunes \in 0 .. MaxMisfortunes

(* A worker boots on whatever desktop there is; its sample is under way.   *)
Init ==
  /\ desktop \in SUBSET Dialogs
  /\ held \in BOOLEAN
  /\ dialogCache = "not sampled"
  /\ foregroundCache = "not sampled"
  /\ slot = "free"
  /\ mine \in Preparations
  /\ at = [p \in Samplers |-> IF p = Boot THEN "list" ELSE "over"]
  /\ seen = [p \in Samplers |-> {}]
  /\ sawHeld = [p \in Samplers |-> FALSE]
  /\ aborted = {}
  /\ degraded = {}
  /\ since = {}
  /\ misfortunes = 0

GoesWrong ==
  /\ misfortunes < MaxMisfortunes
  /\ misfortunes' = misfortunes + 1

GoesTo(p, call) == at' = [at EXCEPT ![p] = call]

(* readiness: not sampled never fails a check.                             *)
Ready == slot = "free" /\ dialogCache # "blocked" /\ foregroundCache # "held"

-----------------------------------------------------------------------------
(* The calls, of a preparation or of the boot sample.                      *)

(* listBlockingDialogs: an enumeration that fails finds nothing.  A        *)
(* preparation closes what it found, without a look at its signal between. *)
ListDialogs(p) ==
  /\ at[p] = "list"
  /\ \/ /\ seen' = [seen EXCEPT ![p] = desktop]
        /\ GoesTo(p, IF p \in Preparations /\ desktop # {} THEN "close" ELSE "listed")
        /\ UNCHANGED <<degraded, misfortunes>>
     \/ /\ seen' = [seen EXCEPT ![p] = {}]
        /\ GoesTo(p, "listed")
        /\ degraded' = degraded \cup ({p} \ {Boot})
        /\ GoesWrong
  /\ since' = IF p = mine /\ slot = "preparing" THEN {} ELSE since
  /\ UNCHANGED <<desktop, held, dialogCache, foregroundCache, slot, mine, sawHeld, aborted>>

CloseDialogs_Slip(p) ==
  /\ at[p] = "close"
  /\ \E d \in seen[p] : desktop' = desktop \ {d}
  /\ UNCHANGED <<degraded, misfortunes>>
  /\ GoesTo(p, "listed")
  /\ UNCHANGED <<held, dialogCache, foregroundCache, slot, mine, seen, sawHeld, aborted, since>>

(* closeScript: a hung dialog stays, and nobody enumerates again.          *)
CloseDialogs(p) ==
  /\ at[p] = "close"
  /\ \/ /\ desktop' = desktop \ seen[p]
        /\ UNCHANGED <<degraded, misfortunes>>
     \/ /\ desktop \cap seen[p] # {}
        /\ \E d \in desktop \cap seen[p] : desktop' = (desktop \ seen[p]) \cup {d}
        /\ degraded' = degraded \cup {p}
        /\ GoesWrong
  /\ GoesTo(p, "listed")
  /\ UNCHANGED <<held, dialogCache, foregroundCache, slot, mine, seen, sawHeld, aborted, since>>

(* probeWindowOwner: unreadable is not held.                               *)
ProbeWindowOwner(p) ==
  /\ at[p] = "probe"
  /\ \/ /\ sawHeld' = [sawHeld EXCEPT ![p] = held]
        /\ UNCHANGED misfortunes
     \/ /\ held
        /\ sawHeld' = [sawHeld EXCEPT ![p] = FALSE]
        /\ GoesWrong
  /\ GoesTo(p, "probed")
  /\ UNCHANGED <<desktop, held, dialogCache, foregroundCache, slot, mine, seen, aborted,
                 degraded, since>>

DismissForeground(p) ==
  /\ at[p] = "clear"
  /\ \/ /\ held' = FALSE
        /\ UNCHANGED misfortunes
     \/ /\ held
        /\ UNCHANGED held
        /\ GoesWrong
  /\ GoesTo(p, "cleared")
  /\ UNCHANGED <<desktop, dialogCache, foregroundCache, slot, mine, seen, sawHeld, aborted,
                 degraded, since>>

-----------------------------------------------------------------------------
(* What follows their return.                                              *)

(* abandonedAfter, the fence: the write is dropped, and so is the rest.    *)
AbandonedAfter(p) ==
  /\ p \in aborted
  /\ GoesTo(p, "over")
  /\ UNCHANGED cachevars

Forgets(p) ==
  /\ seen' = [seen EXCEPT ![p] = {}]
  /\ sawHeld' = [sawHeld EXCEPT ![p] = FALSE]

DialogsDismissed_Slip(p) ==
  /\ p \in Preparations /\ at[p] = "listed"
  /\ \/ AbandonedAfter(p)
     \/ /\ p \notin aborted
        /\ dialogCache' = IF seen[p] # {} THEN "clear" ELSE dialogCache
        /\ GoesTo(p, "probe")
        /\ UNCHANGED foregroundCache
  /\ Forgets(p)
  /\ UNCHANGED <<desktop, held, slot, mine, aborted, degraded, since, misfortunes>>

(* UNCONDITIONALLY: whatever it found is now closed.                       *)
DialogsDismissed(p) ==
  /\ p \in Preparations /\ at[p] = "listed"
  /\ \/ AbandonedAfter(p)
     \/ /\ p \notin aborted
        /\ dialogCache' = "clear"
        /\ GoesTo(p, "probe")
        /\ UNCHANGED foregroundCache
  /\ Forgets(p)
  /\ UNCHANGED <<desktop, held, slot, mine, aborted, degraded, since, misfortunes>>

WindowOwnerProbed_Slip(p) ==
  /\ p \in Preparations /\ at[p] = "probed"
  /\ foregroundCache' = IF sawHeld[p] THEN "held" ELSE "clear"
  /\ GoesTo(p, IF sawHeld[p] THEN "clear" ELSE "over")
  /\ UNCHANGED dialogCache
  /\ Forgets(p)
  /\ UNCHANGED <<desktop, held, slot, mine, aborted, degraded, since, misfortunes>>

(* A holder is cleared; the cache keeps what was seen before it was.       *)
WindowOwnerProbed(p) ==
  /\ p \in Preparations /\ at[p] = "probed"
  /\ \/ AbandonedAfter(p)
     \/ /\ p \notin aborted
        /\ foregroundCache' = IF sawHeld[p] THEN "held" ELSE "clear"
        /\ GoesTo(p, IF sawHeld[p] THEN "clear" ELSE "over")
        /\ UNCHANGED dialogCache
  /\ Forgets(p)
  /\ UNCHANGED <<desktop, held, slot, mine, aborted, degraded, since, misfortunes>>

(* The mark says whether it was cleared, or that it came too late.         *)
ForegroundDismissed(p) ==
  /\ at[p] = "cleared"
  /\ GoesTo(p, "over")
  /\ UNCHANGED <<desktop, held, dialogCache, foregroundCache, slot, mine, seen, sawHeld,
                 aborted, degraded, since, misfortunes>>

(* sampleDesktopDialogs, at boot: no fence.                                *)
DialogsSampled ==
  /\ at[Boot] = "listed"
  /\ dialogCache' = IF seen[Boot] = {} THEN "clear" ELSE "blocked"
  /\ GoesTo(Boot, "probe")
  /\ Forgets(Boot)
  /\ UNCHANGED <<desktop, held, foregroundCache, slot, mine, aborted, degraded,
                 since, misfortunes>>

ForegroundSampled ==
  /\ at[Boot] = "probed"
  /\ foregroundCache' = IF sawHeld[Boot] THEN "held" ELSE "clear"
  /\ GoesTo(Boot, "over")
  /\ Forgets(Boot)
  /\ UNCHANGED <<desktop, held, dialogCache, slot, mine, aborted, degraded,
                 since, misfortunes>>

-----------------------------------------------------------------------------
(* The captures.                                                           *)

(* POST /capture asks for a free slot only.                                *)
PrepareDesktop(p) ==
  /\ slot = "free" /\ at[p] = "over"
  /\ slot' = "preparing"
  /\ mine' = p
  /\ GoesTo(p, "list")
  /\ aborted' = aborted \ {p}
  /\ degraded' = degraded \ {p}
  /\ UNCHANGED <<desktop, held, dialogCache, foregroundCache, seen, sawHeld, since, misfortunes>>

(* The runs that wait for /health to be ready before they send a capture.  *)
CaptureWhenReady(p) == Ready /\ PrepareDesktop(p)

PreparedInTime ==
  /\ slot = "preparing" /\ at[mine] = "over"
  /\ slot' = "capturing"
  /\ UNCHANGED <<desktop, held, dialogCache, foregroundCache, mine, at, seen, sawHeld,
                 aborted, degraded, since, misfortunes>>

(* desktopPrepareTimedOut: the capture goes ahead, the preparation too.    *)
PrepareTimesOut ==
  /\ slot = "preparing" /\ at[mine] # "over"
  /\ slot' = "capturing"
  /\ aborted' = aborted \cup {mine}
  /\ GoesWrong
  /\ UNCHANGED <<desktop, held, dialogCache, foregroundCache, mine, at, seen, sawHeld,
                 degraded, since>>

CaptureEnds ==
  /\ slot = "capturing"
  /\ slot' = "free"
  /\ since' = {}
  /\ UNCHANGED <<desktop, held, dialogCache, foregroundCache, mine, at, seen, sawHeld,
                 aborted, degraded, misfortunes>>

(* Windows: a dialog opens or is answered, a toast comes and goes.         *)
DialogOpens(d) ==
  /\ d \notin desktop
  /\ desktop' = desktop \cup {d}
  /\ since' = IF slot = "free" THEN {} ELSE since \cup {d}
  /\ GoesWrong
  /\ UNCHANGED <<held, dialogCache, foregroundCache, slot, mine, at, seen, sawHeld, aborted,
                 degraded>>

DialogGoes(d) ==
  /\ d \in desktop
  /\ desktop' = desktop \ {d}
  /\ UNCHANGED <<held, dialogCache, foregroundCache, slot, mine, at, seen, sawHeld, aborted,
                 degraded, since, misfortunes>>

ForegroundTaken ==
  /\ ~held
  /\ held' = TRUE
  /\ GoesWrong
  /\ UNCHANGED <<desktop, dialogCache, foregroundCache, slot, mine, at, seen, sawHeld, aborted,
                 degraded, since>>

ForegroundGivenBack ==
  /\ held
  /\ held' = FALSE
  /\ UNCHANGED <<desktop, dialogCache, foregroundCache, slot, mine, at, seen, sawHeld, aborted,
                 degraded, since, misfortunes>>

Samples(p) ==
  \/ ListDialogs(p) \/ CloseDialogs(p) \/ DialogsDismissed(p) \/ ProbeWindowOwner(p)
  \/ WindowOwnerProbed(p) \/ DismissForeground(p) \/ ForegroundDismissed(p)

BootSamples == Samples(Boot) \/ DialogsSampled \/ ForegroundSampled

Captures == PreparedInTime \/ CaptureEnds

Windows ==
  \/ \E d \in Dialogs : DialogOpens(d) \/ DialogGoes(d)
  \/ ForegroundTaken \/ ForegroundGivenBack

Next ==
  \/ \E p \in Preparations : Samples(p) \/ PrepareDesktop(p)
  \/ BootSamples
  \/ Captures \/ PrepareTimesOut
  \/ Windows

Spec == Init /\ [][Next]_vars

(* Every PowerShell call is bounded (PS_TIMEOUT_MS), so is a capture, and  *)
(* somebody has work for a worker that says it is ready.                   *)
FairSpec ==
  /\ Spec
  /\ \A p \in Preparations : WF_vars(Samples(p))
  /\ WF_vars(BootSamples)
  /\ WF_vars(Captures)
  /\ WF_vars(\E p \in Preparations : CaptureWhenReady(p))

-----------------------------------------------------------------------------
(* An abandoned preparation changes nothing /health answers from: beside   *)
(* the boot sample's own two writes, a cache is written only by the        *)
(* preparation the worker still waits for, before its signal fires.        *)
OnlyTheAwaitedWrites ==
  [][cachevars' # cachevars =>
       \/ at[Boot] # at'[Boot]
       \/ slot = "preparing" /\ at[mine] # at'[mine] /\ mine \notin aborted]_vars

(* A capture that was prepared, in time and with every call working, finds *)
(* no dialog but one that opened after the desktop was enumerated: however *)
(* the preparations before it end, or go on.                               *)
PreparedMeansClear ==
  slot = "capturing" /\ mine \notin aborted \cup degraded => desktop \subseteq since

Untroubled == desktop = {} /\ ~held /\ dialogCache = "clear" /\ foregroundCache = "clear"

(* However the desktop was blocked and whatever went wrong, a worker that  *)
(* is sent captures whether it says ready or not gets a clear desktop, and *)
(* /health knows it, for good once nothing more goes wrong.                *)
HealsIfUsed ==
  WF_vars(\E p \in Preparations : PrepareDesktop(p)) => <>[]Untroubled

(* noBlockingDialog heals itself at the start of the very next capture,    *)
(* and noForegroundBlocker the same way (desktop-prepare.test.ts:7): a     *)
(* worker that says not ready comes to say ready.  False: nobody who asks  *)
(* /health first sends the capture that would heal it.                     *)
SelfHeals == slot = "free" /\ ~Ready ~> Ready
=============================================================================
