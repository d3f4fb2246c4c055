---------------------------- MODULE ScreenReader ----------------------------
(***************************************************************************)
(* The one NVDA of a guest, and who drives it (nvda-worker/src/            *)
(* capture-setup.mjs, capture-core.mjs, and the recovery, warm-up and      *)
(* signal paths of server.mjs).                                            *)
(*                                                                         *)
(* `screenReader' is the worker's BELIEF: is NVDA running, and how many    *)
(* captures has it served.  `nvda' is the fact.  They part company         *)
(* whenever NVDA misbehaves, or whenever two flows that both believe       *)
(* something act across each other's awaits: the capture in the slot, a    *)
(* capture the hard timeout abandoned and nobody can kill, and a warm-up.  *)
(*                                                                         *)
(* An action is the code between two awaits.  `pc' names the await a flow  *)
(* is at, so an action shows what was read before it and written after.    *)
(***************************************************************************)
EXTENDS Naturals, FiniteSets

CONSTANTS Drives,                 \* calls of captureWithNvda
          Warm,                   \* the warm-up, as a flow
          MAX_CAPTURES_PER_NVDA,
          NVDA_START_ATTEMPTS,
          MAX_WARM_ATTEMPTS,
          Worlds                  \* what may go wrong, and how often: a
                                  \* behaviour is of one of them

(* What NVDA and the guest may do to us.                                   *)
AllQuirks == {"start fails", "stop does not take", "dies", "mute",
              "channel lost", "hangs", "warm-up overlaps"}

ASSUME FlowsAssumption == Warm \notin Drives /\ IsFiniteSet(Drives)
(* NVDA misbehaves, but one flow at a time drives it and a stop works.     *)
OneAtATime == {"start fails", "dies", "mute", "channel lost"}

(* left bounds how often, restarts the times the worker is told to exit.   *)
ASSUME WorldsAssumption ==
  Worlds \subseteq [quirks : SUBSET AllQuirks, left : Nat, restarts : Nat]
ASSUME NvdaLimitsAssumption ==
  /\ MAX_CAPTURES_PER_NVDA \in Nat \ {0}
  /\ NVDA_START_ATTEMPTS \in Nat \ {0}
  /\ MAX_WARM_ATTEMPTS \in Nat

VARIABLES
  screenReader,  \* the belief
  nvda,          \* the fact: "down", "up", or "mute" (up, half-open channel)
  served,        \* captures this NVDA has read for
  tainted,       \* a capture died on this NVDA
  flow,          \* where each flow is
  abandoned,     \* drives that outlived the hard timeout
  warm,          \* warm.ok and warmAttempts
  trouble,       \* the quirks of this world, and how many are left
  restarts       \* how many are left

nvdaVars == <<screenReader, nvda, served, tainted, flow, abandoned, warm,
              trouble, restarts>>

Flows == Drives \cup {Warm}

(* The awaits of startScreenReader, those around it, and idle.             *)
Starting == {"start", "clear", "gone", "again"}
Places == Starting \cup {"idle", "opening", "probe", "stop", "ensure",
                         "restarted", "reading", "stopping"}
Outcomes == {"ok", "empty", "thrown"}

(* attempt: of startFreshWithRetry.  reuse: opts.reuseScreenReader.        *)
(* restart: ensureSpeechChannel is the caller.  outcome: how a drive that  *)
(* is tearing down ended.                                                  *)
Rest == [pc |-> "idle", attempt |-> 1, reuse |-> TRUE, restart |-> FALSE, outcome |-> "ok"]

NvdaTypeOK ==
  /\ screenReader \in [running : BOOLEAN,
                       captures : 0 .. MAX_CAPTURES_PER_NVDA + Cardinality(Flows)]
  /\ nvda \in {"down", "up", "mute"}
  /\ served \in Nat
  /\ tainted \in BOOLEAN
  /\ flow \in [Flows -> [pc : Places, attempt : 1 .. NVDA_START_ATTEMPTS,
                         reuse : BOOLEAN, restart : BOOLEAN, outcome : Outcomes]]
  /\ abandoned \subseteq {d \in Drives : flow[d].pc # "idle"}
  /\ warm \in [ok : BOOLEAN, attempts : 0 .. MAX_WARM_ATTEMPTS]
  /\ trouble \in [quirks : SUBSET AllQuirks, left : Nat]
  /\ restarts \in Nat

Forgotten == [running |-> FALSE, captures |-> 0]
Fresh == [running |-> TRUE, captures |-> 1]

(* The process has begun to listen and warms NVDA up at once; a leftover   *)
(* of the process before it may still be there.                            *)
NvdaInit ==
  /\ screenReader = Forgotten
  /\ nvda \in {"down", "up"}
  /\ served = 0
  /\ tainted = FALSE
  /\ flow = [f \in Flows |-> IF f = Warm THEN [Rest EXCEPT !.pc = "start"] ELSE Rest]
  /\ abandoned = {}
  /\ warm = [ok |-> FALSE, attempts |-> 0]
  /\ \E w \in Worlds :
       /\ trouble = [quirks |-> w.quirks, left |-> w.left]
       /\ restarts = w.restarts

Current == {d \in Drives \ abandoned : flow[d].pc # "idle"}

(* A misbehaviour happens, within the bound.  "warm-up overlaps" is not    *)
(* one of NVDA's and is not counted: it lets /health be asked, and a       *)
(* capture come in, while the other is under way.                          *)
Quirk(q) ==
  /\ q \in trouble.quirks
  /\ trouble.left > 0
  /\ trouble' = [trouble EXCEPT !.left = @ - 1]

-----------------------------------------------------------------------------
(* What NVDA does when asked (guidepup and the guest, outside src/)        *)

NvdaComesUp ==
  /\ \/ nvda' = "up" /\ UNCHANGED trouble
     \/ nvda' = "mute" /\ Quirk("mute")
  /\ served' = 0
  /\ tainted' = FALSE

(* The call fails or times out; NVDA may still come up behind it.          *)
NvdaFailsToStart ==
  /\ Quirk("start fails")
  /\ nvda' \in {"down", "up"}
  /\ served' = 0
  /\ tainted' = FALSE

NvdaStops ==
  \/ /\ nvda' = "down"
     /\ served' = 0
     /\ tainted' = FALSE
     /\ UNCHANGED trouble
  \/ /\ nvda # "down"
     /\ Quirk("stop does not take")
     /\ UNCHANGED <<nvda, served, tainted>>

NvdaUnchanged == UNCHANGED <<nvda, served, tainted, trouble>>

(* Killed from outside, crashed, or its socket gone half-open.             *)
Dies ==
  /\ nvda # "down"
  /\ \/ Quirk("dies") /\ nvda' = "down" /\ served' = 0 /\ tainted' = FALSE
     \/ Quirk("mute") /\ nvda' = "mute" /\ UNCHANGED <<served, tainted>>
  /\ UNCHANGED <<screenReader, flow, abandoned, warm, restarts>>

-----------------------------------------------------------------------------
(* startScreenReader                                                       *)

Goto(f, place) == flow' = [flow EXCEPT ![f].pc = place]

AskFor_Slip(reuse) ==
  IF reuse /\ screenReader.running THEN "probe"
  ELSE IF screenReader.running THEN "stop" ELSE "start"

(* Decided on the belief, before the first await.                          *)
AskFor(reuse) ==
  IF reuse /\ screenReader.running /\ screenReader.captures < MAX_CAPTURES_PER_NVDA
  THEN "probe"
  ELSE IF screenReader.running THEN "stop" ELSE "start"

(* startScreenReader returned: a warm-up is done, a capture goes on to the *)
(* speech channel, for the first time or after the restart it asked for.   *)
Started(f) ==
  IF f = Warm
  THEN /\ flow' = [flow EXCEPT ![f] = Rest]
       /\ warm' = [ok |-> TRUE, attempts |-> 0]
  ELSE /\ Goto(f, IF flow[f].restart THEN "restarted" ELSE "ensure")
       /\ UNCHANGED warm

(* It threw.  stopScreenReader sees the belief it has just cleared and     *)
(* does nothing; recoverFromFailure forgets what is forgotten already.     *)
NotStarted(f) ==
  /\ screenReader' = Forgotten
  /\ flow' = [flow EXCEPT ![f] = Rest]
  /\ abandoned' = abandoned \ {f}
  /\ UNCHANGED warm

(* screenReaderResponds asks the port, which a mute NVDA answers too.  The *)
(* count goes to whatever object the belief is by now.                     *)
Probe(f) ==
  /\ flow[f].pc = "probe"
  /\ IF nvda = "down"
     THEN /\ screenReader' = Forgotten
          /\ flow' = [flow EXCEPT ![f].pc = "start", ![f].attempt = 1]
          /\ UNCHANGED warm
     ELSE /\ screenReader' = [screenReader EXCEPT !.captures = @ + 1]
          /\ Started(f)
  /\ NvdaUnchanged
  /\ UNCHANGED <<abandoned, restarts>>

(* The recycle, or the restart ensureSpeechChannel asked for.              *)
Stop(f) ==
  /\ flow[f].pc = "stop"
  /\ NvdaStops
  /\ screenReader' = Forgotten
  /\ flow' = [flow EXCEPT ![f].pc = "start", ![f].attempt = 1]
  /\ UNCHANGED <<abandoned, warm, restarts>>

Owned(f) ==
  /\ screenReader' = Fresh
  /\ Started(f)
  /\ UNCHANGED abandoned

(* One attempt of startFreshWithRetry threw something else.                *)
AttemptFails(f) ==
  IF flow[f].attempt < NVDA_START_ATTEMPTS
  THEN /\ flow' = [flow EXCEPT ![f].pc = "start", ![f].attempt = @ + 1]
       /\ UNCHANGED <<screenReader, abandoned, warm>>
  ELSE NotStarted(f)

StartFreshScreenReader_Slip(f) ==
  /\ flow[f].pc = "start"
  /\ IF nvda = "down"
     THEN \/ NvdaComesUp /\ Owned(f)
          \/ NvdaFailsToStart /\ AttemptFails(f)
     ELSE NvdaUnchanged /\ Owned(f)
  /\ UNCHANGED restarts

(* nvda.start refuses while NVDA runs: clear the leftover out of the way.  *)
StartFreshScreenReader(f) ==
  /\ flow[f].pc = "start"
  /\ \/ nvda = "down" /\ NvdaComesUp /\ Owned(f)
     \/ nvda = "down" /\ NvdaFailsToStart /\ AttemptFails(f)
     \/ /\ nvda # "down"
        /\ NvdaUnchanged
        /\ Goto(f, "clear")
        /\ UNCHANGED <<screenReader, abandoned, warm>>
  /\ UNCHANGED restarts

ClearLeftover(f) ==
  /\ flow[f].pc = "clear"
  /\ NvdaStops
  /\ Goto(f, "gone")
  /\ UNCHANGED <<screenReader, abandoned, warm, restarts>>

(* It polls the port with no deadline.                                     *)
WaitForScreenReaderGone_Slip(f) ==
  /\ flow[f].pc = "gone"
  /\ Goto(f, IF nvda = "down" THEN "again" ELSE "gone")
  /\ NvdaUnchanged
  /\ UNCHANGED <<screenReader, abandoned, warm, restarts>>

(* The port fell silent, or the deadline passed: either way on.            *)
WaitForScreenReaderGone(f) ==
  /\ flow[f].pc = "gone"
  /\ Goto(f, "again")
  /\ NvdaUnchanged
  /\ UNCHANGED <<screenReader, abandoned, warm, restarts>>

(* The second nvda.start.  "Already running" fails the attempt like any    *)
(* error, except the last: startScreenReader adopts what is running.       *)
StartAgain(f) ==
  /\ flow[f].pc = "again"
  /\ \/ nvda = "down" /\ NvdaComesUp /\ Owned(f)
     \/ nvda = "down" /\ NvdaFailsToStart /\ AttemptFails(f)
     \/ /\ nvda # "down"
        /\ NvdaUnchanged
        /\ IF flow[f].attempt < NVDA_START_ATTEMPTS THEN AttemptFails(f) ELSE Owned(f)
  /\ UNCHANGED restarts

-----------------------------------------------------------------------------
(* captureWithNvda                                                         *)

(* One slot: a capture begins only when no other is in it.  A local retry  *)
(* of a recoverable fault is a capture like the next one here.             *)
Begin(d, reuse) ==
  /\ flow[d].pc = "idle"
  /\ Current = {}
  /\ flow[Warm].pc = "idle" \/ "warm-up overlaps" \in trouble.quirks
  /\ flow' = [flow EXCEPT ![d] = [Rest EXCEPT !.pc = "opening", !.reuse = reuse]]
  /\ UNCHANGED <<screenReader, abandoned, warm, restarts>>
  /\ NvdaUnchanged

(* The page is open and in front; ask for a screen reader.                 *)
PageOpens(d) ==
  /\ flow[d].pc = "opening"
  /\ Goto(d, AskFor(flow[d].reuse))
  /\ UNCHANGED <<screenReader, abandoned, warm, restarts>>
  /\ NvdaUnchanged

(* recoverFromFailure, for an error the slot's holder threw: nothing       *)
(* awaits the error of an abandoned capture.                               *)
RecoverFromFailure(d, outcome) ==
  /\ screenReader' = IF outcome = "thrown" /\ d \notin abandoned THEN Forgotten
                     ELSE screenReader
  /\ flow' = [flow EXCEPT ![d] = Rest]
  /\ abandoned' = abandoned \ {d}

(* openPage and its checks throw outside the try: no cleanup.              *)
PageFails(d) ==
  /\ flow[d].pc = "opening"
  /\ RecoverFromFailure(d, "thrown")
  /\ UNCHANGED <<warm, restarts>>
  /\ NvdaUnchanged

(* The finally of captureWithNvda, up to the await of nvda.stop.           *)
StopAndCleanup(d, outcome) ==
  IF flow[d].reuse /\ outcome = "ok"
  THEN RecoverFromFailure(d, outcome) /\ UNCHANGED tainted
  ELSE IF screenReader.running
  THEN /\ flow' = [flow EXCEPT ![d].pc = "stopping", ![d].outcome = outcome]
       /\ tainted' = (tainted \/ (nvda # "down" /\ outcome # "ok"))
       /\ UNCHANGED <<screenReader, abandoned>>
  ELSE /\ RecoverFromFailure(d, outcome)
       /\ tainted' = (tainted \/ (nvda # "down" /\ outcome # "ok"))

Stopped(d) ==
  /\ flow[d].pc = "stopping"
  /\ NvdaStops
  /\ screenReader' = Forgotten
  /\ flow' = [flow EXCEPT ![d] = Rest]
  /\ abandoned' = abandoned \ {d}
  /\ UNCHANGED <<warm, restarts>>

Reads(d) ==
  /\ Goto(d, "reading")
  /\ served' = served + 1
  /\ UNCHANGED <<screenReader, nvda, tainted, abandoned, trouble>>

(* The socket of a half-open channel is destroyed, and guidepup reconnects.*)
ResetSpeechSocket ==
  /\ nvda = "mute"
  /\ nvda' = "up"
  /\ UNCHANGED <<screenReader, served, tainted, flow, abandoned, trouble>>

(* ensureSpeechChannel: NVDA speaks; or the socket is rebuilt and it does; *)
(* or NVDA is started again, once.                                         *)
EnsureSpeechChannel(d) ==
  /\ flow[d].pc = "ensure"
  /\ \/ nvda = "up" /\ Reads(d)
     \/ ResetSpeechSocket
     \/ /\ nvda # "up"
        /\ flow' = [flow EXCEPT ![d].pc = AskFor(FALSE), ![d].attempt = 1, ![d].restart = TRUE]
        /\ UNCHANGED <<screenReader, abandoned>>
        /\ NvdaUnchanged
  /\ UNCHANGED <<warm, restarts>>

(* Silence after the restart is SCREEN_READER_MUTE.                        *)
FreshChannel(d) ==
  /\ flow[d].pc = "restarted"
  /\ \/ nvda = "up" /\ Reads(d)
     \/ nvda # "up" /\ StopAndCleanup(d, "thrown") /\ UNCHANGED <<nvda, served, trouble>>
  /\ UNCHANGED <<warm, restarts>>

(* The read-through and the probes.  Only a speaking NVDA yields a         *)
(* transcript; a silent one ends empty; anything may throw.                *)
Read(d, outcome) ==
  /\ flow[d].pc = "reading"
  /\ outcome = "ok" => nvda = "up"
  /\ StopAndCleanup(d, outcome)
  /\ UNCHANGED <<nvda, served, trouble, warm, restarts>>

-----------------------------------------------------------------------------
(* server.mjs                                                              *)

(* withHardTimeout rejects.  recoverFromFailure forgets first, so the      *)
(* shutdownScreenReader after it finds nothing running and returns.        *)
HardTimeout(d) ==
  /\ d \in Current
  /\ Quirk("hangs")
  /\ abandoned' = abandoned \cup {d}
  /\ screenReader' = Forgotten
  /\ tainted' = (nvda # "down")
  /\ UNCHANGED <<nvda, served, flow, warm, restarts>>

(* uncaughtException with a socket errno: forget, stay up.                 *)
ChannelLost ==
  /\ Quirk("channel lost")
  /\ screenReader' = Forgotten
  /\ UNCHANGED <<nvda, served, tainted, flow, abandoned, warm, restarts>>

(* /health asks readiness, which warms up again unless it worked, is under *)
(* way, or has been tried often enough.  Whether a capture is in the slot  *)
(* is not asked.                                                           *)
WarmUpOnceIfNeeded ==
  /\ ~warm.ok
  /\ flow[Warm].pc = "idle"
  /\ Current = {} \/ "warm-up overlaps" \in trouble.quirks
  /\ warm.attempts < MAX_WARM_ATTEMPTS
  /\ warm' = [warm EXCEPT !.attempts = @ + 1]
  /\ flow' = [flow EXCEPT ![Warm] = [Rest EXCEPT !.pc = AskFor(TRUE)]]
  /\ UNCHANGED <<screenReader, abandoned, restarts>>
  /\ NvdaUnchanged

(* SIGTERM: stop the NVDA we believe in, exit, be started again.           *)
Terminate ==
  /\ restarts > 0
  /\ restarts' = restarts - 1
  /\ IF screenReader.running THEN NvdaStops ELSE NvdaUnchanged
  /\ screenReader' = Forgotten
  /\ flow' = [f \in Flows |-> IF f = Warm THEN [Rest EXCEPT !.pc = "start"] ELSE Rest]
  /\ abandoned' = {}
  /\ warm' = [ok |-> FALSE, attempts |-> 0]

FlowStep(f) ==
  \/ Probe(f)
  \/ Stop(f)
  \/ StartFreshScreenReader(f)
  \/ ClearLeftover(f)
  \/ WaitForScreenReaderGone(f)
  \/ StartAgain(f)

DriveStep(d) ==
  \/ PageOpens(d)
  \/ PageFails(d)
  \/ EnsureSpeechChannel(d)
  \/ FreshChannel(d)
  \/ \E outcome \in Outcomes : Read(d, outcome)
  \/ Stopped(d)

NvdaNext ==
  \/ \E f \in Flows : FlowStep(f)
  \/ \E d \in Drives : DriveStep(d)
  \/ \E d \in Drives, reuse \in BOOLEAN : Begin(d, reuse)
  \/ \E d \in Drives : HardTimeout(d)
  \/ WarmUpOnceIfNeeded
  \/ Dies
  \/ ChannelLost
  \/ Terminate

NvdaSpec == NvdaInit /\ [][NvdaNext]_nvdaVars

(* Every await of the slot's holder and of a warm-up is bounded by a       *)
(* timeout or a deadline; an abandoned capture may hang for good.          *)
NvdaFairSpec ==
  /\ NvdaSpec
  /\ \A f \in Flows : WF_nvdaVars(f \notin abandoned /\ FlowStep(f))
  /\ \A d \in Drives : WF_nvdaVars(d \notin abandoned /\ DriveStep(d))
-----------------------------------------------------------------------------
(* Properties                                                              *)

Reading(d) == d \notin abandoned /\ flow[d].pc = "reading"

(* The read-through of the capture in the slot begins in this step.        *)
StartsReading(d) == ~Reading(d) /\ Reading(d)'

(* No capture reads from an NVDA on which an earlier capture died, however *)
(* the belief, the leftover clearing and the recovery got there: "the      *)
(* second attempt necessarily cold-starts a fresh NVDA" (server.mjs).      *)
(* True where stops work and one flow at a time drives NVDA.               *)
Orderly == trouble.quirks \subseteq OneAtATime

FreshAfterFailure ==
  [][Orderly => \A d \in Drives : StartsReading(d) => ~tainted]_nvdaVars

(* An NVDA is recycled before drift accumulates: it serves no more than    *)
(* MAX_CAPTURES_PER_NVDA read-throughs, whatever happened to the belief    *)
(* that counts them (startScreenReader); of an orderly world, again.       *)
RecycledInTime == Orderly => served <= MAX_CAPTURES_PER_NVDA

(* A worker whose NVDA misbehaved heals by itself: once NVDA behaves again *)
(* and nothing else drives it, a capture that has asked for a screen       *)
(* reader gets to read, whatever state the misbehaviour left behind        *)
(* (startScreenReader, startFreshScreenReader, ensureSpeechChannel).       *)
BringingUp == Starting \cup {"probe", "stop", "ensure"}
Heals ==
  \A d \in Drives :
    (/\ d \notin abandoned /\ flow[d].pc \in BringingUp /\ ~flow[d].restart
     /\ trouble.left = 0 /\ restarts = 0 /\ warm.ok /\ abandoned = {})
      ~> Reading(d)
=============================================================================
