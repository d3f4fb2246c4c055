--------------------------- MODULE CaptureWorker ---------------------------
(***************************************************************************)
(* The capture worker's HTTP side (nvda-worker/src/server.mjs): one slot   *)
(* for one machine-wide screen reader, claimed when a request arrives and  *)
(* given back when it is abandoned, rejected or answered; the result store *)
(* that outlives the response; the one local recovery per capture and its  *)
(* circuit breaker; the bounded warm-up of NVDA at boot; and a restart,    *)
(* which forgets all of it.                                                *)
(*                                                                         *)
(* Node runs a callback to its next await without interruption, so an      *)
(* action is one such stretch of code.  What NVDA itself does during a     *)
(* capture is the subject of ScreenReader; here a capture ends in one of   *)
(* the outcomes the code tells apart.                                      *)
(***************************************************************************)
EXTENDS ResultStore

CONSTANTS Conns,                       \* client connections
          None,                        \* no connection, or no captureId
          MAX_CONSECUTIVE_RECOVERIES,
          MAX_WARM_ATTEMPTS,
          MaxRuns                      \* bound on the runs of one process

ASSUME NoneAssumption == None \notin Conns /\ None \notin Ids
ASSUME SlotAssumption == Ids \cap {"free", "other"} = {}
ASSUME LimitsAssumption ==
  /\ MAX_CONSECUTIVE_RECOVERIES \in Nat
  /\ MAX_WARM_ATTEMPTS \in Nat
  /\ MaxRuns \in Nat

VARIABLES
  busy,                   \* the slot
  req,                    \* the latest request of each connection
  inFlight,               \* the run /progress reports on
  store,                  \* results
  worked,                 \* the captures answered: the sum of /health's counters
  consecutiveRecoveries,
  warm,                   \* warm.ok, warming and warmAttempts
  streak                  \* history: restarts and failures since a clean capture

vars ==
  <<busy, req, inFlight, store, worked, consecutiveRecoveries, warm, streak>>

(* A request is "reading" while its body arrives; "preparing", "capturing" *)
(* and "retrying" are the awaits inside runCapture.  `reply' is what was   *)
(* written to the socket: 202, a refusal (400 or 429), or the answer of a  *)
(* finished capture.                                                       *)
RunPhases == {"preparing", "capturing", "retrying"}
Replies == {"none", "202", "refused"} \cup Answers
Idle == [phase |-> "idle", id |-> None, async |-> FALSE, reply |-> "none"]

Requests == [phase : {"idle", "reading"} \cup RunPhases,
             id    : Ids \cup {None},
             async : BOOLEAN,
             reply : Replies]

Runs == {c \in Conns : req[c].phase \in RunPhases}
Runners == {c \in Conns : req[c].phase # "idle"}

TypeOK ==
  /\ busy \in BOOLEAN
  /\ req \in [Conns -> Requests]
  /\ inFlight \in Conns \cup {None}
  /\ store \in Stores
  /\ worked \in Nat
  /\ consecutiveRecoveries \in 0 .. MAX_CONSECUTIVE_RECOVERIES
  /\ warm \in [ok : BOOLEAN, warming : BOOLEAN, attempts : 0 .. MAX_WARM_ATTEMPTS]
  /\ streak \in [restarts : Nat, failures : Nat]

NoStreak == [restarts |-> 0, failures |-> 0]

(* The process has just begun to listen: boot warms NVDA up at once.       *)
Init ==
  /\ busy = FALSE
  /\ req = [c \in Conns |-> Idle]
  /\ inFlight = None
  /\ store = EmptyStore
  /\ worked = 0
  /\ consecutiveRecoveries = 0
  /\ warm = [ok |-> FALSE, warming |-> TRUE, attempts |-> 0]
  /\ streak = NoStreak

-----------------------------------------------------------------------------
(* POST /capture                                                           *)

Claim_Slip(c) ==
  /\ req[c].phase = "idle"
  /\ ~busy
  /\ req' = [req EXCEPT ![c] = [Idle EXCEPT !.phase = "reading"]]
  /\ UNCHANGED <<busy, inFlight, store, worked, consecutiveRecoveries, streak, warm>>

(* The check and the claim are one synchronous step.                       *)
Claim(c) ==
  /\ req[c].phase = "idle"
  /\ ~busy
  /\ busy' = TRUE
  /\ req' = [req EXCEPT ![c] = [Idle EXCEPT !.phase = "reading"]]
  /\ UNCHANGED <<inFlight, store, worked, consecutiveRecoveries, streak, warm>>

Refuse(c) ==
  /\ req[c].phase = "idle"
  /\ busy
  /\ req' = [req EXCEPT ![c] = [Idle EXCEPT !.reply = "refused"]]
  /\ UNCHANGED <<busy, inFlight, store, worked, consecutiveRecoveries, streak, warm>>

(* "aborted", "error" and "close" reach one request in one turn of the     *)
(* event loop, so they release the slot once.                              *)
Abandon(c) ==
  /\ req[c].phase = "reading"
  /\ busy' = FALSE
  /\ req' = [req EXCEPT ![c] = Idle]
  /\ UNCHANGED <<inFlight, store, worked, consecutiveRecoveries, streak, warm>>

(* Bad JSON, no url, an unknown option, a malformed id, or an async        *)
(* capture with no id to collect it by.                                    *)
Reject(c) ==
  /\ req[c].phase = "reading"
  /\ busy' = FALSE
  /\ req' = [req EXCEPT ![c] = [Idle EXCEPT !.reply = "refused"]]
  /\ UNCHANGED <<inFlight, store, worked, consecutiveRecoveries, streak, warm>>

(* A well-formed body: remember the id, answer 202 when the client will    *)
(* poll, and run to runCapture's first await.                              *)
Accept(c, id, async) ==
  /\ req[c].phase = "reading"
  /\ async => id # None
  /\ worked < MaxRuns
  /\ req' = [req EXCEPT ![c] = [phase |-> "preparing", id |-> id, async |-> async,
                                reply |-> IF async THEN "202" ELSE "none"]]
  /\ store' = IF id = None THEN store ELSE Begin(store, id)
  /\ inFlight' = c
  /\ UNCHANGED <<busy, worked, consecutiveRecoveries, streak, warm>>

-----------------------------------------------------------------------------
(* runCapture                                                              *)

(* The desktop was prepared, or its 60 s bound expired: either way on.     *)
Prepared(c) ==
  /\ req[c].phase = "preparing"
  /\ req' = [req EXCEPT ![c].phase = "capturing"]
  /\ UNCHANGED <<busy, inFlight, store, worked, consecutiveRecoveries, streak, warm>>

AnswerAndRelease_StoresOnlySuccess_Slip(c, answer) ==
  /\ store' = IF req[c].id = None \/ answer # "ok" THEN store
              ELSE Finish(store, req[c].id, answer)
  /\ req' = [req EXCEPT ![c].phase = "idle",
                        ![c].reply = IF req[c].async THEN @ ELSE answer]
  /\ busy' = FALSE
  /\ inFlight' = None

(* `answer': remember, then send unless the 202 already went; and          *)
(* runCapture's finally.  The catch's `await recoverFromFailure' does not  *)
(* yield to another request: forgetScreenReader runs before                *)
(* shutdownScreenReader, which then finds nothing to stop.                 *)
AnswerAndRelease(c, answer) ==
  /\ store' = IF req[c].id = None THEN store ELSE Finish(store, req[c].id, answer)
  /\ req' = [req EXCEPT ![c].phase = "idle",
                        ![c].reply = IF req[c].async THEN @ ELSE answer]
  /\ busy' = FALSE
  /\ inFlight' = None

CaptureSucceeds(c) ==
  /\ req[c].phase = "capturing"
  /\ consecutiveRecoveries' = 0
  /\ worked' = worked + 1
  /\ streak' = NoStreak
  /\ AnswerAndRelease(c, "ok")
  /\ UNCHANGED warm

LocallyRecovers_Slip(fault) == fault \in Recoverable

(* A fault a fresh screen reader may clear, and the breaker still closed.  *)
LocallyRecovers(fault) ==
  /\ fault \in Recoverable
  /\ consecutiveRecoveries < MAX_CONSECUTIVE_RECOVERIES

Recover(c, fault) ==
  /\ req[c].phase = "capturing"
  /\ LocallyRecovers(fault)
  /\ req' = [req EXCEPT ![c].phase = "retrying"]
  /\ streak' = [streak EXCEPT !.restarts = @ + 1]
  /\ UNCHANGED <<busy, inFlight, store, worked, consecutiveRecoveries, warm>>

(* Only a restart whose retry succeeded is counted.                        *)
RetrySucceeds(c) ==
  /\ req[c].phase = "retrying"
  /\ consecutiveRecoveries' = consecutiveRecoveries + 1
  /\ worked' = worked + 1
  /\ AnswerAndRelease(c, "ok")
  /\ UNCHANGED <<warm, streak>>

(* The capture's failure is the caller's: not recoverable here, or refused *)
(* by the breaker, or the retry failed as well.                            *)
CaptureFails(c, fault) ==
  /\ \/ req[c].phase = "capturing" /\ ~LocallyRecovers(fault)
     \/ req[c].phase = "retrying"
  /\ worked' = worked + 1
  /\ streak' = [streak EXCEPT !.failures = @ + 1]
  /\ AnswerAndRelease(c, fault)
  /\ UNCHANGED <<consecutiveRecoveries, warm>>

-----------------------------------------------------------------------------
(* Warm-up and the process's own life                                      *)

(* GET /health or /ready calls warmUpOnceIfNeeded.  The cooldown is time,  *)
(* which is not modelled: any number of polls may fall after it.           *)
WarmUpOnceIfNeeded ==
  /\ ~warm.ok /\ ~warm.warming
  /\ warm.attempts < MAX_WARM_ATTEMPTS
  /\ warm' = [warm EXCEPT !.warming = TRUE, !.attempts = @ + 1]
  /\ UNCHANGED <<busy, req, inFlight, store, worked, consecutiveRecoveries, streak>>

(* warmUpScreenReader never throws; a success re-arms the attempts.        *)
WarmUpEnds(ok) ==
  /\ warm.warming
  /\ warm' = [ok |-> ok, warming |-> FALSE,
              attempts |-> IF ok THEN 0 ELSE warm.attempts]
  /\ UNCHANGED <<busy, req, inFlight, store, worked, consecutiveRecoveries, streak>>

(* An exception outside the recoverable socket codes, a signal or a power  *)
(* cut: the process is gone, and the scheduled task starts another.        *)
Restart ==
  /\ busy' = FALSE
  /\ req' = [c \in Conns |-> Idle]
  /\ inFlight' = None
  /\ store' = EmptyStore
  /\ worked' = 0
  /\ consecutiveRecoveries' = 0
  /\ warm' = [ok |-> FALSE, warming |-> TRUE, attempts |-> 0]
  /\ streak' = NoStreak

AcceptAny(c) == \E id \in Ids \cup {None}, async \in BOOLEAN : Accept(c, id, async)

CaptureEnds(c) ==
  \/ CaptureSucceeds(c)
  \/ RetrySucceeds(c)
  \/ \E fault \in Faults : Recover(c, fault) \/ CaptureFails(c, fault)

Next ==
  \/ \E c \in Conns :
       \/ Claim(c)
       \/ Refuse(c)
       \/ Abandon(c)
       \/ Reject(c)
       \/ AcceptAny(c)
       \/ Prepared(c)
       \/ CaptureEnds(c)
  \/ WarmUpOnceIfNeeded
  \/ \E ok \in BOOLEAN : WarmUpEnds(ok)
  \/ Restart

(* A body ends or its connection breaks (Node's own request timeout); the  *)
(* desktop preparation has its 60 s bound, each attempt at a capture the   *)
(* hard timeout, and every call of a warm-up its own.                      *)
Fairness ==
  /\ \A c \in Conns :
       /\ WF_vars(Abandon(c) \/ Reject(c) \/ AcceptAny(c))
       /\ WF_vars(Prepared(c))
       /\ WF_vars(CaptureEnds(c))
  /\ WF_vars(\E ok \in BOOLEAN : WarmUpEnds(ok))

Spec == Init /\ [][Next]_vars
FairSpec == Spec /\ Fairness

-----------------------------------------------------------------------------
(* Properties                                                              *)

(* acceptCaptureRequest claims `busy' in the step that checks it, and      *)
(* every path out of a request gives it back exactly once: the slot is     *)
(* taken when, and only when, one single request is alive.  Two captures   *)
(* on one NVDA would be contaminated evidence; a slot held by nobody is    *)
(* the wedge that answers 429 for ever.                                    *)
SlotHeldByOne ==
  /\ busy <=> Runners # {}
  /\ \A c, d \in Runners : c = d

(* The store says "running" of exactly the captures that are: a finished   *)
(* or failed one left running would be polled until the client's deadline, *)
(* and a running one evicted would be captured twice.                      *)
RunningIsInFlight ==
  Running(store) = {req[c].id : c \in Runs} \ {None}

(* runCapture sets inFlight for its whole duration and clears it in the    *)
(* same finally as `busy', so /progress never describes a capture that is  *)
(* over.                                                                   *)
ProgressIsLive ==
  /\ inFlight = None <=> Runs = {}
  /\ inFlight # None => inFlight \in Runs

(* createResultStore: the bound holds with no slack, although eviction     *)
(* yields rather than drop a running capture, because the slot lets only   *)
(* one run at a time.                                                      *)
StoreBounded == Cardinality(Held(store)) <= RESULT_HISTORY

(* captureWithLocalRecovery: of the restarts of NVDA since the last capture *)
(* that needed none, all but MAX_CONSECUTIVE_RECOVERIES are matched by a   *)
(* capture whose caller was told of its failure: a guest that restarts its *)
(* screen reader again and again cannot hide it from the run, whose        *)
(* shouldRetireWorker acts on failures.  The count of the breaker alone    *)
(* would not do: it leaves out the restarts whose retry failed.            *)
RestartsAreSeen ==
  streak.restarts <= MAX_CONSECUTIVE_RECOVERIES + streak.failures

(* The breaker's comment says more: recovering is bounded across captures  *)
(* too, and restarting NVDA in a loop is what it refuses.                  *)
RestartsAreBounded == streak.restarts <= MAX_CONSECUTIVE_RECOVERIES

(* What the worker promises its callers, over this state: the slot is held *)
(* by the id of the run in progress, or by a request that has none (yet).  *)
Slot ==
  IF ~busy THEN "free"
  ELSE IF Running(store) = {} THEN "other"
  ELSE CHOOSE i \in Ids : i \in Running(store)

Since == [i \in Ids |-> {j \in Ids : <<i, j>> \in store.older}]

Service == INSTANCE CaptureService
             WITH Free <- "free", Other <- "other",
                  slot <- Slot, result <- store.entry, since <- Since

(* Whatever is evicted, retried or restarted: a capture under an id has    *)
(* one answer, which never changes and is forgotten only when              *)
(* RESULT_HISTORY newer captures have begun or the worker restarts.        *)
ServesAsPromised == Service!ServiceSpec

(* And the slot is always given back.                                      *)
ImplementsService == Service!FairServiceSpec
=============================================================================
