---------------------------- MODULE CaptureBudget ----------------------------
(***************************************************************************)
(* The deadlines around one worker's captures, with a clock: the bound on  *)
(* the desktop's preparation (server.mjs), the capture's own budget and    *)
(* the hard timeout that contains it (capture-core.mjs, server.mjs), twice *)
(* over when the worker retries, and the client's deadline that should     *)
(* contain them all (capture-client.mjs, worker-http.mjs).                 *)
(*                                                                         *)
(* Time passes in ticks, and a timer fires in the tick it is due: Tick     *)
(* waits for it.  What a timer does not bound may take any time.  Answers  *)
(* and refusals reach the client within the tick; that they may be lost is *)
(* CaptureClient's subject.  One client drives one worker, as one drain    *)
(* of the pool does.                                                       *)
(***************************************************************************)
EXTENDS Integers

CONSTANTS
    DESKTOP_PREPARE_TIMEOUT, \* bounds the preparation
    DEFAULT_BUDGET,          \* a capture's own deadline, from when NVDA is up
    WORST_CASE_STARTUP,      \* the longest observed until NVDA is up
    CAPTURE_HARD_TIMEOUT,    \* an attempt is abandoned
    ACCEPT_TIMEOUT,          \* one handshake of the client
    CAPTURE_CLIENT_TIMEOUT,  \* the client gives up
    NoAnswer

(* budgetLadderIsSound, of the capture's budget in the hard timeout, and   *)
(* the order its test asserts of the outer rungs: the client's deadline    *)
(* contains a preparation and an attempt, with a handshake to spare.       *)
BudgetLadderIsSound ==
    /\ DEFAULT_BUDGET + WORST_CASE_STARTUP < CAPTURE_HARD_TIMEOUT
    /\ DESKTOP_PREPARE_TIMEOUT + CAPTURE_HARD_TIMEOUT + ACCEPT_TIMEOUT
         < CAPTURE_CLIENT_TIMEOUT

ASSUME DurationsAssumption ==
    /\ DESKTOP_PREPARE_TIMEOUT \in Nat
    /\ DEFAULT_BUDGET \in Nat
    /\ WORST_CASE_STARTUP \in Nat
    /\ CAPTURE_HARD_TIMEOUT \in Nat
    /\ ACCEPT_TIMEOUT \in Nat
    /\ CAPTURE_CLIENT_TIMEOUT \in Nat

ASSUME LadderAssumption == BudgetLadderIsSound

ASSUME NoAnswerAssumption == NoAnswer \notin {"captured", "failed", "hardTimeout"}

VARIABLES
    client,     \* what the client is doing
    left,       \* until its deadline
    stage,      \* of the capture that holds the worker's slot
    age,        \* of that capture, from its acceptance
    attemptAge, \* of its current attempt, from the end of the preparation
    readAge,    \* since NVDA was up and the capture took its own deadline
    tries,      \* 2 when the worker retries it
    accepted,   \* whether its client got through in one handshake
    answer      \* what the store has under the id the client holds

workerVars == <<stage, age, attemptAge, readAge, tries, accepted, answer>>
budgetVars == <<client, left, workerVars>>

Driving == stage \in {"starting", "reading"}

BudgetInit ==
    /\ client = "idle"
    /\ left = CAPTURE_CLIENT_TIMEOUT
    /\ stage = "free"
    /\ age = 0 /\ attemptAge = 0 /\ readAge = 0
    /\ tries = 1
    /\ accepted = "inTime"
    /\ answer = NoAnswer

-----------------------------------------------------------------------------
(* As it was before it counted the preparation.                            *)
ClientDeadline_Slip == CAPTURE_HARD_TIMEOUT + ACCEPT_TIMEOUT

(* The client: its deadline counts from before the POST, and goes on       *)
(* through a re-issue under a new id.                                      *)
ClientDeadline == CAPTURE_CLIENT_TIMEOUT

ClientPosts ==
    /\ client = "idle"
    /\ client' = "posting"
    /\ left' = ClientDeadline
    /\ UNCHANGED workerVars

(* A 202: at once, or after polls that settled that the first POST was     *)
(* lost.                                                                   *)
ClientAccepted ==
    /\ client = "posting"
    /\ left > 0
    /\ stage = "free"
    /\ client' = "polling"
    /\ stage' = "preparing"
    /\ accepted' = IF left + ACCEPT_TIMEOUT < ClientDeadline
                    THEN "late" ELSE "inTime"
    /\ answer' = NoAnswer
    /\ UNCHANGED <<left, age, attemptAge, readAge, tries>>

(* A 429: the slot is taken, by a capture its client has left.             *)
ClientRefused ==
    /\ client = "posting"
    /\ stage # "free"
    /\ client' = "idle"
    /\ left' = CAPTURE_CLIENT_TIMEOUT
    /\ UNCHANGED workerVars

Collect ==
    /\ client = "polling"
    /\ answer # NoAnswer
    /\ client' = "idle"
    /\ left' = CAPTURE_CLIENT_TIMEOUT
    /\ UNCHANGED workerVars

(* ETIMEDOUT, while it was posting or while the capture runs.              *)
GiveUp ==
    /\ client # "idle"
    /\ left = 0
    /\ answer = NoAnswer \/ client = "posting"
    /\ client' = "idle"
    /\ left' = CAPTURE_CLIENT_TIMEOUT
    /\ UNCHANGED workerVars

-----------------------------------------------------------------------------
(* The preparation awaited without its bound.                              *)
PrepareExpires_Slip == FALSE

(* The worker's two timers.                                                *)
PrepareExpires == stage = "preparing" /\ age = DESKTOP_PREPARE_TIMEOUT

(* The hard timer is started before the preparation.                       *)
HardExpires_Slip == Driving /\ age >= CAPTURE_HARD_TIMEOUT

HardExpires == Driving /\ attemptAge = CAPTURE_HARD_TIMEOUT

(* Finished or given up: the capture goes on either way.                   *)
Prepared ==
    /\ stage = "preparing"
    /\ stage' = "starting"
    /\ UNCHANGED <<client, left, age, attemptAge, readAge, tries,
                   accepted, answer>>

(* NVDA and the browser are up: the capture's deadline counts from here.   *)
Up ==
    /\ stage = "starting"
    /\ stage' = "reading"
    /\ UNCHANGED <<client, left, age, attemptAge, readAge, tries,
                   accepted, answer>>

(* runCapture answers and its finally gives the slot back.                 *)
AnswerAndRelease(outcome) ==
    /\ answer' = outcome
    /\ stage' = "free"
    /\ age' = 0 /\ attemptAge' = 0 /\ readAge' = 0
    /\ tries' = 1
    /\ accepted' = "inTime"
    /\ UNCHANGED <<client, left>>

CaptureEnds ==
    /\ stage = "reading"
    /\ AnswerAndRelease("captured")

(* A fault a retry would not clear, or the second, or the breaker's third. *)
CaptureFails ==
    /\ Driving
    /\ AnswerAndRelease("failed")

(* A start that failed or a mute NVDA, which shows only when all is read:  *)
(* the retry has a hard timeout and a budget of its own.                   *)
Recover ==
    /\ Driving
    /\ tries = 1
    /\ tries' = 2
    /\ stage' = "starting"
    /\ attemptAge' = 0
    /\ readAge' = 0
    /\ UNCHANGED <<client, left, age, accepted, answer>>

HardTimeout ==
    /\ HardExpires
    /\ AnswerAndRelease("hardTimeout")

-----------------------------------------------------------------------------
Elapse(n, counts) == IF counts THEN n + 1 ELSE n

Tick ==
    /\ client # "idle" \/ stage # "free"
    /\ client # "idle" => left > 0
    /\ client = "polling" => answer = NoAnswer
    /\ ~PrepareExpires
    /\ ~HardExpires
    /\ left' = IF client = "idle" THEN left ELSE left - 1
    /\ age' = Elapse(age, stage # "free")
    /\ attemptAge' = Elapse(attemptAge, Driving)
    /\ readAge' = Elapse(readAge, stage = "reading")
    /\ UNCHANGED <<client, stage, tries, accepted, answer>>

BudgetNext ==
    \/ ClientPosts \/ ClientAccepted \/ ClientRefused \/ Collect \/ GiveUp
    \/ Prepared \/ Up \/ CaptureEnds \/ CaptureFails \/ Recover \/ HardTimeout
    \/ Tick

BudgetSpec == BudgetInit /\ [][BudgetNext]_budgetVars

-----------------------------------------------------------------------------
BudgetTypeOK ==
    /\ client \in {"idle", "posting", "polling"}
    /\ left \in 0..CAPTURE_CLIENT_TIMEOUT
    /\ stage \in {"free", "preparing", "starting", "reading"}
    /\ age \in Nat /\ attemptAge \in Nat /\ readAge \in Nat
    /\ tries \in 1..2
    /\ accepted \in {"inTime", "late"}
    /\ answer \in {NoAnswer, "captured", "failed", "hardTimeout"}

(* A taken slot is given back in time whatever hangs: a preparation and an *)
(* attempt, and one more attempt if the worker retries.  The preparation   *)
(* was outside every bound once and a worker refused all work for hours.   *)
SlotIsBounded ==
    stage # "free" =>
        age <= DESKTOP_PREPARE_TIMEOUT + tries * CAPTURE_HARD_TIMEOUT

(* A client that got through at once leaves no capture behind, to hold the *)
(* worker and refuse its next, but one the worker is trying a second time. *)
OrphansAreRetries ==
    (stage # "free" /\ client # "polling") =>
        (tries = 2 \/ accepted = "late")

(* An attempt that came up as fast as the slowest start on record and has  *)
(* not used up its budget.                                                 *)
WithinRights ==
    /\ attemptAge - readAge <= WORST_CASE_STARTUP
    /\ readAge <= DEFAULT_BUDGET

(* The hard timeout takes no capture that kept to its own deadline: what   *)
(* it abandons started too slowly or ran past its budget.                  *)
AbandonedForCause ==
    [][(stage # "free" /\ stage' = "free" /\ answer' = "hardTimeout")
         => ~WithinRights]_budgetVars

(* What worker-http.mjs says of a worker's worst case: a preparation and   *)
(* one capture, 60 s + 520 s.                                              *)
TrueWorstCase ==
    stage # "free" => age <= DESKTOP_PREPARE_TIMEOUT + CAPTURE_HARD_TIMEOUT

=============================================================================
