--------------------------- MODULE CaptureClient ---------------------------
(***************************************************************************)
(* How a capture is bought across a network that fails: the client names   *)
(* it, dispatches it, and polls for its answer (worker-fleet/src/          *)
(* capture-client.mjs, the asynchronous path); the corpus runner re-issues *)
(* it when the worker forgot it or it is not evidence (captureVerified in  *)
(* lab/src/training/capture-screenreader-dataset.mjs).                     *)
(*                                                                         *)
(* The worker is CaptureService, the promise CaptureWorker is shown to     *)
(* keep: it forgets an answer when RESULT_HISTORY captures have begun      *)
(* after it, whether its client has collected it or not.                   *)
(*                                                                         *)
(* A POST is in transit from the moment it is sent until it arrives, is    *)
(* lost, or its client hangs up, which takes back what the worker has not  *)
(* read yet: the code's own assumption (reconcileLostAcceptance: a 404     *)
(* "means the POST itself never reached the worker").  A poll is a single  *)
(* step: it either reads the worker's answer or fails.  X_Slip: a fault    *)
(* seeded in X, see ResultStore.                                           *)
(***************************************************************************)
EXTENDS Integers, FiniteSets

CONSTANTS Clients, Ids, Answers,
          OK,                  \* the one answer that carries a capture
          None,                \* no id, no answer, no verdict
          Free, Other,         \* CaptureService's
          RESULT_HISTORY,
          MAX_POLL_FAILURES,
          CAPTURE_ATTEMPTS,
          MaxRestarts          \* bound on the worker's restarts

ASSUME LimitsAssumption ==
  /\ RESULT_HISTORY \in Nat \ {0}
  /\ MAX_POLL_FAILURES \in Nat \ {0}
  /\ CAPTURE_ATTEMPTS \in Nat \ {0}
  /\ MaxRestarts \in Nat
ASSUME AnswersAssumption == OK \in Answers /\ None \notin Answers \cup Ids
ASSUME NamesAssumption ==
  /\ IsFiniteSet(Ids)
  /\ Free # Other /\ {Free, Other} \cap Ids = {} /\ None \notin Clients
  /\ {"absent", "running"} \cap Answers = {}

VARIABLES
  slot, result, since, \* the worker
  reading,           \* the id whose body the worker is reading, or None
  posts,             \* ids of the POSTs in transit
  replies,           \* what the worker wrote to the connections of POSTs
  phase, id,         \* where each client is, and the id it holds
  transportFailures,
  attempt,           \* captureVerified's loop counter
  verdict,           \* what became of the client's case
  history            \* for each id: who used it, in which attempt, the worker's
                     \* life its capture began in, the captures begun after it
                     \* and the answer

vars == <<slot, result, since, reading, posts, replies, phase, id,
          transportFailures, attempt, verdict, history>>

worker == <<slot, result, since, reading>>

Service == INSTANCE CaptureService

Verdicts == {"evidence", "not-evidence", "lost", "failed", "refused", "unreachable", "deadline"}
Phases == {"idle", "posting", "reconciling", "polling"}

ASSUME VerdictsAssumption == None \notin Verdicts

TypeOK ==
  /\ Service!ServiceTypeOK
  /\ reading \in Ids \cup {None}
  /\ posts \subseteq Ids
  /\ replies \subseteq Ids \X {"202", "refused"}
  /\ phase \in [Clients -> Phases]
  /\ id \in [Clients -> Ids \cup {None}]
  /\ transportFailures \in [Clients -> 0 .. MAX_POLL_FAILURES - 1]
  /\ attempt \in [Clients -> 1 .. CAPTURE_ATTEMPTS]
  /\ verdict \in [Clients -> Verdicts \cup {None}]
  /\ history \in [life    : 0 .. MaxRestarts,
                  user    : [Ids -> Clients \cup {None}],
                  attempt : [Ids -> 0 .. CAPTURE_ATTEMPTS],
                  began   : [Ids -> -1 .. MaxRestarts],
                  after   : [Ids -> SUBSET Ids],
                  answer  : [Ids -> Answers \cup {None}]]

Init ==
  /\ Service!ServiceInit
  /\ reading = None
  /\ posts = {}
  /\ replies = {}
  /\ phase = [c \in Clients |-> "idle"]
  /\ id = [c \in Clients |-> None]
  /\ transportFailures = [c \in Clients |-> 0]
  /\ attempt = [c \in Clients |-> 1]
  /\ verdict = [c \in Clients |-> None]
  /\ history = [life    |-> 0,
                user    |-> [i \in Ids |-> None],
                attempt |-> [i \in Ids |-> 0],
                began   |-> [i \in Ids |-> -1],
                after   |-> [i \in Ids |-> {}],
                answer  |-> [i \in Ids |-> None]]

-----------------------------------------------------------------------------
(* The network and the worker                                              *)

PostArrives(i) ==
  /\ i \in posts
  /\ posts' = posts \ {i}
  /\ \/ /\ Service!Claimed
        /\ reading' = i
        /\ UNCHANGED replies
     \/ /\ slot # Free
        /\ replies' = replies \cup {<<i, "refused">>}
        /\ UNCHANGED worker
  /\ UNCHANGED <<phase, id, transportFailures, attempt, verdict, history>>

PostLost(i) ==
  /\ i \in posts
  /\ posts' = posts \ {i}
  /\ UNCHANGED <<worker, replies, phase, id, transportFailures, attempt, verdict, history>>

BodyArrives(i) ==
  /\ reading = i
  /\ Service!Begun(i)
  /\ reading' = None
  /\ replies' = replies \cup {<<i, "202">>}
  /\ history' = [history EXCEPT
       !.began[i] = history.life,
       !.after = [j \in Ids |-> IF history.began[j] = -1 THEN @[j] ELSE @[j] \cup {i}]]
  /\ UNCHANGED <<posts, phase, id, transportFailures, attempt, verdict>>

(* A body the worker rejects.                                              *)
BodyRejected(i) ==
  /\ reading = i
  /\ Service!Released
  /\ reading' = None
  /\ replies' = replies \cup {<<i, "refused">>}
  /\ UNCHANGED <<posts, phase, id, transportFailures, attempt, verdict, history>>

CaptureAnswered(i, a) ==
  /\ Service!Answered(i, a)
  /\ history' = [history EXCEPT !.answer[i] = a]
  /\ UNCHANGED <<reading, posts, replies, phase, id, transportFailures, attempt, verdict>>

(* Connections break with the process that held them.                      *)
WorkerRestarts ==
  /\ history.life < MaxRestarts
  /\ Service!Restarted
  /\ reading' = None
  /\ replies' = {}
  /\ history' = [history EXCEPT !.life = @ + 1]
  /\ UNCHANGED <<posts, phase, id, transportFailures, attempt, verdict>>

-----------------------------------------------------------------------------
(* pollForResult                                                           *)

(* randomUUID: an id nobody has used.                                      *)
Fresh == {i \in Ids : history.user[i] = None}

Post(c, i) ==
  /\ i \in Fresh
  /\ id' = [id EXCEPT ![c] = i]
  /\ phase' = [phase EXCEPT ![c] = "posting"]
  /\ posts' = posts \cup {i}
  /\ transportFailures' = [transportFailures EXCEPT ![c] = 0]
  /\ history' = [history EXCEPT !.user[i] = c, !.attempt[i] = attempt[c]]

Dispatch(c, i) ==
  /\ phase[c] = "idle" /\ verdict[c] = None
  /\ Post(c, i)
  /\ UNCHANGED <<worker, replies, attempt, verdict>>

Accepted(c) ==
  /\ phase[c] = "posting"
  /\ <<id[c], "202">> \in replies
  /\ replies' = replies \ {<<id[c], "202">>}
  /\ phase' = [phase EXCEPT ![c] = "polling"]
  /\ UNCHANGED <<worker, posts, id, transportFailures, attempt, verdict, history>>

(* captureVerified: these two end one attempt out of CAPTURE_ATTEMPTS;     *)
(* every other outcome but evidence is thrown out of its loop.             *)
Retryable == {"not-evidence", "lost"}

(* The attempt is over.                                                    *)
Concludes(c, v) ==
  /\ phase' = [phase EXCEPT ![c] = "idle"]
  /\ \/ /\ v \in Retryable /\ attempt[c] < CAPTURE_ATTEMPTS
        /\ attempt' = [attempt EXCEPT ![c] = @ + 1]
        /\ UNCHANGED verdict
     \/ /\ ~(v \in Retryable /\ attempt[c] < CAPTURE_ATTEMPTS)
        /\ verdict' = [verdict EXCEPT ![c] = v]
        /\ UNCHANGED attempt
  /\ UNCHANGED <<id, transportFailures, history>>

(* Not a 202: the worker's refusal is the answer.                          *)
Refused(c) ==
  /\ phase[c] = "posting"
  /\ <<id[c], "refused">> \in replies
  /\ replies' = replies \ {<<id[c], "refused">>}
  /\ Concludes(c, "refused")
  /\ UNCHANGED <<worker, posts>>

PostFails_Slip(c) ==
  /\ phase[c] = "posting"
  /\ phase' = [phase EXCEPT ![c] = "idle"]
  /\ replies' = {r \in replies : r[1] # id[c]}
  /\ UNCHANGED <<worker, posts, id, transportFailures, attempt, verdict, history>>

(* The POST's connection is gone: the 202 is lost, or there never was one. *)
(* The worker gives up a body that stops arriving.                         *)
HangsUp(c) ==
  /\ phase[c] = "posting"
  /\ replies' = {r \in replies : r[1] # id[c]}
  /\ posts' = posts \ {id[c]}
  /\ \/ reading = id[c] /\ Service!Released /\ reading' = None
     \/ reading # id[c] /\ UNCHANGED worker

(* ACCEPT_TIMEOUT_MS passed, or a network error that heals by itself.      *)
PostFails(c) ==
  /\ HangsUp(c)
  /\ phase' = [phase EXCEPT ![c] = "reconciling"]
  /\ UNCHANGED <<id, transportFailures, attempt, verdict, history>>

(* An error that isTransient does not know is thrown out of everything.    *)
PostThrows(c) ==
  /\ HangsUp(c)
  /\ Concludes(c, "unreachable")

Judged_Slip(a) == {"evidence", "not-evidence"}

(* What a finished capture's answer is to the corpus runner: 200 may or    *)
(* may not be evidence, 500 is thrown.                                     *)
Judged(a) == IF a = OK THEN {"evidence", "not-evidence"} ELSE {"failed"}

(* GET /capture/<id> answered with the stored response, while reconciling  *)
(* or polling.                                                             *)
Collects(c) ==
  /\ phase[c] \in {"reconciling", "polling"}
  /\ result[id[c]] \in Answers
  /\ \E v \in Judged(result[id[c]]) : Concludes(c, v)
  /\ UNCHANGED <<worker, posts, replies>>

(* It answered 202: the acceptance was lost, not the capture; or the       *)
(* capture is still being taken.  Either way poll on.                      *)
StillRunning(c) ==
  /\ phase[c] \in {"reconciling", "polling"}
  /\ result[id[c]] = "running"
  /\ phase' = [phase EXCEPT ![c] = "polling"]
  /\ transportFailures' = [transportFailures EXCEPT ![c] = 0]
  /\ UNCHANGED <<worker, posts, replies, id, attempt, verdict, history>>

Reissue_Slip(c, i) ==
  /\ phase[c] = "reconciling"
  /\ result[id[c]] \notin Answers
  /\ Post(c, i)
  /\ UNCHANGED <<worker, replies, attempt, verdict>>

(* It answered 404 to a client that never saw a 202: mint a fresh id.      *)
Reissue(c, i) ==
  /\ phase[c] = "reconciling"
  /\ result[id[c]] = "absent"
  /\ Post(c, i)
  /\ UNCHANGED <<worker, replies, attempt, verdict>>

Lost_Slip(c) ==
  /\ phase[c] \in {"reconciling", "polling"}
  /\ result[id[c]] = "absent"
  /\ Concludes(c, "lost")
  /\ UNCHANGED <<worker, posts, replies>>

(* It answered 404 after a 202.                                            *)
Lost(c) ==
  /\ phase[c] = "polling"
  /\ result[id[c]] = "absent"
  /\ Concludes(c, "lost")
  /\ UNCHANGED <<worker, posts, replies>>

(* A failed poll is not a failed capture; MAX_POLL_FAILURES in a row are.  *)
(* While reconciling they are not counted, and nothing changes.            *)
PollFails(c) ==
  /\ phase[c] = "polling"
  /\ \/ /\ transportFailures[c] + 1 < MAX_POLL_FAILURES
        /\ transportFailures' = [transportFailures EXCEPT ![c] = @ + 1]
        /\ UNCHANGED <<worker, posts, replies, phase, id, attempt, verdict, history>>
     \/ /\ transportFailures[c] + 1 >= MAX_POLL_FAILURES
        /\ Concludes(c, "unreachable")
        /\ UNCHANGED <<worker, posts, replies>>

DeadlinePasses(c) ==
  /\ phase[c] \in {"reconciling", "polling"}
  /\ Concludes(c, "deadline")
  /\ UNCHANGED <<worker, posts, replies>>

ClientStep(c) ==
  \/ \E i \in Ids : Dispatch(c, i) \/ Reissue(c, i)
  \/ Accepted(c)
  \/ Refused(c)
  \/ PostFails(c)
  \/ PostThrows(c)
  \/ Collects(c)
  \/ StillRunning(c)
  \/ Lost(c)
  \/ PollFails(c)
  \/ DeadlinePasses(c)

WorkerStep ==
  \/ \E i \in Ids :
       \/ PostArrives(i)
       \/ PostLost(i)
       \/ BodyArrives(i)
       \/ BodyRejected(i)
       \/ \E a \in Answers : CaptureAnswered(i, a)
  \/ WorkerRestarts

Next == (\E c \in Clients : ClientStep(c)) \/ WorkerStep

Spec == Init /\ [][Next]_vars

-----------------------------------------------------------------------------
(* Properties                                                              *)

(* Ids their client has moved on from: it holds another one now.           *)
Replaced == {i \in Ids : /\ history.user[i] # None
                         /\ i # id[history.user[i]]}

(* reconcileLostAcceptance: a client mints another id only when nothing    *)
(* will ever run under the one it gives up.  Otherwise a second capture    *)
(* holds the screen reader for nobody, and refuses the client's own.       *)
ReplacedIdsAreDead ==
  /\ slot \notin Replaced
  /\ reading \notin Replaced
  /\ \A i \in Replaced : result[i] # "running"

(* The answer under i was given, and RESULT_HISTORY captures of other      *)
(* clients have begun since i's: the worker may have evicted it.           *)
PushedOut(i) ==
  /\ history.answer[i] # None
  /\ Cardinality({j \in history.after[i] : history.user[j] # history.user[i]})
       >= RESULT_HISTORY

(* However acceptances and answers are lost, one attempt at a case costs   *)
(* the worker one capture in each of its lives: a second one is begun only *)
(* when RESULT_HISTORY captures of other clients came between.             *)
OneCapturePerAttempt ==
  \A i, j \in {k \in Ids : history.began[k] # -1} :
    (/\ i # j /\ history.user[i] = history.user[j]
     /\ history.attempt[i] = history.attempt[j] /\ history.began[i] = history.began[j])
       => PushedOut(i) \/ PushedOut(j)

(* What the runner keeps as evidence, or throws as the worker's own fault, *)
(* is what the worker answered under the id the client holds, whichever of *)
(* the two paths collected it.                                             *)
VerdictIsTheAnswer ==
  \A c \in Clients :
    /\ verdict[c] \in {"evidence", "not-evidence"} => history.answer[id[c]] = OK
    /\ verdict[c] = "failed" => history.answer[id[c]] \in Answers \ {OK}

(* A 404 is acted upon for cause.  A client gives a capture up as lost, or *)
(* mints another id for it, only if the worker restarted since it began or *)
(* others pushed its answer out; or, before a 202, if it never began.      *)
(* Neither the network nor a capture in progress brings a client there.    *)
RedoneForCause ==
  [][\A c \in Clients :
       LET gone == history.began[id[c]] \in 0 .. history.life - 1 \/ PushedOut(id[c])
       IN  /\ Lost(c) => gone
           /\ (\E i \in Ids : Reissue(c, i)) => history.began[id[c]] = -1 \/ gone]_vars

(* pollOnce and awaitCompletion say more of a 404 after a 202: the worker  *)
(* restarted in the middle of the capture.                                 *)
LostMeansRestart ==
  [][\A c \in Clients : Lost(c) =>
       history.began[id[c]] \in 0 .. history.life - 1]_vars
=============================================================================
