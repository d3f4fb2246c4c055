---------------------------- MODULE ClientProofs ----------------------------
(***************************************************************************)
(* What a client waits for a capture, and what it makes of what it is      *)
(* told: CaptureBudget for all durations that form a sound ladder, and     *)
(* CaptureClient for any number of clients, ids, failures and restarts.    *)
(*                                                                         *)
(* Inv adds to the types what the timers keep: a preparation is no older   *)
(* than its bound and an attempt than its own, the age of a capture is     *)
(* made of these, and while its client polls, the age and what is left to  *)
(* the client make up its deadline, less a handshake if it was accepted in *)
(* time.                                                                   *)
(*                                                                         *)
(* ClientInv says of whom the worker's answers are and which life they are *)
(* of, that an id that was replaced is dead (no message of it is under way *)
(* and it does not run), that what a client believes of its id follows     *)
(* from what was begun for it, and that of the ids they hold the worker    *)
(* has forgotten, in the life it is in, only those that others pushed out: *)
(* a client begins nothing between the id it holds and the next.           *)
(***************************************************************************)
EXTENDS CaptureBudget, CaptureClient, FiniteSetTheorems, TLAPS

Ages ==
    /\ stage = "preparing" => age <= DESKTOP_PREPARE_TIMEOUT
    /\ Driving => attemptAge <= CAPTURE_HARD_TIMEOUT
    /\ (Driving /\ tries = 1) =>
         age <= DESKTOP_PREPARE_TIMEOUT + attemptAge
    /\ (Driving /\ tries = 2) =>
         age <= DESKTOP_PREPARE_TIMEOUT + CAPTURE_HARD_TIMEOUT + attemptAge
    /\ stage \in {"free", "preparing"} => attemptAge = 0 /\ tries = 1
    /\ stage = "free" => age = 0
    /\ stage # "reading" => readAge = 0
    /\ readAge <= attemptAge

ClientsClock ==
    (stage # "free" /\ client = "polling" /\ accepted = "inTime") =>
        CAPTURE_CLIENT_TIMEOUT <= left + age + ACCEPT_TIMEOUT

Unanswered == stage # "free" => answer = NoAnswer

Inv == BudgetTypeOK /\ Ages /\ ClientsClock /\ Unanswered /\ OrphansAreRetries

LEMMA InitInv == BudgetInit => Inv
  BY DurationsAssumption
     DEF BudgetInit, Inv, BudgetTypeOK, Ages, ClientsClock,
              Unanswered, OrphansAreRetries, Driving

(* A tick: no timer is due, so each bound has room for one more.           *)
LEMMA TickInv == Inv /\ Tick => Inv'
<1> SUFFICES ASSUME Inv, Tick PROVE Inv'
  OBVIOUS
<1> USE DurationsAssumption
<1>1. BudgetTypeOK'
  BY DEF Inv, Tick, BudgetTypeOK, Elapse, Driving
<1>2. Ages'
  <2>1. CASE stage = "free"
    BY <2>1 DEF Inv, Tick, BudgetTypeOK, Ages, Elapse, Driving
  <2>2. CASE stage = "preparing"
    BY <2>2 DEF Inv, Tick, BudgetTypeOK, Ages, Elapse, Driving, PrepareExpires
  <2>3. CASE stage = "starting"
    BY <2>3 DEF Inv, Tick, BudgetTypeOK, Ages, Elapse, Driving, HardExpires
  <2>4. CASE stage = "reading"
    BY <2>4 DEF Inv, Tick, BudgetTypeOK, Ages, Elapse, Driving, HardExpires
  <2> QED
    BY <2>1, <2>2, <2>3, <2>4 DEF Inv, BudgetTypeOK
<1>3. ClientsClock'
  BY DEF Inv, Tick, BudgetTypeOK, ClientsClock, Elapse
<1>5. Unanswered'
  BY DEF Inv, Tick, Unanswered
<1>4. OrphansAreRetries'
  BY DEF Inv, Tick, OrphansAreRetries
<1> QED
  BY <1>1, <1>2, <1>3, <1>4, <1>5 DEF Inv

(* Giving up: with nothing left, a capture accepted in time is older than  *)
(* a preparation and an attempt, so it is in its second.                   *)
LEMMA GiveUpInv == Inv /\ GiveUp => Inv'
<1> SUFFICES ASSUME Inv, GiveUp PROVE Inv'
  OBVIOUS
<1> USE DurationsAssumption
<1>1. BudgetTypeOK'
  BY DEF Inv, GiveUp, workerVars, BudgetTypeOK
<1>2. Ages'
  BY DEF Inv, GiveUp, workerVars, Ages, Driving
<1>3. ClientsClock'
  BY DEF GiveUp, ClientsClock
<1>5. Unanswered'
  BY DEF Inv, GiveUp, workerVars, Unanswered
<1>4. OrphansAreRetries'
  <2>1. CASE client = "posting"
    BY <2>1 DEF Inv, GiveUp, workerVars, OrphansAreRetries
  <2>2. CASE client = "polling" /\ stage # "free" /\ accepted = "inTime"
    <3>1. CAPTURE_CLIENT_TIMEOUT <= age + ACCEPT_TIMEOUT
      BY <2>2 DEF Inv, GiveUp, ClientsClock, BudgetTypeOK
    <3>2. DESKTOP_PREPARE_TIMEOUT + CAPTURE_HARD_TIMEOUT < age
      BY <3>1, LadderAssumption DEF BudgetLadderIsSound, Inv, BudgetTypeOK
    <3>3. tries = 2
      BY <2>2, <3>2 DEF Inv, BudgetTypeOK, Ages, Driving
    <3> QED
      BY <3>3 DEF GiveUp, workerVars, OrphansAreRetries
  <2>3. CASE stage = "free" \/ accepted = "late"
    BY <2>3 DEF GiveUp, workerVars, OrphansAreRetries
  <2> QED
    BY <2>1, <2>2, <2>3 DEF Inv, BudgetTypeOK, GiveUp
<1> QED
  BY <1>1, <1>2, <1>3, <1>4, <1>5 DEF Inv

LEMMA NextInv == Inv /\ [BudgetNext]_budgetVars => Inv'
<1> SUFFICES ASSUME Inv, [BudgetNext]_budgetVars PROVE Inv'
  OBVIOUS
<1> USE DurationsAssumption DEF Inv
<1>1. CASE ClientPosts
  BY <1>1 DEF ClientPosts, ClientDeadline, workerVars, BudgetTypeOK, Ages, ClientsClock,
              Unanswered, OrphansAreRetries, Driving
<1>2. CASE ClientAccepted
  <2>1. BudgetTypeOK'
    BY <1>2 DEF ClientAccepted, BudgetTypeOK
  <2>2. Ages' /\ Unanswered' /\ OrphansAreRetries'
    BY <1>2 DEF ClientAccepted, BudgetTypeOK, Ages, Unanswered, OrphansAreRetries, Driving
  <2>3. ClientsClock'
    <3>1. age' = 0 /\ left' = left /\ left \in Nat
      BY <1>2 DEF ClientAccepted, BudgetTypeOK, Ages
    <3>2. accepted' = "inTime" =>
            CAPTURE_CLIENT_TIMEOUT <= left + ACCEPT_TIMEOUT
      BY <1>2, <3>1 DEF ClientAccepted, ClientDeadline
    <3> QED
      BY <3>1, <3>2 DEF ClientsClock
  <2> QED
    BY <2>1, <2>2, <2>3
<1>3. CASE ClientRefused
  BY <1>3 DEF ClientRefused, workerVars, BudgetTypeOK, Ages, ClientsClock,
              Unanswered, OrphansAreRetries, Driving
<1>4. CASE Collect
  <2>1. stage = "free"
    BY <1>4 DEF Collect, Unanswered
  <2> QED
    BY <1>4, <2>1 DEF Collect, workerVars, BudgetTypeOK, Ages, ClientsClock,
                      Unanswered, OrphansAreRetries, Driving
<1>5. CASE GiveUp
  BY <1>5, GiveUpInv
<1>6. CASE Prepared
  BY <1>6 DEF Prepared, BudgetTypeOK, Ages, ClientsClock,
              Unanswered, OrphansAreRetries, Driving
<1>7. CASE Up
  BY <1>7 DEF Up, BudgetTypeOK, Ages, ClientsClock,
              Unanswered, OrphansAreRetries, Driving
<1>8. CASE CaptureEnds
  BY <1>8 DEF CaptureEnds, AnswerAndRelease, BudgetTypeOK, Ages, ClientsClock,
              Unanswered, OrphansAreRetries, Driving
<1>9. CASE CaptureFails
  BY <1>9 DEF CaptureFails, AnswerAndRelease, BudgetTypeOK, Ages, ClientsClock,
              Unanswered, OrphansAreRetries, Driving
<1>10. CASE Recover
  BY <1>10 DEF Recover, BudgetTypeOK, Ages, ClientsClock,
              Unanswered, OrphansAreRetries, Driving
<1>11. CASE HardTimeout
  BY <1>11 DEF HardTimeout, AnswerAndRelease, BudgetTypeOK, Ages, ClientsClock,
               Unanswered, OrphansAreRetries, Driving
<1>12. CASE Tick
  BY <1>12, TickInv
<1>13. CASE UNCHANGED budgetVars
  BY <1>13 DEF budgetVars, workerVars, BudgetTypeOK, Ages, ClientsClock,
               Unanswered, OrphansAreRetries, Driving
<1> QED
  BY <1>1, <1>2, <1>3, <1>4, <1>5, <1>6, <1>7, <1>8, <1>9, <1>10, <1>11,
     <1>12, <1>13 DEF BudgetNext

LEMMA Inductive == BudgetSpec => []Inv
  BY InitInv, NextInv, PTL DEF BudgetSpec

(* Every reachable state is of the declared types: the worker retries at   *)
(* most once and the client's time does not run below nothing.             *)
THEOREM BudgetTypeCorrect == BudgetSpec => []BudgetTypeOK
<1>1. Inv => BudgetTypeOK
  BY DEF Inv
<1> QED
  BY <1>1, Inductive, PTL

(* A slot is held for no longer than a preparation and an attempt, or two  *)
(* (withHardTimeout, prepareDesktopBounded).                               *)
THEOREM SlotIsGivenBack == BudgetSpec => []SlotIsBounded
<1>1. Inv => SlotIsBounded
  <2> SUFFICES ASSUME Inv, stage # "free"
               PROVE  age <= DESKTOP_PREPARE_TIMEOUT
                               + tries * CAPTURE_HARD_TIMEOUT
    BY DEF SlotIsBounded
  <2> USE DurationsAssumption DEF Inv
  <2>1. tries = 1 \/ tries = 2
    BY DEF BudgetTypeOK
  <2>2. CASE tries = 1
    <3>1. age <= DESKTOP_PREPARE_TIMEOUT + CAPTURE_HARD_TIMEOUT
      BY <2>2 DEF BudgetTypeOK, Ages, Driving
    <3> QED
      BY <2>2, <3>1
  <2>3. CASE tries = 2
    <3>1. age <= DESKTOP_PREPARE_TIMEOUT + CAPTURE_HARD_TIMEOUT
                   + CAPTURE_HARD_TIMEOUT
      BY <2>3 DEF BudgetTypeOK, Ages, Driving
    <3>2. tries * CAPTURE_HARD_TIMEOUT
            = CAPTURE_HARD_TIMEOUT + CAPTURE_HARD_TIMEOUT
      BY <2>3
    <3> QED
      BY <3>1, <3>2 DEF BudgetTypeOK
  <2> QED
    BY <2>1, <2>2, <2>3
<1> QED
  BY <1>1, Inductive, PTL

(* With the client's deadline above a preparation, an attempt and a        *)
(* handshake, a client that got through at once outwaits every capture the *)
(* worker does not retry (CAPTURE_CLIENT_TIMEOUT_MS).                      *)
THEOREM ClientOutwaits == BudgetSpec => []OrphansAreRetries
<1>1. Inv => OrphansAreRetries
  BY DEF Inv
<1> QED
  BY <1>1, Inductive, PTL

(* With the budget and the slowest start below the hard timeout, the hard  *)
(* timeout abandons only what overran one of them (budgetLadderIsSound).   *)
THEOREM NoneIsCutShort == BudgetSpec => AbandonedForCause
<1>1. Inv /\ [BudgetNext]_budgetVars =>
        [(stage # "free" /\ stage' = "free" /\ answer' = "hardTimeout")
            => ~WithinRights]_budgetVars
  <2> SUFFICES ASSUME Inv, BudgetNext, stage # "free", stage' = "free",
                      answer' = "hardTimeout"
               PROVE  ~WithinRights
    OBVIOUS
  <2>1. HardTimeout
    BY NoAnswerAssumption
       DEF Inv, Unanswered, BudgetNext, ClientPosts, ClientAccepted, ClientRefused, Collect, GiveUp,
           Prepared, Up, CaptureEnds, CaptureFails, Recover, AnswerAndRelease,
           Tick, workerVars
  <2>2. /\ attemptAge = CAPTURE_HARD_TIMEOUT
        /\ attemptAge \in Nat /\ readAge \in Nat
    BY <2>1 DEF HardTimeout, HardExpires, Inv, BudgetTypeOK
  <2> QED
    BY <2>2, DurationsAssumption, LadderAssumption
       DEF WithinRights, BudgetLadderIsSound
<1> QED
  BY <1>1, Inductive, PTL DEF BudgetSpec, AbandonedForCause

-----------------------------------------------------------------------------
(* The client of a capture (CaptureClient), for any number of clients, ids *)
(* and failures.                                                           *)
UserOf(i) == history.user[i]
TryOf(i) == history.attempt[i]
BeganIn(i) == history.began[i]

(* Its capture began in the life the worker is in.                         *)
Began(i) == BeganIn(i) = history.life

(* The worker's answers are of the captures it began in this life.         *)
ServiceAgrees ==
  /\ \A i \in Ids : slot = i <=> result[i] = "running"
  /\ \A i \in Ids : result[i] # "absent" => Began(i)
  /\ \A i \in Ids : result[i] \in Answers => history.answer[i] = result[i]
  /\ \A i \in Ids : BeganIn(i) <= history.life
  /\ reading # None => slot = Other

Sent(i) == i \in posts \/ reading = i

(* Nothing will ever run under it, nor does.                               *)
Dead(i) == ~Sent(i) /\ result[i] # "running"

(* What was sent and answered has a sender.                                *)
Known ==
  /\ \A i \in Ids : UserOf(i) = None =>
       /\ ~Sent(i) /\ BeganIn(i) = -1
       /\ \A a \in {"202", "refused"} : <<i, a>> \notin replies
  /\ \A i \in Ids : <<i, "202">> \in replies => ~Sent(i) /\ BeganIn(i) # -1
  /\ reading \notin posts

ReplacedDead == \A i \in Ids : i \in Replaced => Dead(i)

AfterOf(i) == history.after[i]

(* What the worker has forgotten of this life was pushed out, by others if *)
(* the client still holds it.                                              *)
Remembered ==
  /\ \A i \in Ids : result[i] # "absent" => since[i] \subseteq AfterOf(i)
  /\ \A i \in Ids : Began(i) /\ result[i] = "absent" /\ i \notin Replaced => PushedOut(i)
  /\ \A i \in Ids : BeganIn(i) = -1 => AfterOf(i) = {}
  /\ \A i \in Ids : Sent(i) => BeganIn(i) = -1
  /\ \A i \in Ids : \A j \in AfterOf(i) : UserOf(j) # None
  /\ \A i \in Ids : i \notin Replaced => \A j \in AfterOf(i) : UserOf(j) # UserOf(i)

(* Of another life of the worker, or out of its memory.                    *)
Spent(i) == ~Began(i) \/ PushedOut(i)

(* A client that polls has sent what it polls for, and one that may try    *)
(* again, or that has its answer, has left nothing behind.                 *)
Follows(c) ==
  /\ id[c] # None => UserOf(id[c]) = c
  /\ phase[c] # "idle" => id[c] # None
  /\ verdict[c] # None => phase[c] = "idle" /\ id[c] # None
  /\ phase[c] \in {"reconciling", "polling"} => ~Sent(id[c])
  /\ phase[c] = "polling" => BeganIn(id[c]) # -1
  /\ phase[c] = "idle" /\ id[c] # None
       /\ verdict[c] \in {None, "evidence", "not-evidence", "failed"}
       => Dead(id[c])

Retries(c) == phase[c] = "idle" /\ verdict[c] = None

(* Of the ids of an attempt only the one its client holds may have begun   *)
(* in this life of the worker and be remembered, or may still begin.       *)
Attempts(c) ==
  /\ \A i \in Ids : UserOf(i) = c =>
       /\ TryOf(i) <= attempt[c]
       /\ Retries(c) => TryOf(i) < attempt[c]
       /\ i # id[c] /\ TryOf(i) = attempt[c] => Spent(i)
  /\ id[c] # None /\ ~Retries(c) => TryOf(id[c]) = attempt[c]

ClientInv ==
  /\ TypeOK
  /\ ServiceAgrees
  /\ Known
  /\ ReplacedDead
  /\ Remembered
  /\ OneCapturePerAttempt
  /\ VerdictIsTheAnswer
  /\ \A c \in Clients : Follows(c) /\ Attempts(c)
-----------------------------------------------------------------------------
Histories ==
  [life    : 0 .. MaxRestarts,
   user    : [Ids -> Clients \cup {None}],
   attempt : [Ids -> 0 .. CAPTURE_ATTEMPTS],
   began   : [Ids -> -1 .. MaxRestarts],
   after   : [Ids -> SUBSET Ids],
   answer  : [Ids -> Answers \cup {None}]]

LEMMA ClientTypes ==
  ASSUME TypeOK
  PROVE  /\ slot \in Ids \cup {Free, Other}
         /\ result \in [Ids -> {"absent", "running"} \cup Answers]
         /\ since \in [Ids -> SUBSET Ids]
         /\ reading \in Ids \cup {None}
         /\ posts \subseteq Ids
         /\ replies \subseteq Ids \X {"202", "refused"}
         /\ phase \in [Clients -> {"idle", "posting", "reconciling", "polling"}]
         /\ id \in [Clients -> Ids \cup {None}]
         /\ transportFailures \in [Clients -> 0 .. MAX_POLL_FAILURES - 1]
         /\ attempt \in [Clients -> 1 .. CAPTURE_ATTEMPTS]
         /\ verdict \in [Clients -> Verdicts \cup {None}]
         /\ history \in Histories
BY DEF TypeOK, Service!ServiceTypeOK, Phases, Histories

LEMMA ClientNames ==
  /\ None \notin Ids /\ None \notin Clients /\ None \notin Answers
  /\ Free \notin Ids /\ Other \notin Ids /\ Free # Other
  /\ OK \in Answers
  /\ "absent" \notin Answers /\ "running" \notin Answers
  /\ MAX_POLL_FAILURES \in Nat \ {0} /\ CAPTURE_ATTEMPTS \in Nat \ {0}
  /\ MaxRestarts \in Nat
  /\ None \notin Verdicts
BY LimitsAssumption, AnswersAssumption, NamesAssumption, VerdictsAssumption

LEMMA HistoryTypes ==
  ASSUME TypeOK
  PROVE  /\ history.life \in 0 .. MaxRestarts
         /\ \A i \in Ids : UserOf(i) \in Clients \cup {None}
         /\ \A i \in Ids : TryOf(i) \in 0 .. CAPTURE_ATTEMPTS
         /\ \A i \in Ids : BeganIn(i) \in -1 .. MaxRestarts
         /\ \A i \in Ids : AfterOf(i) \subseteq Ids
BY ClientTypes DEF Histories, UserOf, TryOf, BeganIn, AfterOf

(* Within an instance the prover takes a library's operator for another.   *)
LEMMA ServiceCounts == \A S : Service!Cardinality(S) = Cardinality(S)
BY Zenon DEF Service!Cardinality, Cardinality

OthersAfter(i) == {j \in AfterOf(i) : UserOf(j) # UserOf(i)}

(* What is pushed out stays so: answers are never taken back and captures  *)
(* that began after it never un-begin.                                     *)
LEMMA PushedOutStays ==
  ASSUME NEW i \in Ids, PushedOut(i), history'.answer[i] # None,
         OthersAfter(i) \subseteq OthersAfter(i)', AfterOf(i)' \subseteq Ids
  PROVE  PushedOut(i)'
<1>1. PushedOut(i) <=> history.answer[i] # None /\ Cardinality(OthersAfter(i)) >= RESULT_HISTORY
  BY DEF PushedOut, OthersAfter, AfterOf, UserOf
<1>2. PushedOut(i)' <=> /\ history'.answer[i] # None
                        /\ Cardinality(OthersAfter(i)') >= RESULT_HISTORY
  BY DEF PushedOut, OthersAfter, AfterOf, UserOf
<1>3. OthersAfter(i)' \subseteq Ids
  BY DEF OthersAfter
<1>4. IsFiniteSet(OthersAfter(i)')
  BY <1>3, NamesAssumption, FS_Subset
<1>5. /\ Cardinality(OthersAfter(i)) \in Nat /\ Cardinality(OthersAfter(i)') \in Nat
      /\ Cardinality(OthersAfter(i)) <= Cardinality(OthersAfter(i)')
  BY <1>4, FS_Subset, FS_CardinalityType
<1>6. QED
  BY <1>1, <1>2, <1>5, LimitsAssumption

(* A new id: who uses it, and in which attempt.                            *)
LEMMA PostFacts ==
  ASSUME TypeOK, NEW c \in Clients, NEW i \in Ids,
         Post(c, i)
  PROVE  /\ history' \in Histories
         /\ UserOf(i)' = c /\ TryOf(i)' = attempt[c]
         /\ \A j \in Ids : j # i => UserOf(j)' = UserOf(j) /\ TryOf(j)' = TryOf(j)
         /\ \A j \in Ids : BeganIn(j)' = BeganIn(j) /\ AfterOf(j)' = AfterOf(j)
         /\ history'.life = history.life /\ history'.answer = history.answer
<1> USE DEF Post, Histories, UserOf, TryOf, BeganIn, AfterOf
<1>1. history \in Histories /\ attempt[c] \in 0 .. CAPTURE_ATTEMPTS
  BY ClientTypes, ClientNames
<1>2. /\ history'.user = [history.user EXCEPT ![i] = c]
      /\ history'.attempt = [history.attempt EXCEPT ![i] = attempt[c]]
      /\ history'.began = history.began /\ history'.life = history.life
      /\ history'.answer = history.answer /\ history'.after = history.after
  BY <1>1
<1>3. history' \in Histories
  BY <1>1
<1>4. QED
  BY <1>1, <1>2, <1>3

LEMMA BodyFacts ==
  ASSUME TypeOK, NEW i \in Ids, BodyArrives(i)
  PROVE  /\ history' \in Histories
         /\ BeganIn(i)' = history.life
         /\ \A j \in Ids : j # i => BeganIn(j)' = BeganIn(j)
         /\ \A j \in Ids : UserOf(j)' = UserOf(j) /\ TryOf(j)' = TryOf(j)
         /\ \A j \in Ids : AfterOf(j)' = IF BeganIn(j) = -1 THEN AfterOf(j)
                                         ELSE AfterOf(j) \cup {i}
         /\ history'.life = history.life /\ history'.answer = history.answer
<1> USE DEF BodyArrives, Histories, UserOf, TryOf, BeganIn, AfterOf
<1>1. history \in Histories /\ history.life \in -1 .. MaxRestarts
  <2>1. history \in Histories
    BY ClientTypes
  <2>2. history.life \in 0 .. MaxRestarts /\ MaxRestarts \in Nat
    BY <2>1, ClientNames
  <2>3. QED
    BY <2>1, <2>2
<1>2. /\ history'.began = [history.began EXCEPT ![i] = history.life]
      /\ history'.after = [j \in Ids |-> IF history.began[j] = -1 THEN history.after[j]
                                         ELSE history.after[j] \cup {i}]
      /\ history'.user = history.user /\ history'.life = history.life
      /\ history'.answer = history.answer /\ history'.attempt = history.attempt
  BY <1>1
<1>3. /\ history'.began \in [Ids -> -1 .. MaxRestarts]
      /\ history'.after \in [Ids -> SUBSET Ids]
  BY <1>1, <1>2
<1>4. history' \in Histories
  BY <1>1, <1>3
<1>5. QED
  BY <1>1, <1>2, <1>4

(* Its capture runs; of the others the worker may forget an answer that    *)
(* enough captures began after.                                            *)
LEMMA BodyForgets ==
  ASSUME TypeOK, NEW i \in Ids, BodyArrives(i)
  PROVE  /\ result' \in [Ids -> {"absent", "running"} \cup Answers]
         /\ since' \in [Ids -> SUBSET Ids]
         /\ result'[i] = "running" /\ since'[i] = {}
         /\ \A j \in Ids \ {i} :
              \/ /\ result'[j] = result[j]
                 /\ result[j] # "absent" => since'[j] = since[j] \cup {i}
              \/ /\ result'[j] = "absent" /\ result[j] \in Answers
                 /\ Cardinality(since[j] \cup {i}) >= RESULT_HISTORY
<1> DEFINE kept == {j \in Ids \ {i} : result[j] # "absent"}
           old == {j \in kept : /\ result[j] \in Answers
                                /\ Service!Cardinality(since[j] \cup {i}) >= RESULT_HISTORY}
<1>1. PICK forgotten \in SUBSET old :
        /\ result' = [j \in Ids |-> IF j = i THEN "running"
                                    ELSE IF j \in forgotten THEN "absent" ELSE result[j]]
        /\ since' = [j \in Ids |-> IF j \in kept \ forgotten THEN since[j] \cup {i} ELSE {}]
  BY DEF BodyArrives, Service!Begun
<1>2. \A j \in forgotten : /\ j \in kept /\ result[j] \in Answers
                           /\ Cardinality(since[j] \cup {i}) >= RESULT_HISTORY
  BY ServiceCounts
<1> HIDE DEF old
<1>3. QED
  BY <1>1, <1>2, ClientTypes

LEMMA AnsweredFacts ==
  ASSUME TypeOK, NEW i \in Ids, NEW a \in Answers,
         CaptureAnswered(i, a)
  PROVE  /\ history' \in Histories
         /\ \A j \in Ids : /\ UserOf(j)' = UserOf(j) /\ TryOf(j)' = TryOf(j)
                           /\ BeganIn(j)' = BeganIn(j) /\ AfterOf(j)' = AfterOf(j)
         /\ history'.life = history.life
         /\ history'.answer[i] = a
         /\ \A j \in Ids : j # i => history'.answer[j] = history.answer[j]
         /\ result' = [result EXCEPT ![i] = a] /\ since' = since
<1> USE DEF CaptureAnswered, Service!Answered, Histories, UserOf, TryOf, BeganIn, AfterOf
<1>1. history \in Histories
  BY ClientTypes
<1>2. /\ history'.answer = [history.answer EXCEPT ![i] = a]
      /\ history'.user = history.user /\ history'.life = history.life
      /\ history'.began = history.began /\ history'.attempt = history.attempt
      /\ history'.after = history.after
  BY <1>1
<1>3. history' \in Histories
  BY <1>1
<1>4. QED
  BY <1>1, <1>2, <1>3

LEMMA RestartFacts ==
  ASSUME TypeOK, WorkerRestarts
  PROVE  /\ history' \in Histories
         /\ \A j \in Ids : /\ UserOf(j)' = UserOf(j) /\ TryOf(j)' = TryOf(j)
                           /\ BeganIn(j)' = BeganIn(j) /\ AfterOf(j)' = AfterOf(j)
         /\ history'.life = history.life + 1
         /\ history'.answer = history.answer
         /\ result' = [i \in Ids |-> "absent"] /\ since' = [i \in Ids |-> {}]
<1> USE DEF WorkerRestarts, Service!Restarted, Histories, UserOf, TryOf, BeganIn, AfterOf
<1>1. history \in Histories
  BY ClientTypes
<1>2. /\ history'.life = history.life + 1
      /\ history'.user = history.user /\ history'.answer = history.answer
      /\ history'.began = history.began /\ history'.attempt = history.attempt
      /\ history'.after = history.after
  BY <1>1
<1>3. history.life + 1 \in 0 .. MaxRestarts
  <2>1. history.life \in 0 .. MaxRestarts /\ history.life < MaxRestarts
    BY <1>1
  <2>2. QED
    BY <2>1, ClientNames
<1>4. history' \in Histories
  BY <1>1, <1>3
<1>5. QED
  BY <1>1, <1>2, <1>4
-----------------------------------------------------------------------------
(* Steps that touch neither what the worker remembers nor who uses which   *)
(* id: the network's, and the clients' but for a new id.                   *)
Quiet ==
  /\ UNCHANGED <<result, since, history, id>>
  /\ \A i \in Ids : slot' = i <=> slot = i
  /\ reading' # None => slot' = Other
  /\ \A i \in Ids : Sent(i)' => Sent(i)
  /\ reading' \notin posts'
  /\ \A i \in Ids : <<i, "202">> \in replies' => <<i, "202">> \in replies
  /\ \A i \in Ids, a \in {"202", "refused"} :
       <<i, a>> \in replies' => <<i, a>> \in replies \/ UserOf(i) # None

LEMMA QuietHistory ==
  ASSUME Quiet
  PROVE  /\ \A i \in Ids : UserOf(i)' = UserOf(i) /\ TryOf(i)' = TryOf(i)
         /\ \A i \in Ids : BeganIn(i)' = BeganIn(i) /\ (Began(i)' <=> Began(i))
         /\ \A i \in Ids : AfterOf(i)' = AfterOf(i)
         /\ \A i \in Ids : (PushedOut(i)' <=> PushedOut(i)) /\ (Spent(i)' <=> Spent(i))
<1>1. \A i \in Ids : PushedOut(i)' <=> PushedOut(i)
  BY DEF Quiet, PushedOut
<1>2. \A i \in Ids : Began(i)' <=> Began(i)
  BY DEF Quiet, Began, BeganIn
<1>3. \A i \in Ids : Spent(i)' <=> Spent(i)
  BY <1>1, <1>2 DEF Spent
<1>4. QED
  BY <1>1, <1>2, <1>3 DEF Quiet, UserOf, TryOf, BeganIn, AfterOf

LEMMA QuietService ==
  ASSUME Quiet, ServiceAgrees, Known, ReplacedDead, Remembered, OneCapturePerAttempt
  PROVE  /\ ServiceAgrees' /\ Known' /\ ReplacedDead'
         /\ Remembered' /\ OneCapturePerAttempt'
<1>1. ServiceAgrees'
  BY QuietHistory DEF Quiet, ServiceAgrees
<1>2. Known'
  <2>1. ASSUME NEW i \in Ids, UserOf(i)' = None
        PROVE  /\ ~Sent(i)' /\ BeganIn(i)' = -1
               /\ \A a \in {"202", "refused"} : <<i, a>> \notin replies'
    BY <2>1, QuietHistory DEF Quiet, Known
  <2>2. ASSUME NEW i \in Ids, <<i, "202">> \in replies'
        PROVE  ~Sent(i)' /\ BeganIn(i)' # -1
    BY <2>2, QuietHistory DEF Quiet, Known
  <2>3. QED
    BY <2>1, <2>2 DEF Known, Quiet
<1>3. ReplacedDead'
  <2>1. Replaced' = Replaced
    BY DEF Quiet, Replaced
  <2>2. QED
    BY <2>1 DEF Quiet, ReplacedDead, Dead
<1>4. OneCapturePerAttempt'
  BY QuietHistory DEF Quiet, OneCapturePerAttempt
<1>5. Remembered'
  <2>1. Replaced' = Replaced
    BY DEF Quiet, Replaced
  <2>2. result' = result /\ since' = since /\ \A i \in Ids : Sent(i)' => Sent(i)
    BY DEF Quiet
  <2>3. \A i \in Ids : Began(i)' /\ result'[i] = "absent" /\ i \notin Replaced'
                        => PushedOut(i)'
    BY <2>1, <2>2, QuietHistory DEF Remembered
  <2>4. /\ \A i \in Ids : result'[i] # "absent" => since'[i] \subseteq AfterOf(i)'
        /\ \A i \in Ids : BeganIn(i)' = -1 => AfterOf(i)' = {}
        /\ \A i \in Ids : Sent(i)' => BeganIn(i)' = -1
    BY <2>2, QuietHistory DEF Remembered
  <2>5. /\ \A i \in Ids : \A j \in AfterOf(i)' : UserOf(j)' # None
        /\ \A i \in Ids : i \notin Replaced' => \A j \in AfterOf(i)' : UserOf(j)' # UserOf(i)'
    <3>1. \A j : UserOf(j)' = UserOf(j)
      BY DEF Quiet, UserOf
    <3>2. QED
      BY <2>1, <3>1, QuietHistory DEF Remembered
  <2>6. QED
    BY <2>3, <2>4, <2>5 DEF Remembered
<1>6. QED
  BY <1>1, <1>2, <1>3, <1>4, <1>5

(* They leave every client alone that does not take them.                  *)
LEMMA QuietOthers ==
  ASSUME TypeOK, Quiet, NEW q \in Clients,
         Follows(q), Attempts(q),
         phase'[q] = phase[q], verdict'[q] = verdict[q], attempt'[q] = attempt[q]
  PROVE  Follows(q)' /\ Attempts(q)'
<1>1. id' = id /\ id[q] \in Ids \cup {None}
  BY ClientTypes DEF Quiet
<1>2. \A i \in Ids : (Sent(i)' => Sent(i)) /\ (Dead(i) => Dead(i)')
  BY DEF Quiet, Dead
<1>3. phase[q] # "idle" => id[q] \in Ids
  BY <1>1 DEF Follows
<1>4. id[q] # None => UserOf(id[q])' = q
  BY <1>1, QuietHistory DEF Follows
<1>5. phase[q] \in {"reconciling", "polling"} => ~Sent(id[q])'
  BY <1>1, <1>2, <1>3 DEF Follows, Sent
<1>6. phase[q] = "polling" => BeganIn(id[q])' # -1
  BY <1>1, <1>3, QuietHistory DEF Follows
<1>7. Follows(q)'
  <2>1. phase[q] = "idle" /\ id[q] # None
          /\ verdict[q] \in {None, "evidence", "not-evidence", "failed"} => Dead(id[q])'
    <3>1. ASSUME phase[q] = "idle", id[q] # None,
                 verdict[q] \in {None, "evidence", "not-evidence", "failed"}
          PROVE  Dead(id[q])'
      <4>1. Dead(id[q]) /\ id[q] \in Ids
        BY <1>1, <3>1 DEF Follows
      <4>2. Dead(id[q]) => ~Sent(id[q]) /\ result[id[q]] # "running"
        BY DEF Dead
      <4>3. ~Sent(id[q])' /\ result'[id'[q]] # "running"
        BY <1>1, <1>2, <4>1, <4>2 DEF Quiet, Sent
      <4>4. QED
        BY <4>3 DEF Dead
    <3>2. QED
      BY <3>1
  <2>2. QED
    BY <1>1, <1>4, <1>5, <1>6, <2>1 DEF Follows, Sent, UserOf, BeganIn, Dead
<1>8. id[q] # None => TryOf(id[q])' = TryOf(id[q])
  BY <1>1, QuietHistory
<1>9. Attempts(q)'
  <2>1. Retries(q)' <=> Retries(q)
    BY DEF Retries
  <2>2. id[q] # None /\ ~Retries(q) => TryOf(id[q])' = attempt[q]
    BY <1>8 DEF Attempts
  <2>3. ASSUME NEW i \in Ids, UserOf(i)' = q
        PROVE  /\ TryOf(i)' <= attempt'[q]
               /\ Retries(q)' => TryOf(i)' < attempt'[q]
               /\ i # id'[q] /\ TryOf(i)' = attempt'[q] => Spent(i)'
    BY <1>1, <2>1, <2>3, QuietHistory DEF Attempts
  <2>4. QED
    BY <1>1, <2>1, <2>2, <2>3 DEF Attempts, TryOf
<1>10. QED
  BY <1>7, <1>9

(* The verdicts that leave a capture behind, if there is one.              *)
GivenUp == {"refused", "unreachable", "deadline"}

LEMMA ConcludesFacts ==
  ASSUME TypeOK, NEW c \in Clients, NEW v \in Verdicts,
         Concludes(c, v)
  PROVE  /\ phase' = [phase EXCEPT ![c] = "idle"]
         /\ phase'[c] = "idle"
         /\ \/ /\ v \in {"not-evidence", "lost"}
               /\ attempt'[c] = attempt[c] + 1 /\ verdict' = verdict
            \/ attempt' = attempt /\ verdict'[c] = v
         /\ \A q \in Clients \ {c} :
              phase'[q] = phase[q] /\ attempt'[q] = attempt[q] /\ verdict'[q] = verdict[q]
         /\ attempt' \in [Clients -> 1 .. CAPTURE_ATTEMPTS]
         /\ verdict' \in [Clients -> Verdicts \cup {None}]
         /\ UNCHANGED <<id, transportFailures, history>>
<1> USE ClientTypes DEF Concludes, Retryable
<1>1. CASE /\ v \in {"not-evidence", "lost"} /\ attempt[c] < CAPTURE_ATTEMPTS
           /\ attempt' = [attempt EXCEPT ![c] = @ + 1] /\ verdict' = verdict
  <2>1. attempt[c] + 1 \in 1 .. CAPTURE_ATTEMPTS
    BY <1>1, ClientNames
  <2>2. QED
    BY <1>1, <2>1
<1>2. CASE verdict' = [verdict EXCEPT ![c] = v] /\ attempt' = attempt
  BY <1>2
<1>3. QED
  BY <1>1, <1>2

LEMMA VerdictKept ==
  ASSUME TypeOK, Quiet, NEW c \in Clients,
         verdict'[c] \in {None, verdict[c]} \cup GivenUp \cup {"lost"},
         VerdictIsTheAnswer
  PROVE  /\ verdict'[c] \in {"evidence", "not-evidence"} => history'.answer[id'[c]] = OK
         /\ verdict'[c] = "failed" => history'.answer[id'[c]] \in Answers \ {OK}
<1>1. id' = id /\ history' = history
  BY DEF Quiet
<1>2. verdict'[c] = verdict[c] \/ verdict'[c] \notin {"evidence", "not-evidence", "failed"}
  BY ClientNames DEF GivenUp, Verdicts
<1>3. QED
  BY <1>1, <1>2 DEF VerdictIsTheAnswer

(* An attempt that ends leaves nothing behind, or is the last.             *)
LEMMA ConcludesKeeps ==
  ASSUME ClientInv, Quiet, NEW c \in Clients, NEW v \in Verdicts,
         phase[c] # "idle", Concludes(c, v),
         v \notin GivenUp => Dead(id[c]),
         v \in {"evidence", "not-evidence"} => history.answer[id[c]] = OK,
         v = "failed" => history.answer[id[c]] \in Answers \ {OK}
  PROVE  /\ \A q \in Clients : Follows(q)' /\ Attempts(q)'
         /\ VerdictIsTheAnswer'
<1>1. TypeOK /\ Follows(c) /\ Attempts(c) /\ VerdictIsTheAnswer
  BY DEF ClientInv
<1>2. /\ phase'[c] = "idle" /\ id[c] # None /\ id[c] \in Ids /\ id' = id /\ UserOf(id[c]) = c
      /\ verdict[c] = None /\ attempt[c] \in Nat
  BY <1>1, ConcludesFacts, ClientTypes DEF Follows
<1>3. \/ /\ v \in {"not-evidence", "lost"} /\ attempt'[c] = attempt[c] + 1 /\ verdict'[c] = None
      \/ attempt'[c] = attempt[c] /\ verdict'[c] = v
  BY <1>1, <1>2, ConcludesFacts
<1>4. UserOf(id[c])' = c /\ TryOf(id[c])' = TryOf(id[c]) /\ TryOf(id[c]) = attempt[c]
  BY <1>1, <1>2, QuietHistory DEF Attempts, Retries
<1>5. Dead(id[c]) => Dead(id[c])'
  BY <1>2 DEF Quiet, Dead, Sent
<1>6. Follows(c)'
  <2>1. verdict'[c] \in {None, "evidence", "not-evidence", "failed"} => v \notin GivenUp
    <3>1. v # None
      BY ClientNames
    <3>2. QED
      BY <1>3, <3>1 DEF GivenUp
  <2>2. QED
    BY <1>2, <1>4, <1>5, <2>1 DEF Follows
<1>7. Attempts(c)'
  <2>1. ASSUME NEW i \in Ids, UserOf(i)' = c
        PROVE  /\ TryOf(i)' <= attempt'[c]
               /\ Retries(c)' => TryOf(i)' < attempt'[c]
               /\ i # id'[c] /\ TryOf(i)' = attempt'[c] => Spent(i)'
    <3>1. UserOf(i) = c /\ TryOf(i)' = TryOf(i) /\ (Spent(i)' <=> Spent(i))
      BY <2>1, QuietHistory
    <3>2. TryOf(i) <= attempt[c] /\ (i # id[c] /\ TryOf(i) = attempt[c] => Spent(i))
      BY <1>1, <3>1 DEF Attempts
    <3>3. TryOf(i) \in Nat
      BY <1>1, HistoryTypes, ClientNames
    <3>4. CASE attempt'[c] = attempt[c] + 1
      BY <1>2, <3>1, <3>2, <3>3, <3>4
    <3>5. CASE attempt'[c] = attempt[c] /\ verdict'[c] = v
      <4>1. v # None
        BY ClientNames
      <4>2. QED
        BY <1>2, <3>1, <3>2, <3>5, <4>1 DEF Retries
    <3>6. QED
      BY <1>3, <3>4, <3>5
  <2>2. id'[c] # None /\ ~Retries(c)' => TryOf(id[c])' = attempt'[c]
    BY <1>2, <1>3, <1>4 DEF Retries
  <2>3. QED
    BY <1>2, <2>1, <2>2 DEF Attempts
<1>8. ASSUME NEW q \in Clients
      PROVE  /\ Follows(q)' /\ Attempts(q)'
             /\ verdict'[q] \in {"evidence", "not-evidence"} => history'.answer[id'[q]] = OK
             /\ verdict'[q] = "failed" => history'.answer[id'[q]] \in Answers \ {OK}
  <2>1. CASE q = c
    <3>1. verdict'[c] = v \/ verdict'[c] = None
      BY <1>3
    <3>2. history' = history
      BY DEF Quiet
    <3>3. CASE verdict'[c] = v
      BY <1>2, <1>6, <1>7, <2>1, <3>2, <3>3
    <3>4. CASE verdict'[c] = None
      BY <1>1, <1>6, <1>7, <2>1, <3>4, VerdictKept
    <3>5. QED
      BY <3>1, <3>3, <3>4
  <2>2. CASE q # c
    <3>1. phase'[q] = phase[q] /\ verdict'[q] = verdict[q] /\ attempt'[q] = attempt[q]
      BY <1>1, <2>2, ConcludesFacts
    <3>2. Follows(q) /\ Attempts(q)
      BY DEF ClientInv
    <3>3. QED
      BY <1>1, <3>1, <3>2, QuietOthers, VerdictKept
  <2>3. QED
    BY <2>1, <2>2
<1>9. QED
  BY <1>8 DEF VerdictIsTheAnswer

(* A client that goes on to ask the worker is not waiting to be read.      *)
LEMMA ProceedsKeeps ==
  ASSUME ClientInv, Quiet, NEW c \in Clients,
         NEW place \in {"reconciling", "polling"},
         phase' = [phase EXCEPT ![c] = place], UNCHANGED <<attempt, verdict>>,
         phase[c] # "idle", ~Sent(id[c])', place = "polling" => BeganIn(id[c]) # -1
  PROVE  /\ \A q \in Clients : Follows(q)' /\ Attempts(q)'
         /\ VerdictIsTheAnswer'
<1>1. TypeOK /\ Follows(c) /\ Attempts(c) /\ VerdictIsTheAnswer
  BY DEF ClientInv
<1>2. /\ phase'[c] = place /\ id[c] # None /\ id[c] \in Ids /\ id' = id /\ UserOf(id[c]) = c
      /\ verdict[c] = None
  BY <1>1, ClientTypes DEF Follows, Quiet
<1>3. /\ UserOf(id[c])' = c /\ TryOf(id[c])' = attempt[c]
      /\ BeganIn(id[c])' = BeganIn(id[c])
  BY <1>1, <1>2, QuietHistory DEF Attempts, Retries
<1>4. Follows(c)'
  BY <1>2, <1>3 DEF Follows, Sent
<1>5. Attempts(c)'
  <2>1. ASSUME NEW i \in Ids, UserOf(i)' = c
        PROVE  /\ TryOf(i)' <= attempt'[c]
               /\ i # id'[c] /\ TryOf(i)' = attempt'[c] => Spent(i)'
    BY <1>1, <1>2, <2>1, QuietHistory DEF Attempts
  <2>2. QED
    BY <1>2, <1>3, <2>1 DEF Attempts, Retries
<1>6. ASSUME NEW q \in Clients
      PROVE  Follows(q)' /\ Attempts(q)'
  <2>1. CASE q # c
    BY <1>1, <2>1, QuietOthers, ClientTypes DEF ClientInv
  <2>2. QED
    BY <1>4, <1>5, <2>1
<1>7. VerdictIsTheAnswer'
  BY <1>1 DEF Quiet, VerdictIsTheAnswer
<1>8. QED
  BY <1>6, <1>7
-----------------------------------------------------------------------------
LEMMA StillQuiet ==
  ASSUME ServiceAgrees, Known, UNCHANGED <<slot, result, since, reading, posts, history, id>>,
         replies' \subseteq replies
  PROVE  Quiet
<1>1. \A i \in Ids : Sent(i)' <=> Sent(i)
  BY DEF Sent
<1>2. QED
  BY <1>1 DEF Quiet, ServiceAgrees, Known

LEMMA NetworkQuiet ==
  ASSUME ClientInv, NEW i \in Ids,
         PostArrives(i) \/ PostLost(i) \/ BodyRejected(i)
  PROVE  /\ Quiet /\ TypeOK'
         /\ UNCHANGED <<phase, attempt, verdict>>
<1> USE ClientTypes, ClientNames DEF ClientInv
<1>1. /\ UNCHANGED <<result, since, id, transportFailures, history, phase, attempt, verdict>>
      /\ posts' \subseteq posts
  BY DEF PostArrives, PostLost, BodyRejected, worker,
         Service!Claimed, Service!Released
<1>2. replies' \subseteq replies \cup {<<i, "refused">>}
  BY DEF PostArrives, PostLost, BodyRejected
<1>3. \/ UNCHANGED <<slot, reading>>
      \/ /\ slot = Free /\ slot' = Other /\ i \in posts /\ posts' = posts \ {i} /\ reading' = i
      \/ slot = Other /\ slot' = Free /\ reading' = None /\ posts' = posts
  BY DEF PostArrives, PostLost, BodyRejected, worker,
         Service!Claimed, Service!Released
<1>4. i \in posts \/ reading = i
  BY DEF PostArrives, PostLost, BodyRejected
<1>5. \A j \in Ids : Sent(j)' => Sent(j)
  BY <1>1, <1>3 DEF Sent
<1>6. reading' # None => slot' = Other
  BY <1>3 DEF ServiceAgrees
<1>7. reading' \notin posts'
  BY <1>1, <1>3 DEF Known
<1>8. UserOf(i) # None
  BY <1>4 DEF Known, Sent
<1>9. Quiet
  <2>1. \A j \in Ids, a \in {"202", "refused"} :
          <<j, a>> \in replies' => <<j, a>> \in replies \/ UserOf(j) # None
    BY <1>2, <1>8
  <2>2. \A j \in Ids : <<j, "202">> \in replies' => <<j, "202">> \in replies
    BY <1>2
  <2>3. \A j \in Ids : slot' = j <=> slot = j
    BY <1>3
  <2>4. QED
    BY <1>1, <1>5, <1>6, <1>7, <2>1, <2>2, <2>3 DEF Quiet
<1>10. TypeOK'
  <2>1. replies' \subseteq Ids \X {"202", "refused"} /\ posts' \subseteq Ids
    BY <1>1, <1>2
  <2>2. slot' \in Ids \cup {Free, Other} /\ reading' \in Ids \cup {None}
    BY <1>3
  <2>3. QED
    BY <1>1, <2>1, <2>2 DEF TypeOK, Service!ServiceTypeOK
<1>11. QED
  BY <1>1, <1>9, <1>10

LEMMA HangsUpQuiet ==
  ASSUME ClientInv, NEW c \in Clients, HangsUp(c),
         UNCHANGED <<id, history>>
  PROVE  /\ Quiet /\ ~Sent(id[c])'
         /\ slot' \in Ids \cup {Free, Other} /\ reading' \in Ids \cup {None}
         /\ posts' \subseteq posts /\ replies' \subseteq replies
<1> USE ClientTypes, ClientNames DEF ClientInv
<1>1. id[c] \in Ids
  BY DEF HangsUp, Follows
<1>2. /\ replies' \subseteq replies /\ posts' = posts \ {id[c]}
      /\ result' = result /\ since' = since
  BY DEF HangsUp, worker, Service!Released
<1>3. \/ reading = id[c] /\ slot = Other /\ slot' = Free /\ reading' = None
      \/ reading # id[c] /\ UNCHANGED <<slot, reading>>
  BY DEF HangsUp, worker, Service!Released
<1>4. \A j \in Ids : Sent(j)' => Sent(j)
  BY <1>2, <1>3 DEF Sent
<1>5. reading' \notin posts' /\ (reading' # None => slot' = Other)
  BY <1>2, <1>3 DEF Known, ServiceAgrees
<1>6. \A j \in Ids : slot' = j <=> slot = j
  BY <1>3
<1>7. Quiet
  BY <1>2, <1>4, <1>5, <1>6 DEF Quiet
<1>8. ~Sent(id[c])'
  BY <1>1, <1>2, <1>3 DEF Sent
<1>9. QED
  BY <1>2, <1>3, <1>7, <1>8

(* A quiet step that every client survives keeps the invariant.            *)
LEMMA QuietKeeps ==
  ASSUME ClientInv, Quiet, TypeOK',
         \A q \in Clients : Follows(q)' /\ Attempts(q)', VerdictIsTheAnswer'
  PROVE  ClientInv'
BY QuietService DEF ClientInv

LEMMA NetworkKeeps ==
  ASSUME ClientInv, NEW i \in Ids,
         PostArrives(i) \/ PostLost(i) \/ BodyRejected(i)
  PROVE  ClientInv'
<1>1. Quiet /\ TypeOK' /\ UNCHANGED <<phase, attempt, verdict>>
  BY NetworkQuiet
<1>2. \A q \in Clients : Follows(q)' /\ Attempts(q)'
  BY <1>1, QuietOthers DEF ClientInv
<1>3. VerdictIsTheAnswer'
  BY <1>1 DEF ClientInv, Quiet, VerdictIsTheAnswer
<1>4. QED
  BY <1>1, <1>2, <1>3, QuietKeeps

LEMMA ConcludingKeeps ==
  ASSUME ClientInv, NEW c \in Clients,
         \/ Refused(c) \/ PostThrows(c) \/ Collects(c)
         \/ Lost(c) \/ DeadlinePasses(c)
         \/ PollFails(c) /\ phase' # phase
  PROVE  ClientInv'
<1> USE ClientTypes, ClientNames
<1>1. phase[c] # "idle" /\ id[c] \in Ids
  BY DEF ClientInv, Follows, Refused, PostThrows, Collects,
         Lost, DeadlinePasses, PollFails, HangsUp
<1>2. ASSUME NEW v \in Verdicts, Concludes(c, v), Quiet,
             slot' \in Ids \cup {Free, Other}, reading' \in Ids \cup {None},
             posts' \subseteq posts, replies' \subseteq replies,
             v \notin GivenUp => Dead(id[c]),
             v \in {"evidence", "not-evidence"} => history.answer[id[c]] = OK,
             v = "failed" => history.answer[id[c]] \in Answers \ {OK}
      PROVE  ClientInv'
  <2>1. TypeOK
    BY DEF ClientInv
  <2>2. /\ attempt' \in [Clients -> 1 .. CAPTURE_ATTEMPTS]
        /\ verdict' \in [Clients -> Verdicts \cup {None}]
        /\ phase' = [phase EXCEPT ![c] = "idle"]
        /\ UNCHANGED <<id, transportFailures, history>>
    BY <1>2, <2>1, ConcludesFacts
  <2>3. result' = result /\ since' = since
    BY <1>2 DEF Quiet
  <2>4. phase' \in [Clients -> Phases]
    BY <2>1, <2>2 DEF Phases
  <2>5. posts' \subseteq Ids /\ replies' \subseteq Ids \X {"202", "refused"}
    BY <1>2, <2>1
  <2>6. TypeOK'
    BY <1>2, <2>1, <2>2, <2>3, <2>4, <2>5 DEF TypeOK, Service!ServiceTypeOK
  <2>7. QED
    BY <1>1, <1>2, <2>6, ConcludesKeeps, QuietKeeps
<1>3. ASSUME NEW v \in Verdicts, Concludes(c, v),
             UNCHANGED <<slot, result, since, reading, posts>>, replies' \subseteq replies,
             v \notin GivenUp => Dead(id[c]),
             v \in {"evidence", "not-evidence"} => history.answer[id[c]] = OK,
             v = "failed" => history.answer[id[c]] \in Answers \ {OK}
      PROVE  ClientInv'
  <2>1. Quiet
    BY <1>3, StillQuiet DEF ClientInv, Concludes
  <2>2. slot' \in Ids \cup {Free, Other} /\ reading' \in Ids \cup {None} /\ posts' \subseteq posts
    BY <1>3 DEF ClientInv
  <2>3. QED
    BY <1>2, <1>3, <2>1, <2>2
<1>4. GivenUp \subseteq Verdicts /\ \A v \in GivenUp : v \notin {"evidence", "not-evidence", "failed"}
  BY DEF GivenUp, Verdicts
<1>5. CASE Refused(c)
  BY <1>3, <1>4, <1>5 DEF Refused, worker, GivenUp
<1>6. CASE PostThrows(c)
  <2>1. Concludes(c, "unreachable") /\ HangsUp(c) /\ UNCHANGED <<id, history>>
    BY <1>6 DEF PostThrows, Concludes
  <2>2. "unreachable" \in GivenUp
    BY DEF GivenUp
  <2>3. QED
    BY <1>2, <1>4, <2>1, <2>2, HangsUpQuiet
<1>7. CASE Collects(c)
  <2>1. PICK v \in Judged(result[id[c]]) : Concludes(c, v)
    BY <1>7 DEF Collects
  <2>2. result[id[c]] \in Answers /\ phase[c] \in {"reconciling", "polling"}
    BY <1>7 DEF Collects
  <2>3. history.answer[id[c]] = result[id[c]] /\ Dead(id[c])
    BY <1>1, <2>2 DEF ClientInv, ServiceAgrees, Follows, Dead
  <2>4. v \in Verdicts
    BY <2>1 DEF Judged, Verdicts
  <2>5. v \in {"evidence", "not-evidence"} => result[id[c]] = OK
    BY <2>1 DEF Judged
  <2>6. v = "failed" => result[id[c]] # OK
    BY <2>1 DEF Judged
  <2>7. UNCHANGED <<slot, result, since, reading, posts, replies>>
    BY <1>7 DEF Collects, worker
  <2>8. QED
    BY <1>3, <2>1, <2>2, <2>3, <2>4, <2>5, <2>6, <2>7
<1>8. CASE Lost(c)
  <2>1. /\ Concludes(c, "lost") /\ result[id[c]] = "absent" /\ phase[c] = "polling"
        /\ UNCHANGED <<slot, result, since, reading, posts, replies>>
    BY <1>8 DEF Lost, worker
  <2>2. Dead(id[c]) /\ "lost" \in Verdicts
    BY <2>1 DEF ClientInv, Follows, Dead, Verdicts
  <2>3. QED
    BY <1>3, <2>1, <2>2
<1>9. CASE DeadlinePasses(c)
  BY <1>3, <1>4, <1>9 DEF DeadlinePasses, worker, GivenUp
<1>10. CASE PollFails(c) /\ phase' # phase
  <2>1. Concludes(c, "unreachable") /\ UNCHANGED <<slot, result, since, reading, posts, replies>>
    BY <1>10 DEF PollFails, worker
  <2>2. QED
    BY <1>3, <1>4, <2>1 DEF GivenUp
<1>11. QED
  BY <1>5, <1>6, <1>7, <1>8, <1>9, <1>10

LEMMA ProceedingKeeps ==
  ASSUME ClientInv, NEW c \in Clients,
         \/ Accepted(c) \/ PostFails(c) \/ StillRunning(c)
         \/ PollFails(c) /\ phase' = phase
  PROVE  ClientInv'
<1> USE ClientTypes, ClientNames
<1>0. TypeOK
  BY DEF ClientInv
<1>1. phase[c] # "idle" /\ id[c] \in Ids
  BY DEF ClientInv, Follows, Accepted, PostFails, StillRunning,
         PollFails, HangsUp
<1>10. PollFails(c) /\ phase' = phase => UNCHANGED <<attempt, verdict, id, history, result, since>>
  <2> SUFFICES ASSUME PollFails(c), phase' = phase
               PROVE  UNCHANGED <<attempt, verdict, id, history, result, since>>
    OBVIOUS
  <2>1. phase'[c] # "idle"
    BY <1>1
  <2>2. ~Concludes(c, "unreachable")
    BY <1>0, <2>1 DEF Concludes
  <2>3. QED
    BY <2>2 DEF PollFails, worker
<1>2. UNCHANGED <<attempt, verdict, id, history, result, since>>
  BY <1>10 DEF Accepted, PostFails, StillRunning,
         HangsUp, worker, Service!Released
<1>3. transportFailures' \in [Clients -> 0 .. MAX_POLL_FAILURES - 1]
  <2>1. CASE transportFailures' = transportFailures
    BY <1>0, <2>1
  <2>2. CASE transportFailures' = [transportFailures EXCEPT ![c] = 0]
    BY <1>0, <2>2
  <2>3. CASE /\ transportFailures[c] + 1 < MAX_POLL_FAILURES
             /\ transportFailures' = [transportFailures EXCEPT ![c] = @ + 1]
    <3>1. transportFailures[c] \in Nat
      BY <1>0
    <3>2. transportFailures[c] + 1 \in 0 .. MAX_POLL_FAILURES - 1
      BY <2>3, <3>1
    <3>3. QED
      BY <1>0, <2>3, <3>2
  <2>4. QED
    BY <2>1, <2>2, <2>3 DEF Accepted, PostFails, StillRunning,
         PollFails, Concludes
<1>4. CASE PollFails(c) /\ phase' = phase
  <2>1. UNCHANGED <<slot, result, since, reading, posts, replies>>
    BY <1>4 DEF PollFails, worker
  <2>2. Quiet
    BY <1>2, <2>1, StillQuiet DEF ClientInv
  <2>3. TypeOK'
    BY <1>2, <1>3, <1>4, <2>1 DEF ClientInv, TypeOK, Service!ServiceTypeOK
  <2>4. \A q \in Clients : Follows(q)' /\ Attempts(q)'
    BY <1>2, <1>4, <2>2, QuietOthers DEF ClientInv
  <2>5. VerdictIsTheAnswer'
    BY <1>2 DEF ClientInv, VerdictIsTheAnswer
  <2>6. QED
    BY <2>2, <2>3, <2>4, <2>5, QuietKeeps
<1>5. ASSUME NEW place \in {"reconciling", "polling"}, phase' = [phase EXCEPT ![c] = place], Quiet,
             slot' \in Ids \cup {Free, Other}, reading' \in Ids \cup {None},
             posts' \subseteq posts, replies' \subseteq replies,
             ~Sent(id[c])', place = "polling" => BeganIn(id[c]) # -1
      PROVE  ClientInv'
  <2>1. phase' \in [Clients -> Phases]
    BY <1>0, <1>5 DEF Phases
  <2>2. posts' \subseteq Ids /\ replies' \subseteq Ids \X {"202", "refused"}
    BY <1>0, <1>5
  <2>3. TypeOK'
    BY <1>0, <1>2, <1>3, <1>5, <2>1, <2>2 DEF TypeOK, Service!ServiceTypeOK
  <2>4. QED
    BY <1>1, <1>2, <1>5, <2>3, ProceedsKeeps, QuietKeeps
<1>6. CASE Accepted(c)
  <2>1. /\ <<id[c], "202">> \in replies /\ replies' \subseteq replies
        /\ phase' = [phase EXCEPT ![c] = "polling"]
        /\ UNCHANGED <<slot, result, since, reading, posts>>
    BY <1>6 DEF Accepted, worker
  <2>2. Quiet
    BY <1>2, <2>1, StillQuiet DEF ClientInv
  <2>3. ~Sent(id[c]) /\ BeganIn(id[c]) # -1
    BY <1>1, <2>1 DEF ClientInv, Known
  <2>4. ~Sent(id[c])'
    BY <1>2, <2>1, <2>3 DEF Sent
  <2>5. QED
    BY <1>0, <1>5, <2>1, <2>2, <2>3, <2>4
<1>7. CASE PostFails(c)
  <2>1. HangsUp(c) /\ phase' = [phase EXCEPT ![c] = "reconciling"]
    BY <1>7 DEF PostFails
  <2>2. QED
    BY <1>2, <1>5, <2>1, HangsUpQuiet
<1>8. CASE StillRunning(c)
  <2>1. /\ phase[c] \in {"reconciling", "polling"} /\ result[id[c]] = "running"
        /\ phase' = [phase EXCEPT ![c] = "polling"]
        /\ UNCHANGED <<slot, result, since, reading, posts, replies>>
    BY <1>8 DEF StillRunning, worker
  <2>2. Quiet
    BY <1>2, <2>1, StillQuiet DEF ClientInv
  <2>3. ~Sent(id[c])
    BY <2>1 DEF ClientInv, Follows
  <2>4. BeganIn(id[c]) # -1
    <3>1. BeganIn(id[c]) = history.life
      BY <1>1, <2>1 DEF ClientInv, ServiceAgrees, Began
    <3>2. history.life \in 0 .. MaxRestarts
      BY <1>0, HistoryTypes
    <3>3. QED
      BY <3>1, <3>2
  <2>5. ~Sent(id[c])'
    BY <1>2, <2>1, <2>3 DEF Sent
  <2>6. QED
    BY <1>0, <1>5, <2>1, <2>2, <2>4, <2>5
<1>9. QED
  BY <1>4, <1>6, <1>7, <1>8

(* A new id: the old one is dead, and has not begun if it is of the same   *)
(* attempt.                                                                *)
LEMMA PostKeeps ==
  ASSUME ClientInv, NEW c \in Clients, NEW i \in Ids,
         Dispatch(c, i) \/ Reissue(c, i)
  PROVE  ClientInv'
<1> USE ClientTypes, ClientNames
<1>1. TypeOK /\ ServiceAgrees /\ Known /\ ReplacedDead /\ Remembered
  BY DEF ClientInv
<1>2. /\ Post(c, i) /\ UserOf(i) = None
      /\ UNCHANGED <<slot, result, since, reading, replies, attempt, verdict>>
  BY DEF Dispatch, Reissue, worker, Post, Fresh, UserOf
<1>3. /\ id' = [id EXCEPT ![c] = i] /\ phase' = [phase EXCEPT ![c] = "posting"]
      /\ posts' = posts \cup {i}
      /\ transportFailures' = [transportFailures EXCEPT ![c] = 0]
  BY <1>2 DEF Post
<1>4. /\ history' \in Histories
      /\ UserOf(i)' = c /\ TryOf(i)' = attempt[c]
      /\ \A j \in Ids : j # i => UserOf(j)' = UserOf(j) /\ TryOf(j)' = TryOf(j)
      /\ \A j \in Ids : BeganIn(j)' = BeganIn(j) /\ AfterOf(j)' = AfterOf(j)
      /\ history'.life = history.life /\ history'.answer = history.answer
  BY <1>1, <1>2, PostFacts
<1>5. \A j \in Ids : Began(j)' <=> Began(j)
  BY <1>4 DEF Began
<1>21. ASSUME NEW j \in Ids, j # i, PushedOut(j)
       PROVE  PushedOut(j)'
  <2>1. history'.answer[j] # None
    BY <1>4, <1>21 DEF PushedOut
  <2>2. \A k \in AfterOf(j) : k # i /\ k \in Ids
    BY <1>1, <1>2, HistoryTypes DEF Remembered
  <2>3. OthersAfter(j) = OthersAfter(j)'
    BY <1>4, <1>21, <2>2 DEF OthersAfter
  <2>4. AfterOf(j)' \subseteq Ids
    BY <1>1, <1>4, HistoryTypes
  <2>5. QED
    BY <1>21, <2>1, <2>3, <2>4, PushedOutStays
<1>22. \A j \in Ids : j # i /\ Spent(j) => Spent(j)'
  BY <1>5, <1>21 DEF Spent
<1>6. verdict[c] = None
  BY DEF Dispatch, Reissue, ClientInv, Follows
<1>7. ~Sent(i) /\ BeganIn(i) = -1 /\ \A a \in {"202", "refused"} : <<i, a>> \notin replies
  BY <1>1, <1>2 DEF Known
<1>8. id[c] # None => id[c] \in Ids /\ Dead(id[c]) /\ (TryOf(id[c]) = attempt[c] => Spent(id[c]))
  <2> SUFFICES ASSUME id[c] # None
               PROVE  Dead(id[c]) /\ (TryOf(id[c]) = attempt[c] => Spent(id[c]))
    BY <1>1
  <2>1. id[c] \in Ids /\ Follows(c) /\ Attempts(c) /\ UserOf(id[c]) = c
    BY <1>1 DEF ClientInv, Follows
  <2>2. CASE Dispatch(c, i)
    <3>1. Retries(c) /\ phase[c] = "idle"
      BY <2>2 DEF Dispatch, Retries
    <3>2. Dead(id[c])
      BY <1>6, <2>1, <3>1 DEF Follows
    <3>3. TryOf(id[c]) < attempt[c] /\ TryOf(id[c]) \in Nat /\ attempt[c] \in Nat
      BY <1>1, <2>1, <3>1, HistoryTypes DEF Attempts
    <3>4. QED
      BY <3>2, <3>3
  <2>3. CASE Reissue(c, i)
    <3>1. phase[c] = "reconciling" /\ result[id[c]] = "absent"
      BY <2>3 DEF Reissue
    <3>2. ~Sent(id[c]) /\ id[c] \notin Replaced
      BY <2>1, <3>1 DEF Follows, Replaced, UserOf
    <3>3. Spent(id[c])
      BY <1>1, <2>1, <3>1, <3>2 DEF Remembered, Spent
    <3>4. QED
      BY <3>1, <3>2, <3>3 DEF Dead
  <2>4. QED
    BY <2>2, <2>3
<1>9. /\ \A j \in Ids : j # i => (Sent(j)' <=> Sent(j))
      /\ \A j \in Ids : j # i => (Dead(j)' <=> Dead(j))
  BY <1>2, <1>3 DEF Sent, Dead
<1>10. /\ phase'[c] = "posting" /\ id'[c] = i
       /\ \A q \in Clients \ {c} : phase'[q] = phase[q] /\ id'[q] = id[q]
  BY <1>1, <1>3
<1>11. \A q \in Clients : id[q] # i
  <2>1. \A q \in Clients : id[q] # None => UserOf(id[q]) = q
    BY DEF ClientInv, Follows
  <2>2. QED
    BY <1>2, <2>1
<1>12. TypeOK'
  <2>1. /\ phase' \in [Clients -> Phases] /\ id' \in [Clients -> Ids \cup {None}]
        /\ posts' \subseteq Ids
    BY <1>1, <1>3 DEF Phases
  <2>2. transportFailures' \in [Clients -> 0 .. MAX_POLL_FAILURES - 1]
    BY <1>1, <1>3
  <2>3. QED
    BY <1>1, <1>2, <1>4, <2>1, <2>2
       DEF TypeOK, Service!ServiceTypeOK, Histories
<1>13. ServiceAgrees'
  BY <1>1, <1>2, <1>4, <1>5 DEF ServiceAgrees
<1>14. Known'
  <2>1. ASSUME NEW j \in Ids, UserOf(j)' = None
        PROVE  /\ ~Sent(j)' /\ BeganIn(j)' = -1
               /\ \A a \in {"202", "refused"} : <<j, a>> \notin replies'
    <3>1. j # i /\ UserOf(j) = None
      BY <1>4, <2>1
    <3>2. QED
      BY <1>1, <1>2, <1>4, <1>9, <3>1 DEF Known
  <2>2. ASSUME NEW j \in Ids, <<j, "202">> \in replies'
        PROVE  ~Sent(j)' /\ BeganIn(j)' # -1
    <3>1. <<j, "202">> \in replies /\ j # i
      BY <1>2, <1>7, <2>2
    <3>2. QED
      BY <1>1, <1>4, <1>9, <3>1 DEF Known
  <2>3. reading' \notin posts'
    BY <1>1, <1>2, <1>3, <1>7 DEF Known, Sent
  <2>4. QED
    BY <2>1, <2>2, <2>3 DEF Known
<1>15. ReplacedDead'
  <2>1. ASSUME NEW j \in Ids, UserOf(j)' # None, j # id'[UserOf(j)']
        PROVE  Dead(j)'
    <3>1. j # i /\ UserOf(j)' = UserOf(j)
      BY <1>4, <1>10, <2>1
    <3>2. UserOf(j) \in Clients
      BY <1>1, <2>1, <3>1, HistoryTypes
    <3>3. CASE UserOf(j) # c
      <4>1. j # id[UserOf(j)]
        BY <1>10, <2>1, <3>1, <3>2, <3>3
      <4>2. Dead(j)
        BY <1>1, <2>1, <3>1, <4>1 DEF ReplacedDead, Replaced, UserOf
      <4>3. QED
        BY <1>9, <3>1, <4>2
    <3>4. CASE UserOf(j) = c
      <4>1. CASE j = id[c]
        BY <1>8, <1>9, <3>1, <4>1
      <4>2. CASE j # id[c]
        <5>1. Dead(j)
          BY <1>1, <3>2, <3>4, <4>2 DEF ReplacedDead, Replaced, UserOf
        <5>2. QED
          BY <1>9, <3>1, <5>1
      <4>3. QED
        BY <4>1, <4>2
    <3>5. QED
      BY <3>3, <3>4
  <2>2. QED
    BY <2>1 DEF ReplacedDead, Replaced, UserOf
<1>16. OneCapturePerAttempt'
  <2>1. ASSUME NEW j \in Ids, NEW k \in Ids, BeganIn(j)' # -1, BeganIn(k)' # -1, j # k,
               UserOf(j)' = UserOf(k)', TryOf(j)' = TryOf(k)'
        PROVE  BeganIn(j)' # BeganIn(k)' \/ PushedOut(j)' \/ PushedOut(k)'
    <3>1. j # i /\ k # i
      BY <1>4, <1>7, <2>1
    <3>2. BeganIn(j) # BeganIn(k) \/ PushedOut(j) \/ PushedOut(k)
      BY <1>4, <2>1, <3>1
         DEF ClientInv, OneCapturePerAttempt, UserOf, TryOf, BeganIn
    <3>3. QED
      BY <1>4, <1>21, <3>1, <3>2
  <2>2. QED
    BY <2>1 DEF OneCapturePerAttempt, UserOf, TryOf, BeganIn
<1>17. VerdictIsTheAnswer'
  <2>1. ASSUME NEW q \in Clients
        PROVE  /\ verdict'[q] \in {"evidence", "not-evidence"} => history'.answer[id'[q]] = OK
               /\ verdict'[q] = "failed" => history'.answer[id'[q]] \in Answers \ {OK}
    <3>1. CASE q = c
      <4>1. verdict'[q] = None /\ None \notin {"evidence", "not-evidence", "failed"}
        BY <1>2, <1>6, <3>1 DEF Verdicts
      <4>2. QED
        BY <4>1
    <3>2. CASE q # c
      BY <1>2, <1>4, <1>10, <3>2 DEF ClientInv, VerdictIsTheAnswer
    <3>3. QED
      BY <3>1, <3>2
  <2>2. QED
    BY <2>1 DEF VerdictIsTheAnswer
<1>18. Follows(c)' /\ Attempts(c)'
  <2>1. Follows(c)'
    BY <1>2, <1>4, <1>6, <1>10 DEF Follows, UserOf
  <2>2. ASSUME NEW j \in Ids, UserOf(j)' = c
        PROVE  /\ TryOf(j)' <= attempt'[c]
               /\ j # id'[c] /\ TryOf(j)' = attempt'[c] => Spent(j)'
    <3>1. CASE j = i
      BY <1>1, <1>2, <1>4, <1>10, <3>1
    <3>2. CASE j # i
      <4>1. UserOf(j) = c /\ TryOf(j)' = TryOf(j)
        BY <1>4, <2>2, <3>2
      <4>2. TryOf(j) <= attempt[c] /\ (j # id[c] /\ TryOf(j) = attempt[c] => Spent(j))
        BY <4>1 DEF ClientInv, Attempts
      <4>3. CASE j = id[c]
        BY <1>2, <1>8, <1>22, <3>2, <4>1, <4>2, <4>3
      <4>4. CASE j # id[c]
        BY <1>2, <1>22, <3>2, <4>1, <4>2, <4>4
      <4>5. QED
        BY <4>3, <4>4
    <3>3. QED
      BY <3>1, <3>2
  <2>3. TryOf(id[c])' = attempt'[c]
    BY <1>2, <1>4, <1>10 DEF TryOf
  <2>4. ~Retries(c)'
    BY <1>10 DEF Retries
  <2>5. QED
    BY <2>1, <2>2, <2>3, <2>4 DEF Attempts
<1>19. ASSUME NEW q \in Clients, q # c
       PROVE  Follows(q)' /\ Attempts(q)'
  <2>1. /\ phase'[q] = phase[q] /\ id'[q] = id[q] /\ id[q] # i
        /\ verdict'[q] = verdict[q] /\ attempt'[q] = attempt[q]
    BY <1>2, <1>10, <1>11, <1>19
  <2>2. id[q] # None => /\ id[q] \in Ids
                        /\ history'.user[id[q]] = UserOf(id[q])
                        /\ history'.attempt[id[q]] = TryOf(id[q])
                        /\ history'.began[id[q]] = BeganIn(id[q])
                        /\ (id[q] \in posts' \/ reading' = id[q] <=> Sent(id[q]))
                        /\ result'[id[q]] = result[id[q]]
    BY <1>1, <1>2, <1>4, <1>9, <2>1 DEF UserOf, TryOf, BeganIn, Sent
  <2>3. Follows(q)'
    <3>1. Follows(q)
      BY DEF ClientInv
    <3>2. id[q] # None => id'[q] = id[q] /\ UserOf(id[q]) = history'.user[id[q]]
      BY <2>1, <2>2
    <3>3. QED
      BY <2>1, <2>2, <3>1 DEF Follows, Dead, Sent, UserOf, BeganIn
  <2>4. ASSUME NEW j \in Ids, UserOf(j)' = q
        PROVE  /\ TryOf(j)' <= attempt'[q]
               /\ Retries(q)' => TryOf(j)' < attempt'[q]
               /\ j # id'[q] /\ TryOf(j)' = attempt'[q] => Spent(j)'
    <3>1. j # i
      BY <1>4, <1>19, <2>4
    <3>2. UserOf(j) = q /\ TryOf(j)' = TryOf(j) /\ (Spent(j) => Spent(j)')
      BY <1>4, <1>22, <2>4, <3>1
    <3>3. QED
      BY <2>1, <3>2 DEF ClientInv, Attempts, Retries
  <2>5. id'[q] # None /\ ~Retries(q)' => history'.attempt[id'[q]] = attempt'[q]
    BY <2>1, <2>2 DEF ClientInv, Attempts, Retries
  <2>6. QED
    BY <2>3, <2>4, <2>5 DEF Attempts, TryOf
<1>23. Remembered'
  <2>1. ASSUME NEW j \in Ids, j # i
        PROVE  /\ UserOf(j)' = UserOf(j) /\ (j \in Replaced => j \in Replaced')
               /\ \A k \in AfterOf(j)' : k \in Ids /\ k # i /\ UserOf(k)' = UserOf(k)
    <3>1. \A k \in AfterOf(j)' : k \in Ids /\ k # i
      BY <1>1, <1>2, <1>4, HistoryTypes DEF Remembered
    <3>2. j \in Replaced => j # id'[UserOf(j)] /\ UserOf(j) # None
      BY <1>1, <1>3, <2>1, HistoryTypes DEF Replaced, UserOf
    <3>3. QED
      BY <1>4, <2>1, <3>1, <3>2 DEF Replaced, UserOf
  <2>2. /\ BeganIn(i)' = -1 /\ AfterOf(i)' = {} /\ result'[i] = "absent" /\ ~Began(i)'
    <3>1. ~Began(i)
      <4>1. history.life \in 0 .. MaxRestarts
        BY <1>1, HistoryTypes
      <4>2. QED
        BY <1>7, <4>1 DEF Began
    <3>2. result[i] = "absent" /\ AfterOf(i) = {}
      BY <1>1, <1>7, <3>1 DEF ServiceAgrees, Remembered
    <3>3. QED
      BY <1>2, <1>4, <1>5, <1>7, <3>1, <3>2
  <2>3. ASSUME NEW j \in Ids
        PROVE  /\ result'[j] # "absent" => since'[j] \subseteq AfterOf(j)'
               /\ Began(j)' /\ result'[j] = "absent" /\ j \notin Replaced' => PushedOut(j)'
               /\ BeganIn(j)' = -1 => AfterOf(j)' = {}
               /\ Sent(j)' => BeganIn(j)' = -1
    <3>1. CASE j = i
      BY <2>2, <3>1
    <3>2. CASE j # i
      BY <1>1, <1>2, <1>4, <1>5, <1>9, <1>21, <2>1, <3>2 DEF Remembered
    <3>3. QED
      BY <3>1, <3>2
  <2>4. ASSUME NEW j \in Ids, NEW k \in AfterOf(j)'
        PROVE  /\ UserOf(k)' # None
               /\ j \notin Replaced' => UserOf(k)' # UserOf(j)'
    <3>1. j # i
      BY <2>2, <2>4
    <3>2. QED
      BY <1>1, <1>4, <2>1, <2>4, <3>1 DEF Remembered
  <2>5. QED
    BY <2>3, <2>4 DEF Remembered
<1>20. QED
  BY <1>23, <1>12, <1>13, <1>14, <1>15, <1>16, <1>17, <1>18, <1>19 DEF ClientInv

(* A body arrives: its capture begins, and no other of its attempt has in  *)
(* this life.                                                              *)
LEMMA BodyKeeps ==
  ASSUME ClientInv, NEW i \in Ids, BodyArrives(i)
  PROVE  ClientInv'
<1> USE ClientTypes, ClientNames
<1>1. TypeOK /\ ServiceAgrees /\ Known /\ ReplacedDead /\ Remembered
  BY DEF ClientInv
<1>2. /\ reading = i /\ slot = Other /\ slot' = i /\ reading' = None
      /\ replies' = replies \cup {<<i, "202">>}
      /\ UNCHANGED <<posts, phase, id, transportFailures, attempt, verdict>>
  BY DEF BodyArrives, Service!Begun
<1>3. /\ history' \in Histories
      /\ BeganIn(i)' = history.life
      /\ \A j \in Ids : j # i => BeganIn(j)' = BeganIn(j)
      /\ \A j \in Ids : UserOf(j)' = UserOf(j) /\ TryOf(j)' = TryOf(j)
      /\ history'.life = history.life /\ history'.answer = history.answer
      /\ \A j \in Ids : AfterOf(j)' = IF BeganIn(j) = -1 THEN AfterOf(j)
                                      ELSE AfterOf(j) \cup {i}
  BY <1>1, BodyFacts
<1>18. /\ result' \in [Ids -> {"absent", "running"} \cup Answers]
       /\ since' \in [Ids -> SUBSET Ids]
       /\ result'[i] = "running" /\ since'[i] = {}
       /\ \A j \in Ids \ {i} :
            \/ /\ result'[j] = result[j]
               /\ result[j] # "absent" => since'[j] = since[j] \cup {i}
            \/ /\ result'[j] = "absent" /\ result[j] \in Answers
               /\ Cardinality(since[j] \cup {i}) >= RESULT_HISTORY
  BY <1>1, BodyForgets
<1>4. Began(i)' /\ \A j \in Ids : j # i => (Began(j)' <=> Began(j))
  BY <1>3 DEF Began
<1>5. history.life \in Nat
  BY <1>1, HistoryTypes
<1>6. /\ Sent(i) /\ i \notin posts /\ UserOf(i) # None
      /\ \A j \in Ids : Sent(j)' => Sent(j) /\ j # i
  BY <1>1, <1>2 DEF Sent, Known
<1>7. \A j \in Ids : Dead(j) => j # i /\ Dead(j)'
  <2>1. ASSUME NEW j \in Ids, Dead(j)
        PROVE  j # i /\ Dead(j)'
    <3>1. j # i /\ ~Sent(j)' /\ result[j] # "running"
      BY <1>6, <2>1 DEF Dead
    <3>2. result'[j] # "running"
      BY <1>18, <3>1
    <3>3. QED
      BY <3>1, <3>2 DEF Dead
  <2>2. QED
    BY <2>1
<1>19. ASSUME NEW j \in Ids, PushedOut(j)
       PROVE  PushedOut(j)'
  <2>1. history'.answer[j] # None
    BY <1>3, <1>19 DEF PushedOut
  <2>2. AfterOf(j) \subseteq AfterOf(j)' /\ AfterOf(j) \subseteq Ids /\ AfterOf(j)' \subseteq Ids
    BY <1>1, <1>3, HistoryTypes
  <2>3. OthersAfter(j) \subseteq OthersAfter(j)'
    BY <1>3, <2>2 DEF OthersAfter
  <2>4. QED
    BY <1>19, <2>1, <2>2, <2>3, PushedOutStays
<1>8. UserOf(i) \in Clients /\ i = id[UserOf(i)]
  <2>1. UserOf(i) \in Clients
    BY <1>1, <1>6, HistoryTypes
  <2>2. ~Dead(i)
    BY <1>6 DEF Dead
  <2>3. QED
    BY <1>1, <1>6, <2>1, <2>2 DEF ReplacedDead, Replaced, UserOf
<1>9. TypeOK'
  <2>1. replies' \subseteq Ids \X {"202", "refused"}
    BY <1>1, <1>2
  <2>2. QED
    BY <1>1, <1>2, <1>3, <1>18, <2>1 DEF TypeOK, Service!ServiceTypeOK, Histories
<1>10. ServiceAgrees'
  <2>1. \A j \in Ids : result[j] # "running"
    BY <1>1, <1>2 DEF ServiceAgrees
  <2>2. \A j \in Ids : slot' = j <=> result'[j] = "running"
    BY <1>2, <1>18, <2>1
  <2>3. \A j \in Ids : result'[j] # "absent" => Began(j)'
    BY <1>1, <1>18, <1>4 DEF ServiceAgrees
  <2>4. \A j \in Ids : result'[j] \in Answers => history'.answer[j] = result'[j]
    BY <1>1, <1>3, <1>18 DEF ServiceAgrees
  <2>5. \A j \in Ids : BeganIn(j)' <= history'.life
    BY <1>1, <1>3, <1>5 DEF ServiceAgrees
  <2>6. QED
    BY <1>2, <2>2, <2>3, <2>4, <2>5 DEF ServiceAgrees
<1>11. Known'
  <2>1. ASSUME NEW j \in Ids, UserOf(j)' = None
        PROVE  /\ ~Sent(j)' /\ BeganIn(j)' = -1
               /\ \A a \in {"202", "refused"} : <<j, a>> \notin replies'
    BY <1>1, <1>2, <1>3, <1>6, <2>1 DEF Known
  <2>2. ASSUME NEW j \in Ids, <<j, "202">> \in replies'
        PROVE  ~Sent(j)' /\ BeganIn(j)' # -1
    BY <1>1, <1>2, <1>3, <1>5, <1>6, <2>2 DEF Known
  <2>3. QED
    BY <1>1, <1>2, <2>1, <2>2 DEF Known
<1>12. ReplacedDead'
  <2>1. Replaced' = Replaced
    BY <1>2, <1>3 DEF Replaced, UserOf
  <2>2. QED
    BY <1>1, <1>7, <2>1 DEF ReplacedDead
<1>13. ASSUME NEW j \in Ids, j # i, UserOf(j) = UserOf(i), TryOf(j) = TryOf(i)
       PROVE  BeganIn(j) # history.life \/ PushedOut(j)'
  <2> DEFINE c == UserOf(i)
  <2>1. Follows(c) /\ Attempts(c) /\ id[c] = i /\ id[c] # None
    BY <1>8 DEF ClientInv
  <2>2. ~Retries(c)
    <3>1. ~Dead(id[c])
      BY <1>6, <2>1 DEF Dead
    <3>2. QED
      BY <2>1, <3>1 DEF Follows, Retries
  <2>3. TryOf(i) = attempt[c]
    BY <2>1, <2>2 DEF Attempts
  <2>4. Spent(j)
    BY <1>13, <2>1, <2>3 DEF Attempts
  <2>5. QED
    BY <1>19, <2>4 DEF Began, Spent
<1>14. OneCapturePerAttempt'
  <2>1. ASSUME NEW j \in Ids, NEW k \in Ids, BeganIn(j)' # -1, BeganIn(k)' # -1, j # k,
               UserOf(j)' = UserOf(k)', TryOf(j)' = TryOf(k)'
        PROVE  BeganIn(j)' # BeganIn(k)' \/ PushedOut(j)' \/ PushedOut(k)'
    <3>1. UserOf(j) = UserOf(k) /\ TryOf(j) = TryOf(k)
      BY <1>3, <2>1
    <3>2. CASE j # i /\ k # i
      <4>1. BeganIn(j) # BeganIn(k) \/ PushedOut(j) \/ PushedOut(k)
        BY <1>3, <2>1, <3>1, <3>2
           DEF ClientInv, OneCapturePerAttempt, UserOf, TryOf, BeganIn
      <4>2. QED
        BY <1>3, <1>19, <3>2, <4>1
    <3>3. CASE j = i
      BY <1>3, <1>13, <2>1, <3>1, <3>3
    <3>4. CASE k = i
      BY <1>3, <1>13, <2>1, <3>1, <3>4
    <3>5. QED
      BY <3>2, <3>3, <3>4
  <2>2. QED
    BY <2>1 DEF OneCapturePerAttempt, UserOf, TryOf, BeganIn
<1>15. VerdictIsTheAnswer'
  BY <1>2, <1>3 DEF ClientInv, VerdictIsTheAnswer
<1>16. ASSUME NEW q \in Clients
       PROVE  Follows(q)' /\ Attempts(q)'
  <2>1. Follows(q) /\ Attempts(q) /\ id[q] \in Ids \cup {None}
    BY <1>1 DEF ClientInv
  <2>2. id[q] # None => /\ id[q] \in Ids
                        /\ history'.user[id[q]] = UserOf(id[q])
                        /\ history'.attempt[id[q]] = TryOf(id[q])
                        /\ (BeganIn(id[q]) # -1 => history'.began[id[q]] # -1)
                        /\ (id[q] \in posts' \/ reading' = id[q] => Sent(id[q]))
                        /\ (Dead(id[q]) => result'[id[q]] # "running")
    <3> SUFFICES ASSUME id[q] # None
                 PROVE  /\ UserOf(id[q])' = UserOf(id[q])
                        /\ history'.user[id[q]] = UserOf(id[q])
                        /\ history'.attempt[id[q]] = TryOf(id[q])
                        /\ (BeganIn(id[q]) # -1 => history'.began[id[q]] # -1)
                        /\ (id[q] \in posts' \/ reading' = id[q] => Sent(id[q]))
                        /\ (Dead(id[q]) => result'[id[q]] # "running")
      BY <2>1
    <3>1. PICK k \in Ids : k = id[q]
      BY <2>1
    <3>2. history'.user[k] = UserOf(k) /\ history'.attempt[k] = TryOf(k)
      BY <1>3 DEF UserOf, TryOf
    <3>3. BeganIn(k) # -1 => history'.began[k] # -1
      BY <1>3, <1>5 DEF BeganIn
    <3>4. k \in posts' \/ reading' = k => Sent(k)
      BY <1>6 DEF Sent
    <3>5. Dead(k) => result'[k] # "running"
      BY <1>7 DEF Dead
    <3>6. QED
      BY <1>2, <3>1, <3>2, <3>3, <3>4, <3>5 DEF UserOf
  <2>3. Follows(q)'
    BY <1>2, <2>1, <2>2 DEF Follows, Dead, Sent, UserOf, BeganIn
  <2>4. ASSUME NEW j \in Ids, UserOf(j)' = q
        PROVE  /\ TryOf(j)' <= attempt'[q]
               /\ Retries(q)' => TryOf(j)' < attempt'[q]
               /\ j # id'[q] /\ TryOf(j)' = attempt'[q] => Spent(j)'
    <3>1. UserOf(j) = q /\ TryOf(j)' = TryOf(j)
      BY <1>3, <2>4
    <3>2. j # id[q] => j # i
      BY <1>8, <3>1
    <3>3. j # i /\ Spent(j) => Spent(j)'
      BY <1>4, <1>19 DEF Spent
    <3>4. QED
      BY <1>2, <2>1, <3>1, <3>2, <3>3 DEF Attempts, Retries
  <2>5. id'[q] # None /\ ~Retries(q)' => history'.attempt[id'[q]] = attempt'[q]
    BY <1>2, <2>1, <2>2 DEF Attempts, Retries
  <2>6. QED
    BY <2>3, <2>4, <2>5 DEF Attempts, TryOf
<1>20. Remembered'
  <2>1. Replaced' = Replaced /\ i \notin Replaced
    BY <1>2, <1>3, <1>8 DEF Replaced, UserOf
  <2>2. BeganIn(i) = -1 /\ AfterOf(i)' = {}
    BY <1>1, <1>3, <1>6 DEF Remembered
  <2>3. \A j \in Ids : result'[j] # "absent" => since'[j] \subseteq AfterOf(j)'
    <3>1. ASSUME NEW j \in Ids, j # i, result'[j] # "absent"
          PROVE  since'[j] \subseteq AfterOf(j)'
      <4>1. result[j] # "absent" /\ since'[j] = since[j] \cup {i}
        BY <1>18, <3>1
      <4>2. since[j] \subseteq AfterOf(j) /\ BeganIn(j) # -1
        <5>1. BeganIn(j) = history.life
          BY <1>1, <4>1 DEF ServiceAgrees, Began
        <5>2. QED
          BY <1>1, <1>5, <4>1, <5>1 DEF Remembered
      <4>3. QED
        BY <1>3, <4>1, <4>2
    <3>2. QED
      BY <1>18, <3>1
  <2>4. ASSUME NEW j \in Ids, Began(j)', result'[j] = "absent", j \notin Replaced'
        PROVE  PushedOut(j)'
    <3>1. j # i /\ Began(j)
      BY <1>4, <1>18, <2>4
    <3>2. CASE result[j] = "absent"
      BY <1>1, <1>19, <2>1, <2>4, <3>1, <3>2 DEF Remembered
    <3>3. CASE result[j] # "absent"
      <4>1. result[j] \in Answers /\ Cardinality(since[j] \cup {i}) >= RESULT_HISTORY
        BY <1>18, <2>4, <3>1, <3>3
      <4>2. since[j] \subseteq AfterOf(j) /\ AfterOf(j)' = AfterOf(j) \cup {i}
        <5>1. BeganIn(j) # -1
          BY <1>5, <3>1 DEF Began
        <5>2. QED
          BY <1>1, <1>3, <3>3, <5>1 DEF Remembered
      <4>3. \A k \in AfterOf(j)' : k \in Ids /\ UserOf(k)' # UserOf(j)'
        <5>1. UserOf(i) # UserOf(j)
          <6>1. UserOf(j) # None
            <7>1. BeganIn(j) # -1
              BY <1>5, <3>1 DEF Began
            <7>2. QED
              BY <1>1, <7>1 DEF Known
          <6>2. QED
            BY <1>8, <2>1, <2>4, <3>1, <6>1 DEF Replaced, UserOf
        <5>2. \A k \in AfterOf(j) : k \in Ids /\ UserOf(k) # UserOf(j)
          BY <1>1, <2>1, <2>4, HistoryTypes DEF Remembered
        <5>3. QED
          BY <1>3, <4>2, <5>1, <5>2
      <4>4. OthersAfter(j)' = AfterOf(j)'
        BY <4>3 DEF OthersAfter
      <4>5. Cardinality(AfterOf(j)') >= RESULT_HISTORY
        <5>1. since[j] \cup {i} \subseteq AfterOf(j)' /\ IsFiniteSet(AfterOf(j)')
          BY <4>2, <4>3, NamesAssumption, FS_Subset
        <5>2. /\ Cardinality(since[j] \cup {i}) <= Cardinality(AfterOf(j)')
              /\ Cardinality(since[j] \cup {i}) \in Nat /\ Cardinality(AfterOf(j)') \in Nat
          BY <5>1, FS_Subset, FS_CardinalityType
        <5>3. QED
          BY <4>1, <5>2, LimitsAssumption
      <4>6. history'.answer[j] # None
        BY <1>1, <1>3, <4>1 DEF ServiceAgrees
      <4>7. PushedOut(j)' <=> /\ history'.answer[j] # None
                              /\ Cardinality(OthersAfter(j)') >= RESULT_HISTORY
        BY DEF PushedOut, OthersAfter, AfterOf, UserOf
      <4>8. QED
        BY <4>4, <4>5, <4>6, <4>7
    <3>4. QED
      BY <3>2, <3>3
  <2>5. /\ \A j \in Ids : BeganIn(j)' = -1 => AfterOf(j)' = {}
        /\ \A j \in Ids : Sent(j)' => BeganIn(j)' = -1
    BY <1>1, <1>3, <1>5, <1>6 DEF Remembered
  <2>6. ASSUME NEW j \in Ids, NEW k \in AfterOf(j)'
        PROVE  /\ UserOf(k)' # None
               /\ j \notin Replaced' => UserOf(k)' # UserOf(j)'
    <3>1. k \in Ids /\ UserOf(k)' = UserOf(k) /\ UserOf(j)' = UserOf(j)
      BY <1>1, <1>3, <2>6, HistoryTypes
    <3>2. CASE k \in AfterOf(j)
      BY <1>1, <2>1, <3>1, <3>2 DEF Remembered
    <3>3. CASE k \notin AfterOf(j)
      <4>1. k = i /\ BeganIn(j) # -1
        BY <1>3, <2>6, <3>3
      <4>2. j # i
        BY <2>2, <4>1
      <4>3. UserOf(j) # None
        BY <1>1, <4>1 DEF Known
      <4>4. QED
        BY <1>6, <1>8, <2>1, <3>1, <4>1, <4>2, <4>3 DEF Replaced, UserOf
    <3>4. QED
      BY <3>2, <3>3
  <2>7. QED
    BY <2>3, <2>4, <2>5, <2>6 DEF Remembered
<1>17. QED
  BY <1>20, <1>9, <1>10, <1>11, <1>12, <1>14, <1>15, <1>16 DEF ClientInv

(* An answer is of the capture that runs, which nobody has an answer to.   *)
LEMMA AnsweredKeeps ==
  ASSUME ClientInv, NEW i \in Ids, NEW a \in Answers,
         CaptureAnswered(i, a)
  PROVE  ClientInv'
<1> USE ClientTypes, ClientNames
<1>1. TypeOK /\ ServiceAgrees /\ Known /\ ReplacedDead /\ Remembered
  BY DEF ClientInv
<1>2. /\ slot = i /\ slot' = Free /\ result[i] = "running" /\ reading = None
      /\ UNCHANGED <<reading, posts, replies, phase, id, transportFailures, attempt, verdict>>
  BY <1>1 DEF CaptureAnswered, Service!Answered, ServiceAgrees
<1>3. /\ history' \in Histories
      /\ \A j \in Ids : /\ UserOf(j)' = UserOf(j) /\ TryOf(j)' = TryOf(j)
                        /\ BeganIn(j)' = BeganIn(j) /\ AfterOf(j)' = AfterOf(j)
      /\ history'.life = history.life
      /\ history'.answer[i] = a
      /\ \A j \in Ids : j # i => history'.answer[j] = history.answer[j]
      /\ result' = [result EXCEPT ![i] = a] /\ since' = since
  BY <1>1, AnsweredFacts
<1>4. \A j \in Ids : (Began(j)' <=> Began(j)) /\ (Sent(j)' <=> Sent(j))
  BY <1>2, <1>3 DEF Began, Sent
<1>5. result'[i] = a /\ \A j \in Ids : j # i => result'[j] = result[j]
  BY <1>1, <1>3
<1>6. \A j \in Ids : Dead(j) => j # i /\ Dead(j)'
  BY <1>2, <1>4, <1>5 DEF Dead
<1>15. ASSUME NEW j \in Ids, PushedOut(j)
       PROVE  PushedOut(j)'
  <2>1. history'.answer[j] # None
    BY <1>3, <1>15, ClientNames DEF PushedOut
  <2>2. AfterOf(j) \subseteq Ids /\ AfterOf(j)' \subseteq Ids
    BY <1>1, <1>3, HistoryTypes
  <2>3. OthersAfter(j) \subseteq OthersAfter(j)'
    BY <1>3, <2>2 DEF OthersAfter
  <2>4. QED
    BY <1>15, <2>1, <2>2, <2>3, PushedOutStays
<1>16. \A j \in Ids : Spent(j) => Spent(j)'
  BY <1>4, <1>15 DEF Spent
<1>7. TypeOK'
  BY <1>1, <1>2, <1>3 DEF TypeOK, Service!ServiceTypeOK, Histories
<1>8. ServiceAgrees'
  <2>1. \A j \in Ids : slot' = j <=> result'[j] = "running"
    BY <1>1, <1>2, <1>5 DEF ServiceAgrees
  <2>2. \A j \in Ids : result'[j] # "absent" => Began(j)'
    BY <1>1, <1>2, <1>4, <1>5 DEF ServiceAgrees
  <2>3. \A j \in Ids : result'[j] \in Answers => history'.answer[j] = result'[j]
    BY <1>1, <1>3, <1>5 DEF ServiceAgrees
  <2>4. \A j \in Ids : BeganIn(j)' <= history'.life
    BY <1>1, <1>3 DEF ServiceAgrees
  <2>5. QED
    BY <1>2, <2>1, <2>2, <2>3, <2>4 DEF ServiceAgrees
<1>9. Known'
  BY <1>1, <1>2, <1>3, <1>4 DEF Known
<1>10. ReplacedDead'
  <2>1. Replaced' = Replaced
    BY <1>2, <1>3 DEF Replaced, UserOf
  <2>2. QED
    BY <1>1, <1>6, <2>1 DEF ReplacedDead
<1>11. OneCapturePerAttempt'
  BY <1>3, <1>15 DEF ClientInv, OneCapturePerAttempt, UserOf, TryOf, BeganIn
<1>17. Remembered'
  <2>1. Replaced' = Replaced
    BY <1>2, <1>3 DEF Replaced, UserOf
  <2>2. \A j \in Ids : result'[j] = "absent" <=> result[j] = "absent"
    BY <1>2, <1>5
  <2>3. /\ \A j \in Ids : result'[j] # "absent" => since'[j] \subseteq AfterOf(j)'
        /\ \A j \in Ids : Began(j)' /\ result'[j] = "absent" /\ j \notin Replaced'
                         => PushedOut(j)'
        /\ \A j \in Ids : BeganIn(j)' = -1 => AfterOf(j)' = {}
        /\ \A j \in Ids : Sent(j)' => BeganIn(j)' = -1
    BY <1>1, <1>3, <1>4, <1>15, <2>1, <2>2 DEF Remembered
  <2>4. \A j \in Ids : AfterOf(j)' \subseteq Ids
    BY <1>1, <1>3, HistoryTypes
  <2>5. /\ \A j \in Ids : \A k \in AfterOf(j)' : UserOf(k)' # None
        /\ \A j \in Ids : j \notin Replaced' => \A k \in AfterOf(j)' : UserOf(k)' # UserOf(j)'
    BY <1>1, <1>3, <2>1, <2>4 DEF Remembered
  <2>6. QED
    BY <2>3, <2>5 DEF Remembered
<1>12. VerdictIsTheAnswer'
  <2>1. ASSUME NEW q \in Clients, verdict[q] \in {"evidence", "not-evidence", "failed"}
        PROVE  history'.answer[id[q]] = history.answer[id[q]]
    <3>1. verdict[q] # None
      BY <2>1 DEF Verdicts
    <3>2. id[q] \in Ids /\ Dead(id[q])
      BY <1>1, <2>1, <3>1 DEF ClientInv, Follows
    <3>3. QED
      BY <1>3, <1>6, <3>2
  <2>2. QED
    BY <1>2, <2>1 DEF ClientInv, VerdictIsTheAnswer
<1>13. ASSUME NEW q \in Clients
       PROVE  Follows(q)' /\ Attempts(q)'
  <2>1. Follows(q) /\ Attempts(q) /\ id[q] \in Ids \cup {None}
    BY <1>1 DEF ClientInv
  <2>2. id[q] # None => /\ id[q] \in Ids
                        /\ history'.user[id[q]] = UserOf(id[q])
                        /\ history'.attempt[id[q]] = TryOf(id[q])
                        /\ history'.began[id[q]] = BeganIn(id[q])
                        /\ (id[q] \in posts' \/ reading' = id[q] <=> Sent(id[q]))
                        /\ (Dead(id[q]) => result'[id[q]] # "running")
    BY <1>2, <1>3, <1>6, <2>1 DEF UserOf, TryOf, BeganIn, Sent, Dead
  <2>3. Follows(q)'
    BY <1>2, <2>1, <2>2 DEF Follows, Dead, Sent, UserOf, BeganIn
  <2>4. ASSUME NEW j \in Ids, UserOf(j)' = q
        PROVE  /\ TryOf(j)' <= attempt'[q]
               /\ Retries(q)' => TryOf(j)' < attempt'[q]
               /\ j # id'[q] /\ TryOf(j)' = attempt'[q] => Spent(j)'
    BY <1>2, <1>3, <1>16, <2>1, <2>4 DEF Attempts, Retries
  <2>5. id'[q] # None /\ ~Retries(q)' => history'.attempt[id'[q]] = attempt'[q]
    BY <1>2, <2>1, <2>2 DEF Attempts, Retries
  <2>6. QED
    BY <2>3, <2>4, <2>5 DEF Attempts, TryOf
<1>14. QED
  BY <1>7, <1>8, <1>9, <1>10, <1>11, <1>12, <1>13, <1>17 DEF ClientInv

(* A worker that restarts remembers nothing, and has begun nothing in the  *)
(* life that begins.                                                       *)
LEMMA RestartKeeps ==
  ASSUME ClientInv, WorkerRestarts
  PROVE  ClientInv'
<1> USE ClientTypes, ClientNames
<1>1. TypeOK /\ ServiceAgrees /\ Known /\ ReplacedDead /\ Remembered
  BY DEF ClientInv
<1>2. /\ slot' = Free /\ reading' = None /\ replies' = {}
      /\ UNCHANGED <<posts, phase, id, transportFailures, attempt, verdict>>
  BY DEF WorkerRestarts, Service!Restarted
<1>3. /\ history' \in Histories
      /\ \A j \in Ids : /\ UserOf(j)' = UserOf(j) /\ TryOf(j)' = TryOf(j)
                        /\ BeganIn(j)' = BeganIn(j) /\ AfterOf(j)' = AfterOf(j)
      /\ history'.life = history.life + 1
      /\ history'.answer = history.answer
      /\ result' = [i \in Ids |-> "absent"] /\ since' = [i \in Ids |-> {}]
  BY <1>1, RestartFacts
<1>4. \A j \in Ids : BeganIn(j) <= history.life /\ BeganIn(j) \in Int /\ history.life \in Int
  BY <1>1, HistoryTypes DEF ServiceAgrees
<1>5. \A j \in Ids : ~Began(j)' /\ BeganIn(j)' <= history'.life
  BY <1>3, <1>4 DEF Began
<1>6. \A j \in Ids : (Sent(j)' => Sent(j)) /\ (Dead(j) => Dead(j)')
  BY <1>2, <1>3 DEF Sent, Dead
<1>7. TypeOK'
  BY <1>1, <1>2, <1>3 DEF TypeOK, Service!ServiceTypeOK, Histories
<1>8. ServiceAgrees'
  BY <1>2, <1>3, <1>5 DEF ServiceAgrees
<1>9. Known'
  BY <1>1, <1>2, <1>3, <1>6 DEF Known
<1>10. ReplacedDead'
  <2>1. Replaced' = Replaced
    BY <1>2, <1>3 DEF Replaced, UserOf
  <2>2. QED
    BY <1>1, <1>6, <2>1 DEF ReplacedDead
<1>15. ASSUME NEW j \in Ids, PushedOut(j)
       PROVE  PushedOut(j)'
  <2>1. AfterOf(j)' = AfterOf(j) /\ AfterOf(j) \subseteq Ids
    BY <1>1, <1>3, HistoryTypes
  <2>2. OthersAfter(j) \subseteq OthersAfter(j)'
    BY <1>3, <2>1 DEF OthersAfter
  <2>3. history'.answer[j] # None
    BY <1>3, <1>15 DEF PushedOut
  <2>4. QED
    BY <1>15, <2>1, <2>2, <2>3, PushedOutStays
<1>11. OneCapturePerAttempt'
  BY <1>3, <1>15 DEF ClientInv, OneCapturePerAttempt, UserOf, TryOf, BeganIn
<1>16. Remembered'
  <2>1. Replaced' = Replaced
    BY <1>2, <1>3 DEF Replaced, UserOf
  <2>2. \A j \in Ids : result'[j] = "absent" /\ AfterOf(j)' \subseteq Ids
    BY <1>1, <1>3, HistoryTypes
  <2>3. \A j \in Ids : Sent(j)' => BeganIn(j)' = -1
    BY <1>1, <1>3, <1>6 DEF Remembered
  <2>4. /\ \A j \in Ids : \A k \in AfterOf(j)' : UserOf(k)' # None
        /\ \A j \in Ids : j \notin Replaced' => \A k \in AfterOf(j)' : UserOf(k)' # UserOf(j)'
    BY <1>1, <1>3, <2>1, <2>2 DEF Remembered
  <2>5. \A j \in Ids : BeganIn(j)' = -1 => AfterOf(j)' = {}
    BY <1>1, <1>3 DEF Remembered
  <2>6. QED
    BY <1>5, <2>2, <2>3, <2>4, <2>5 DEF Remembered
<1>12. VerdictIsTheAnswer'
  BY <1>2, <1>3 DEF ClientInv, VerdictIsTheAnswer
<1>13. ASSUME NEW q \in Clients
       PROVE  Follows(q)' /\ Attempts(q)'
  <2>1. Follows(q) /\ Attempts(q) /\ id[q] \in Ids \cup {None}
    BY <1>1 DEF ClientInv
  <2>2. id[q] # None => /\ id[q] \in Ids
                        /\ history'.user[id[q]] = UserOf(id[q])
                        /\ history'.attempt[id[q]] = TryOf(id[q])
                        /\ history'.began[id[q]] = BeganIn(id[q])
                        /\ (id[q] \in posts' \/ reading' = id[q] => Sent(id[q]))
                        /\ result'[id[q]] # "running"
    BY <1>2, <1>3, <1>6, <2>1 DEF UserOf, TryOf, BeganIn, Sent
  <2>3. Follows(q)'
    BY <1>2, <2>1, <2>2 DEF Follows, Dead, Sent, UserOf, BeganIn
  <2>4. ASSUME NEW j \in Ids, UserOf(j)' = q
        PROVE  /\ TryOf(j)' <= attempt'[q]
               /\ Retries(q)' => TryOf(j)' < attempt'[q]
               /\ Spent(j)'
    BY <1>2, <1>3, <1>5, <2>1, <2>4 DEF Attempts, Retries, Spent
  <2>5. id'[q] # None /\ ~Retries(q)' => history'.attempt[id'[q]] = attempt'[q]
    BY <1>2, <2>1, <2>2 DEF Attempts, Retries
  <2>6. QED
    BY <2>3, <2>4, <2>5 DEF Attempts, TryOf
<1>14. QED
  BY <1>7, <1>8, <1>9, <1>10, <1>11, <1>12, <1>13, <1>16 DEF ClientInv
-----------------------------------------------------------------------------
LEMMA InitClient == Init => ClientInv
<1> SUFFICES ASSUME Init
             PROVE  ClientInv
  OBVIOUS
<1> USE ClientNames DEF Init, Service!ServiceInit
<1>1. /\ history \in Histories /\ history.life = 0
      /\ \A i \in Ids : /\ UserOf(i) = None /\ TryOf(i) = 0 /\ BeganIn(i) = -1
                        /\ AfterOf(i) = {}
  BY DEF Histories, UserOf, TryOf, BeganIn, AfterOf
<1>2. TypeOK
  BY <1>1 DEF TypeOK, Service!ServiceTypeOK, Phases, Histories
<1>3. \A i \in Ids : ~Sent(i) /\ result[i] = "absent" /\ ~Began(i)
  BY <1>1 DEF Sent, Began
<1>4. ServiceAgrees /\ Known
  BY <1>1, <1>3 DEF ServiceAgrees, Known
<1>10. Remembered
  BY <1>1, <1>3 DEF Remembered
<1>5. ReplacedDead
  BY <1>3 DEF ReplacedDead, Dead
<1>6. OneCapturePerAttempt
  BY DEF OneCapturePerAttempt
<1>7. VerdictIsTheAnswer
  <2>1. None \notin {"evidence", "not-evidence", "failed"}
    BY DEF Verdicts
  <2>2. QED
    BY <2>1 DEF VerdictIsTheAnswer
<1>8. ASSUME NEW c \in Clients
      PROVE  Follows(c) /\ Attempts(c)
  <2>1. \A i \in Ids : UserOf(i) # c
    BY <1>1
  <2>2. QED
    BY <2>1 DEF Follows, Attempts
<1>9. QED
  BY <1>2, <1>4, <1>5, <1>6, <1>7, <1>8, <1>10 DEF ClientInv

LEMMA ClientStepKeeps ==
  ASSUME ClientInv, [Next]_vars
  PROVE  ClientInv'
<1>1. ASSUME NEW c \in Clients, ClientStep(c)
      PROVE  ClientInv'
  <2>1. CASE \E i \in Ids : Dispatch(c, i) \/ Reissue(c, i)
    BY <2>1, PostKeeps
  <2>2. CASE PollFails(c)
    BY <2>2, ConcludingKeeps, ProceedingKeeps
  <2>3. CASE Accepted(c) \/ PostFails(c) \/ StillRunning(c)
    BY <2>3, ProceedingKeeps
  <2>4. CASE \/ Refused(c) \/ PostThrows(c) \/ Collects(c)
             \/ Lost(c) \/ DeadlinePasses(c)
    BY <2>4, ConcludingKeeps
  <2>5. QED
    BY <1>1, <2>1, <2>2, <2>3, <2>4 DEF ClientStep
<1>2. CASE WorkerStep
  BY <1>2, NetworkKeeps, BodyKeeps, AnsweredKeeps, RestartKeeps DEF WorkerStep
<1>3. CASE UNCHANGED vars
  <2>1. UNCHANGED <<slot, result, since, reading, posts, replies, phase, id, transportFailures,
                    attempt, verdict, history>>
    BY <1>3 DEF vars
  <2>2. Quiet
    BY <2>1, StillQuiet DEF ClientInv
  <2>3. TypeOK'
    BY <2>1 DEF ClientInv, TypeOK, Service!ServiceTypeOK
  <2>4. \A q \in Clients : Follows(q)' /\ Attempts(q)'
    BY <2>1, <2>2, QuietOthers DEF ClientInv
  <2>5. VerdictIsTheAnswer'
    BY <2>1 DEF ClientInv, VerdictIsTheAnswer
  <2>6. QED
    BY <2>2, <2>3, <2>4, <2>5, QuietKeeps
<1>4. QED
  BY <1>1, <1>2, <1>3 DEF Next

LEMMA ClientInvariant == Spec => []ClientInv
<1>1. Init => ClientInv
  BY InitClient
<1>2. ClientInv /\ [Next]_vars => ClientInv'
  BY ClientStepKeeps
<1>3. QED
  BY <1>1, <1>2, PTL DEF Spec

(* Every reachable state of the clients, the network and the worker is     *)
(* typed.                                                                  *)
THEOREM ClientTypeCorrect == Spec => []TypeOK
<1>1. ClientInv => TypeOK
  BY DEF ClientInv
<1>2. QED
  BY <1>1, ClientInvariant, PTL

(* Whatever is lost, a client that mints another id has left none that     *)
(* will ever run.                                                          *)
THEOREM NothingIsLeftBehind == Spec => []ReplacedIdsAreDead
<1>1. ClientInv => ReplacedIdsAreDead
  <2> SUFFICES ASSUME ClientInv
               PROVE  ReplacedIdsAreDead
    OBVIOUS
  <2>1. \A i \in Replaced : i \in Ids /\ Dead(i) /\ slot # i
    BY DEF ClientInv, ReplacedDead, ServiceAgrees, Dead, Replaced
  <2>2. QED
    BY <2>1 DEF ReplacedIdsAreDead, Dead, Sent
<1>2. QED
  BY <1>1, ClientInvariant, PTL

(* However acceptances and answers are lost, an attempt at a case costs    *)
(* the worker one capture in each of its lives, unless RESULT_HISTORY      *)
(* captures of other clients came between.                                 *)
THEOREM AttemptsAreBoughtOnce == Spec => []OneCapturePerAttempt
<1>1. ClientInv => OneCapturePerAttempt
  BY DEF ClientInv
<1>2. QED
  BY <1>1, ClientInvariant, PTL

(* What the runner keeps as evidence, or throws as the worker's fault, is  *)
(* what the worker answered under the id the client holds.                 *)
THEOREM VerdictsAreAnswers == Spec => []VerdictIsTheAnswer
<1>1. ClientInv => VerdictIsTheAnswer
  BY DEF ClientInv
<1>2. QED
  BY <1>1, ClientInvariant, PTL

(* A client gives a capture up as lost, or mints another id for it, only   *)
(* if the worker restarted since it began, or others pushed its answer     *)
(* out; or, before a 202, if it never began: never because of the network. *)
Vanished(i) == history.began[i] \in 0 .. history.life - 1 \/ PushedOut(i)

ActsForCause ==
  \A c \in Clients :
    /\ Lost(c) => Vanished(id[c])
    /\ (\E i \in Ids : Reissue(c, i)) => history.began[id[c]] = -1 \/ Vanished(id[c])

THEOREM WorkIsRedoneForCause == Spec => RedoneForCause
<1>1. ASSUME ClientInv, NEW c \in Clients, result[id[c]] = "absent", id[c] \in Ids,
             UserOf(id[c]) = c
      PROVE  history.began[id[c]] = -1 \/ Vanished(id[c])
  <2>1. TypeOK /\ ServiceAgrees /\ Remembered
    BY <1>1 DEF ClientInv
  <2>2. id[c] \notin Replaced
    BY <1>1 DEF Replaced, UserOf
  <2>3. CASE Began(id[c])
    BY <1>1, <2>1, <2>2, <2>3 DEF Remembered, Vanished
  <2>4. CASE ~Began(id[c])
    <3>1. BeganIn(id[c]) # history.life /\ BeganIn(id[c]) <= history.life
      BY <1>1, <2>1, <2>4 DEF ServiceAgrees, Began
    <3>2. BeganIn(id[c]) \in -1 .. MaxRestarts /\ history.life \in 0 .. MaxRestarts
      BY <1>1, <2>1, HistoryTypes
    <3>3. BeganIn(id[c]) = -1 \/ BeganIn(id[c]) \in 0 .. history.life - 1
      BY <3>1, <3>2, ClientNames
    <3>4. QED
      BY <3>3 DEF BeganIn, Vanished
  <2>5. QED
    BY <2>3, <2>4
<1>2. ClientInv => ActsForCause
  <2> SUFFICES ASSUME ClientInv, NEW c \in Clients
               PROVE  /\ Lost(c) => Vanished(id[c])
                      /\ (\E i \in Ids : Reissue(c, i))
                           => history.began[id[c]] = -1 \/ Vanished(id[c])
    BY DEF ActsForCause
  <2>1. TypeOK /\ Follows(c)
    BY DEF ClientInv
  <2>2. phase[c] \in {"reconciling", "polling"} => id[c] \in Ids /\ UserOf(id[c]) = c
    BY <2>1, ClientTypes DEF Follows
  <2>3. ASSUME Lost(c)
        PROVE  Vanished(id[c])
    <3>1. phase[c] = "polling" /\ result[id[c]] = "absent"
      BY <2>3 DEF Lost
    <3>2. history.began[id[c]] # -1
      BY <2>1, <3>1 DEF Follows, BeganIn
    <3>3. QED
      BY <1>1, <2>2, <3>1, <3>2
  <2>4. ASSUME NEW i \in Ids, Reissue(c, i)
        PROVE  history.began[id[c]] = -1 \/ Vanished(id[c])
    <3>1. phase[c] = "reconciling" /\ result[id[c]] = "absent"
      BY <2>4 DEF Reissue
    <3>2. QED
      BY <1>1, <2>2, <3>1
  <2>5. QED
    BY <2>3, <2>4
<1>3. ClientInv /\ [Next]_vars => [ActsForCause]_vars
  BY <1>2
<1>4. Spec => [][ActsForCause]_vars
  BY <1>3, ClientInvariant, PTL DEF Spec
<1>5. QED
  BY <1>4 DEF RedoneForCause, ActsForCause, Vanished

=============================================================================
