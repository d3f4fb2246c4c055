--------------------------- MODULE CaptureService ---------------------------
(***************************************************************************)
(* What the worker promises its callers, without its connections, phases,  *)
(* retries and eviction order: one capture at a time; a capture named by   *)
(* the client is running until it has one answer; an answer never changes  *)
(* while it is remembered, and is forgotten only to make room, once        *)
(* RESULT_HISTORY captures have begun after its own, or with everything    *)
(* else when the worker restarts.                                          *)
(***************************************************************************)
EXTENDS Integers, FiniteSets

CONSTANTS Ids,      \* the ids clients choose
          Answers,  \* what a finished capture may answer
          Free,     \* nobody holds the slot
          Other,    \* a request with no id yet, or with none at all, holds it
          RESULT_HISTORY

VARIABLES slot,     \* Free, Other, or the id of the running capture
          result,   \* "absent", "running" or an answer, for each id
          since     \* for each id remembered, those whose captures began after

serviceVars == <<slot, result, since>>

ServiceTypeOK ==
  /\ slot \in Ids \cup {Free, Other}
  /\ result \in [Ids -> {"absent", "running"} \cup Answers]
  /\ since \in [Ids -> SUBSET Ids]

ServiceInit ==
  /\ slot = Free
  /\ result = [i \in Ids |-> "absent"]
  /\ since = [i \in Ids |-> {}]

Claimed == slot = Free /\ slot' = Other /\ UNCHANGED <<result, since>>

Released == slot = Other /\ slot' = Free /\ UNCHANGED <<result, since>>

(* The running capture takes its place in the memory; an earlier one under *)
(* the same id leaves it, and old finished ones may have to.               *)
Begun(i) ==
  LET kept == {j \in Ids \ {i} : result[j] # "absent"}
      later(j) == since[j] \cup {i}
      old == {j \in kept : result[j] \in Answers /\ Cardinality(later(j)) >= RESULT_HISTORY}
  IN  /\ slot = Other
      /\ slot' = i
      /\ \E forgotten \in SUBSET old :
           /\ result' = [j \in Ids |-> IF j = i THEN "running"
                                       ELSE IF j \in forgotten THEN "absent" ELSE result[j]]
           /\ since' = [j \in Ids |-> IF j \in kept \ forgotten THEN later(j) ELSE {}]

Answered(i, a) ==
  /\ slot = i
  /\ slot' = Free
  /\ result' = [result EXCEPT ![i] = a]
  /\ UNCHANGED since

Restarted ==
  /\ slot' = Free
  /\ result' = [i \in Ids |-> "absent"]
  /\ since' = [i \in Ids |-> {}]

ServiceNext ==
  \/ Claimed
  \/ Released
  \/ \E i \in Ids : Begun(i) \/ \E a \in Answers : Answered(i, a)
  \/ Restarted

ServiceSpec == ServiceInit /\ [][ServiceNext]_serviceVars

(* The slot never stays taken: whoever holds it gives it back.             *)
ServiceFairness == WF_serviceVars(Released \/ \E i \in Ids, a \in Answers : Answered(i, a))

FairServiceSpec == ServiceSpec /\ ServiceFairness
=============================================================================
