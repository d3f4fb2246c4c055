----------------------------- MODULE WorkerPool -----------------------------
(***************************************************************************)
(* A run across the fleet (lab/src/training/worker-pool.mjs): workers take *)
(* items from one shared queue; an item that fails is recorded; a worker   *)
(* that fails three in a row is evicted, one found degraded or silent is   *)
(* retired, and a worker that leaves hands back the item in its hands and  *)
(* the ones it has just failed.  With it, what its callers keep: the       *)
(* progress file (capture-progress.mjs) and the real-page run's own list   *)
(* of failures.                                                            *)
(*                                                                         *)
(* The pool's lists are shared by callbacks of one Node process, so an     *)
(* action is the code between two awaits: prepare, handle (with one stop   *)
(* inside it, where the case is announced), and the health probe behind    *)
(* isDegraded.  (X_Slip: a fault seeded in X, see ResultStore.)            *)
(***************************************************************************)
EXTENDS Integers, Sequences, FiniteSets, Functions

CONSTANTS Workers, Items,
          None,                              \* no item in hand
          Order,                             \* the order the items are queued in
          MAX_CONSECUTIVE_WORKER_FAILURES,
          UNREACHABLE_PROBES_BEFORE_RETIRE,
          MayBeUnusable,                     \* prepare may give up on a worker
          MayDegrade                         \* isDegraded may answer yes

ASSUME NoneAssumption == None \notin Items
ASSUME SizeAssumption == IsFiniteSet(Workers)
ASSUME OrderAssumption ==
  /\ Order \in Seq(Items)
  /\ Range(Order) = Items
  /\ IsInjective(Order)
ASSUME ThresholdAssumption ==
  /\ MAX_CONSECUTIVE_WORKER_FAILURES \in Nat \ {0}
  /\ UNREACHABLE_PROBES_BEFORE_RETIRE \in Nat \ {0}
ASSUME CallerAssumption == MayBeUnusable \in BOOLEAN /\ MayDegrade \in BOOLEAN

VARIABLES
  queue, failures,         \* pool.queue and pool.failures
  evicted, retired,        \* pool.evicted and pool.retired
  phase, item,             \* where each worker is in drainWithWorker, and what it holds
  failedHere,              \* the items it failed since its last success
  consecutiveFailures,
  unreachable,             \* unreachableStreaks
  counted,                 \* the evicted and retired handed to its last probe
  status,                  \* the progress file's entry of each item
  reported                 \* the pages the real-page run's onItemFailed listed

vars == <<queue, failures, evicted, retired, phase, item, failedHere,
          consecutiveFailures, unreachable, counted, status, reported>>

Left == {"unusable", "drained", "evicted", "retired"}
Phases == {"preparing", "handling", "capturing", "checking", "suspected"} \cup Left

Records == [key : Items, worker : Workers]

TypeOK ==
  /\ queue \in Seq(Items)
  /\ failures \subseteq Records
  /\ evicted \subseteq Workers /\ retired \subseteq Workers
  /\ phase \in [Workers -> Phases]
  /\ item \in [Workers -> Items \cup {None}]
  /\ failedHere \in [Workers -> Seq(Items)]
  /\ consecutiveFailures \in [Workers -> Nat]
  /\ unreachable \in [Workers -> 0 .. UNREACHABLE_PROBES_BEFORE_RETIRE]
  /\ counted \in [Workers -> Nat]
  /\ status \in [Items -> {"pending", "capturing", "captured", "skipped", "failed"}]
  /\ reported \subseteq Items

Init ==
  /\ queue = Order
  /\ failures = {}
  /\ evicted = {} /\ retired = {}
  /\ phase = [w \in Workers |-> "preparing"]
  /\ item = [w \in Workers |-> None]
  /\ failedHere = [w \in Workers |-> <<>>]
  /\ consecutiveFailures = [w \in Workers |-> 0]
  /\ unreachable = [w \in Workers |-> 0]
  /\ counted = [w \in Workers |-> 0]
  /\ status = [i \in Items |-> "pending"]
  /\ reported = {}

(* How many of the pool count as still taking cases, given the evicted and *)
(* retired somebody counted.                                               *)
WorkersStillWorking(gone) == Cardinality(Workers) - gone

Gone == Cardinality(evicted) + Cardinality(retired)

-----------------------------------------------------------------------------
TakeNext_Slip(w) ==
  /\ queue # <<>>
  /\ phase' = [phase EXCEPT ![w] = "handling"]
  /\ item' = [item EXCEPT ![w] = Head(queue)]
  /\ queue' = Tail(queue)

(* The top of the loop: the next item, or nothing left to take.            *)
TakeNext(w) ==
  \/ /\ queue = <<>>
     /\ phase' = [phase EXCEPT ![w] = "drained"]
     /\ item' = [item EXCEPT ![w] = None]
     /\ UNCHANGED queue
  \/ /\ queue # <<>>
     /\ phase' = [phase EXCEPT ![w] = "handling"]
     /\ item' = [item EXCEPT ![w] = Head(queue)]
     /\ queue' = Tail(queue)

Prepared(w) ==
  /\ phase[w] = "preparing"
  /\ TakeNext(w)
  /\ UNCHANGED <<failures, evicted, retired, failedHere, consecutiveFailures,
                 unreachable, counted, status, reported>>

Unusable(w) ==
  /\ MayBeUnusable
  /\ phase[w] = "preparing"
  /\ phase' = [phase EXCEPT ![w] = "unusable"]
  /\ UNCHANGED <<queue, failures, evicted, retired, item, failedHere,
                 consecutiveFailures, unreachable, counted, status, reported>>

(* captureCase tells the progress file before it posts to the worker.      *)
StartCase(w) ==
  /\ phase[w] = "handling"
  /\ phase' = [phase EXCEPT ![w] = "capturing"]
  /\ status' = [status EXCEPT ![item[w]] = "capturing"]
  /\ UNCHANGED <<queue, failures, evicted, retired, item, failedHere,
                 consecutiveFailures, unreachable, counted, reported>>

Succeed_Slip(w, outcome) ==
  /\ status' = [status EXCEPT ![item[w]] = outcome]
  /\ item' = [item EXCEPT ![w] = None]
  /\ consecutiveFailures' = [consecutiveFailures EXCEPT ![w] = 0]
  /\ counted' = [counted EXCEPT ![w] = Gone]
  /\ phase' = [phase EXCEPT ![w] = "checking"]
  /\ UNCHANGED <<queue, failures, evicted, retired, failedHere, unreachable, reported>>

(* handle returned: the streak and the blame are cleared, and the worker's *)
(* health is asked with the counts of this moment.                         *)
Succeed(w, outcome) ==
  /\ status' = [status EXCEPT ![item[w]] = outcome]
  /\ item' = [item EXCEPT ![w] = None]
  /\ consecutiveFailures' = [consecutiveFailures EXCEPT ![w] = 0]
  /\ failedHere' = [failedHere EXCEPT ![w] = <<>>]
  /\ counted' = [counted EXCEPT ![w] = Gone]
  /\ phase' = [phase EXCEPT ![w] = "checking"]
  /\ UNCHANGED <<queue, failures, evicted, retired, unreachable, reported>>

Captured(w) == phase[w] = "capturing" /\ Succeed(w, "captured")

(* Done in an earlier run, or reused from the cache.                       *)
Skipped(w) == phase[w] = "handling" /\ Succeed(w, "skipped")

RequeueFrom_Slip(w) ==
  /\ queue' = queue \o <<item[w]>> \o failedHere[w]
  /\ item' = [item EXCEPT ![w] = None]
  /\ failedHere' = [failedHere EXCEPT ![w] = <<>>]
  /\ UNCHANGED failures

(* Hand back the item in hand and everything this worker has just failed,  *)
(* and drop the failure records of those.                                  *)
RequeueFrom(w) ==
  /\ queue' = queue \o <<item[w]>> \o failedHere[w]
  /\ failures' = {f \in failures : f.key \notin Range(failedHere[w])}
  /\ item' = [item EXCEPT ![w] = None]
  /\ failedHere' = [failedHere EXCEPT ![w] = <<>>]

ShouldEvictWorker(streak) ==
  /\ streak >= MAX_CONSECUTIVE_WORKER_FAILURES
  /\ WorkersStillWorking(Gone) > 1

(* handle threw: evict in the same step, or ask after the worker's health  *)
(* with the item still in hand.                                            *)
Fails(w) ==
  /\ phase[w] \in {"handling", "capturing"}
  /\ consecutiveFailures' = [consecutiveFailures EXCEPT ![w] = @ + 1]
  /\ \/ /\ ShouldEvictWorker(consecutiveFailures[w] + 1)
        /\ evicted' = evicted \cup {w}
        /\ phase' = [phase EXCEPT ![w] = "evicted"]
        /\ RequeueFrom(w)
        /\ UNCHANGED counted
     \/ /\ ~ShouldEvictWorker(consecutiveFailures[w] + 1)
        /\ phase' = [phase EXCEPT ![w] = "suspected"]
        /\ counted' = [counted EXCEPT ![w] = Gone]
        /\ UNCHANGED <<queue, failures, evicted, item, failedHere>>
  /\ UNCHANGED <<retired, unreachable, status, reported>>

(* The probe came back, or did not.  retireIfDegraded counts silences in a *)
(* row; shouldRetireWorker decides with the counts the probe started with. *)
Streak(w, reachable) ==
  IF reachable THEN 0
  ELSE IF unreachable[w] < UNREACHABLE_PROBES_BEFORE_RETIRE THEN unreachable[w] + 1
  ELSE UNREACHABLE_PROBES_BEFORE_RETIRE

ShouldRetireWorker(w, reachable, degraded) ==
  /\ \/ Streak(w, reachable) >= UNREACHABLE_PROBES_BEFORE_RETIRE
     \/ reachable /\ degraded
  /\ WorkersStillWorking(counted[w]) > 1

Retires(w) ==
  /\ retired' = retired \cup {w}
  /\ phase' = [phase EXCEPT ![w] = "retired"]

(* After a success: nothing to hand back, nothing to record.               *)
Checked(w, reachable, degraded) ==
  /\ phase[w] = "checking"
  /\ unreachable' = [unreachable EXCEPT ![w] = Streak(w, reachable)]
  /\ \/ /\ ShouldRetireWorker(w, reachable, degraded)
        /\ Retires(w)
        /\ UNCHANGED <<queue, item>>
     \/ /\ ~ShouldRetireWorker(w, reachable, degraded)
        /\ TakeNext(w)
        /\ UNCHANGED retired
  /\ UNCHANGED <<failures, evicted, failedHere, consecutiveFailures, counted, status, reported>>

RecordFailure_Slip(w) ==
  /\ failedHere' = [failedHere EXCEPT ![w] = Append(@, item[w])]
  /\ failures' = failures \cup {[key |-> item[w], worker |-> w]}
  /\ reported' = reported \cup {item[w]}
  /\ UNCHANGED status

RecordFailure(w) ==
  /\ failedHere' = [failedHere EXCEPT ![w] = Append(@, item[w])]
  /\ failures' = failures \cup {[key |-> item[w], worker |-> w]}
  /\ status' = [status EXCEPT ![item[w]] = "failed"]
  /\ reported' = reported \cup {item[w]}

(* After a failure: retired, its work goes back; kept, the failure stands  *)
(* and the worker takes the next item.                                     *)
Suspected(w, reachable, degraded) ==
  /\ phase[w] = "suspected"
  /\ unreachable' = [unreachable EXCEPT ![w] = Streak(w, reachable)]
  /\ \/ /\ ShouldRetireWorker(w, reachable, degraded)
        /\ Retires(w)
        /\ RequeueFrom(w)
        /\ UNCHANGED <<status, reported>>
     \/ /\ ~ShouldRetireWorker(w, reachable, degraded)
        /\ RecordFailure(w)
        /\ TakeNext(w)
        /\ UNCHANGED retired
  /\ UNCHANGED <<evicted, consecutiveFailures, counted>>

(* What the probe may find: a pool whose isDegraded is a constant no hears *)
(* a reachable worker that is not degraded.                                *)
Probed(w) ==
  \E reachable, degraded \in BOOLEAN :
    /\ MayDegrade \/ (reachable /\ ~degraded)
    /\ Checked(w, reachable, degraded) \/ Suspected(w, reachable, degraded)

Step(w) ==
  \/ Prepared(w)
  \/ Unusable(w)
  \/ StartCase(w)
  \/ Captured(w)
  \/ Skipped(w)
  \/ Fails(w)
  \/ Probed(w)

Next == \E w \in Workers : Step(w)

(* prepare gives up after its deadline, a capture at its client's, and a   *)
(* probe after 15 s, so every await ends.                                  *)
Fairness == \A w \in Workers : WF_vars(Step(w))

Spec == Init /\ [][Next]_vars
FairSpec == Spec /\ Fairness

-----------------------------------------------------------------------------
(* Properties                                                              *)

Ended == \A w \in Workers : phase[w] \in Left

Queued == Range(queue)
InHand == {item[w] : w \in Workers} \ {None}
Recorded == {f.key : f \in failures}
Settled == {i \in Items : status[i] \in {"captured", "skipped"}}

(* requeueFrom against drainWithWorker: at every moment each item is in    *)
(* exactly one place, once: in the queue, in one worker's hands, failed    *)
(* with one record, or settled.  An item handed back with its record left  *)
(* standing would be captured and counted as failed; one handed back twice *)
(* would be captured twice.                                                *)
OncePerPlace ==
  /\ IsInjective(queue)
  /\ \A v, w \in Workers : item[v] = item[w] /\ item[v] # None => v = w
  /\ \A f, g \in failures : f.key = g.key => f = g

OnePlaceOnly ==
  /\ Queued \cap InHand = {}
  /\ Queued \cap Recorded = {}
  /\ Queued \cap Settled = {}
  /\ InHand \cap Recorded = {}
  /\ InHand \cap Settled = {}
  /\ Recorded \cap Settled = {}
  /\ Queued \cup InHand \cup Recorded \cup Settled = Items

OnePlace == OncePerPlace /\ OnePlaceOnly

(* The blame list and the streak are two accounts of the same run of       *)
(* failures, kept by different statements: they agree at every await, so   *)
(* an eviction hands back exactly the streak that caused it, and each item *)
(* blamed still has this worker's record to drop.                          *)
BlameIsTheStreak ==
  \A w \in Workers : phase[w] \notin Left =>
    /\ consecutiveFailures[w] =
         Len(failedHere[w]) + (IF phase[w] = "suspected" THEN 1 ELSE 0)
    /\ IsInjective(failedHere[w])
    /\ \A i \in Range(failedHere[w]) : [key |-> i, worker |-> w] \in failures

(* The progress file a human watches never contradicts the accounting: a   *)
(* standing failure reads "failed", an item in hand never reads as         *)
(* finished, and a case reads "captured" only once it is.  (A "failed"     *)
(* whose record was dropped stays visible on purpose.)  The real-page      *)
(* run's own list misses none of them; it also keeps what was captured     *)
(* after all, which the code does not prevent.                             *)
ProgressAgrees ==
  /\ \A i \in Recorded : status[i] = "failed"
  /\ \A w \in Workers : phase[w] = "capturing" => status[item[w]] = "capturing"
  /\ \A i \in Items : status[i] = "capturing" => i \in InHand \cup Queued
  /\ \A i \in Items : i \in Recorded \/ status[i] = "failed" => i \in reported

(* Handing work back costs a worker, so the pool cannot pass it round for  *)
(* ever: every run ends.                                                   *)
RunEnds == <>Ended
=============================================================================
