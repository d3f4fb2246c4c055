------------------------ MODULE CaptureWorkerProofs ------------------------
(***************************************************************************)
(* The worker's slot, store, progress and breaker, for every set of        *)
(* connections and ids and every limit; and that the worker serves as      *)
(* CaptureService promises, but for its fairness.                          *)
(*                                                                         *)
(* They need one another.  That nobody else runs (SlotHeldByOne) is why    *)
(* ending a run may clear inFlight and mark just one entry as finished;    *)
(* the breaker's counter stays within its range only because a retry in    *)
(* progress began below the limit and no other run moved it since.         *)
(*                                                                         *)
(* The store keeps its bound because an entry that may not be evicted is   *)
(* running, at most one is, and of the others there is always an eldest.   *)
(* That is where the finiteness of the store comes in: the entries older   *)
(* than one shrink strictly from each to an elder of it.                   *)
(***************************************************************************)
EXTENDS CaptureWorker, FiniteSetTheorems, TLAPS

(* Only a retry begun below the limit is in progress.                      *)
BreakerClosedInRetry ==
  \A c \in Conns : req[c].phase = "retrying"
                     => consecutiveRecoveries < MAX_CONSECUTIVE_RECOVERIES

WorkerInv ==
  /\ TypeOK
  /\ SlotHeldByOne
  /\ RunningIsInFlight
  /\ ProgressIsLive
  /\ BreakerClosedInRetry

-----------------------------------------------------------------------------
(* The store's operations.                                                 *)

(* Deleting entries keeps a store a store, and touches nothing else.       *)
LEMMA DropFacts ==
  ASSUME NEW s \in Stores, NEW V
  PROVE  /\ Drop(s, V) \in Stores
         /\ Running(Drop(s, V)) = Running(s) \ V
BY DEF Drop, Stores, Running, Entries

(* Eviction (evictOldestDone) never drops a running capture.               *)
LEMMA EvictFacts ==
  ASSUME NEW s \in Stores
  PROVE  /\ EvictOldestDone(s) \in Stores
         /\ Running(EvictOldestDone(s)) = Running(s)
<1> DEFINE excess == Cardinality(Held(s)) - RESULT_HISTORY
           rank(i) == Cardinality({j \in Done(s) : <<j, i>> \in s.older})
           victims == {i \in Done(s) : rank(i) < excess}
<1>1. EvictOldestDone(s) = Drop(s, victims)
  BY DEF EvictOldestDone
<1>2. Running(s) \ victims = Running(s)
  BY DEF Done
<1> HIDE DEF victims
<1>3. Drop(s, victims) \in Stores /\ Running(Drop(s, victims)) = Running(s) \ victims
  BY DropFacts
<1>4. QED
  BY <1>1, <1>2, <1>3

LEMMA PutFacts ==
  ASSUME NEW s \in Stores, NEW id \in Ids, NEW e \in Entries \ {"absent"}
  PROVE  /\ Put(s, id, e) \in Stores
         /\ Running(Put(s, id, e)) =
              IF e = "running" THEN Running(s) \cup {id} ELSE Running(s) \ {id}
<1>1. Held(s) \subseteq Ids
  BY DEF Held
<1>2. Put(s, id, e) \in Stores
  BY <1>1 DEF Put, Stores
<1>3. Running(Put(s, id, e)) =
        IF e = "running" THEN Running(s) \cup {id} ELSE Running(s) \ {id}
  BY DEF Put, Stores, Running
<1>4. QED
  BY <1>2, <1>3

(* begin: the new capture joins the running ones, and no other leaves.     *)
LEMMA BeginFacts ==
  ASSUME NEW s \in Stores, NEW id \in Ids
  PROVE  /\ Begin(s, id) \in Stores
         /\ Running(Begin(s, id)) = Running(s) \cup {id}
<1>1. /\ Drop(s, {id}) \in Stores
      /\ Running(Drop(s, {id})) = Running(s) \ {id}
  BY DropFacts
<1>2. "running" \in Entries \ {"absent"}
  BY DEF Entries
<1>3. /\ Put(Drop(s, {id}), id, "running") \in Stores
      /\ Running(Put(Drop(s, {id}), id, "running")) = (Running(s) \ {id}) \cup {id}
  BY <1>1, <1>2, PutFacts
<1>4. QED
  BY <1>3, EvictFacts DEF Begin, Running

(* finish: the capture leaves the running ones, and no other does.         *)
LEMMA FinishFacts ==
  ASSUME NEW s \in Stores, NEW id \in Ids, NEW a \in Answers
  PROVE  /\ Finish(s, id, a) \in Stores
         /\ Running(Finish(s, id, a)) = Running(s) \ {id}
<1>1. a \in Entries \ {"absent"} /\ a # "running"
  BY DEF Entries, Answers, Faults, Recoverable
<1>2. /\ Put(s, id, a) \in Stores
      /\ Running(Put(s, id, a)) = Running(s) \ {id}
  BY <1>1, PutFacts
<1>3. QED
  BY <1>2, EvictFacts DEF Finish

-----------------------------------------------------------------------------
(* The bound on the store.  Eviction takes the oldest finished entries,    *)
(* and there is an oldest because the insertion order is a strict order:   *)
(* that, and not the counting, is what the bound rests on.                 *)

StoreOrdered(s) ==
  /\ s.older \subseteq Held(s) \X Held(s)
  /\ \A i \in Ids : <<i, i>> \notin s.older
  /\ \A i, j, k \in Ids : <<i, j>> \in s.older /\ <<j, k>> \in s.older => <<i, k>> \in s.older
  /\ \A i, j \in Held(s) : i = j \/ <<i, j>> \in s.older \/ <<j, i>> \in s.older

StoreSmall(s) ==
  /\ IsFiniteSet(Held(s))
  /\ Cardinality(Held(s)) <= RESULT_HISTORY

LEMMA DropOrder ==
  ASSUME NEW s \in Stores, StoreOrdered(s), NEW V
  PROVE  /\ StoreOrdered(Drop(s, V))
         /\ Held(Drop(s, V)) = Held(s) \ V
<1>1. Held(Drop(s, V)) = Held(s) \ V
  BY DEF Drop, Held
<1>2. Drop(s, V).older = {p \in s.older : p[1] \notin V /\ p[2] \notin V}
  BY DEF Drop
<1>3. s.older \subseteq Held(s) \X Held(s)
  BY DEF StoreOrdered
<1>4. Drop(s, V).older \subseteq Held(Drop(s, V)) \X Held(Drop(s, V))
  BY <1>1, <1>2, <1>3
<1>5. \A i, j \in Ids : <<i, j>> \in Drop(s, V).older
                          <=> <<i, j>> \in s.older /\ i \notin V /\ j \notin V
  BY <1>2
<1>6. \A i, j \in Held(Drop(s, V)) :
        i = j \/ <<i, j>> \in Drop(s, V).older \/ <<j, i>> \in Drop(s, V).older
  BY <1>1, <1>5 DEF StoreOrdered, Held
<1>7. QED
  BY <1>1, <1>4, <1>5, <1>6 DEF StoreOrdered

LEMMA PutOrder ==
  ASSUME NEW s \in Stores, StoreOrdered(s), NEW id \in Ids, NEW e \in Entries \ {"absent"}
  PROVE  /\ StoreOrdered(Put(s, id, e))
         /\ Held(Put(s, id, e)) = Held(s) \cup {id}
<1> DEFINE t == Put(s, id, e)
<1>1. Held(t) = Held(s) \cup {id}
  BY DEF Put, Held, Stores
<1>2. Held(s) \subseteq Ids
  BY DEF Held
<1>3. CASE id \in Held(s)
  <2>1. t.older = s.older /\ Held(t) = Held(s)
    BY <1>1, <1>3 DEF Put
  <2>2. QED
    BY <1>1, <2>1 DEF StoreOrdered
<1>4. CASE id \notin Held(s)
  <2>1. t.older = s.older \cup (Held(s) \X {id})
    BY <1>4 DEF Put
  <2>2. s.older \subseteq Held(s) \X Held(s)
    BY DEF StoreOrdered
  <2>3. t.older \subseteq Held(t) \X Held(t)
    BY <1>1, <2>1, <2>2
  <2>4. \A i, j \in Ids : <<i, j>> \in t.older <=> <<i, j>> \in s.older \/ (i \in Held(s) /\ j = id)
    BY <2>1
  <2>5. \A i, j \in Ids : <<i, j>> \in s.older => i \in Held(s) /\ j \in Held(s)
    BY <2>2
  <2> HIDE DEF t
  <2>6. \A i \in Ids : <<i, i>> \notin t.older
    BY <1>4, <2>4 DEF StoreOrdered
  <2>7. ASSUME NEW i \in Ids, NEW j \in Ids, NEW k \in Ids,
               <<i, j>> \in t.older, <<j, k>> \in t.older
        PROVE  <<i, k>> \in t.older
    <3>1. j \in Held(s)
      BY <2>4, <2>5, <2>7, <1>4
    <3>2. <<i, j>> \in s.older
      BY <2>4, <2>7, <3>1, <1>4
    <3>3. CASE <<j, k>> \in s.older
      BY <3>2, <3>3, <2>4 DEF StoreOrdered
    <3>4. CASE k = id
      BY <3>2, <3>4, <2>4, <2>5
    <3>5. QED
      BY <2>4, <2>7, <3>3, <3>4
  <2>8. \A i, j \in Held(t) : i = j \/ <<i, j>> \in t.older \/ <<j, i>> \in t.older
    BY <1>1, <1>2, <2>4 DEF StoreOrdered
  <2>10. StoreOrdered(t)
    BY <2>3, <2>6, <2>7, <2>8 DEF StoreOrdered
  <2>9. QED
    BY <1>1, <2>10 DEF t
<1>5. QED
  BY <1>3, <1>4

(* A finite, nonempty set of entries has an oldest: one whose set of       *)
(* elders is minimal, for an elder's elders are fewer.                     *)
LEMMA OldestExists ==
  ASSUME NEW s \in Stores, StoreOrdered(s),
         NEW D \in SUBSET Ids, IsFiniteSet(D), D # {}
  PROVE  \E i \in D : \A j \in D : <<j, i>> \notin s.older
<1> DEFINE elders(i) == {j \in D : <<j, i>> \in s.older}
           E == {elders(i) : i \in D}
<1>1. IsWellFoundedOn(StrictSubsetOrdering(D), FiniteSubsetsOf(D))
  BY FS_StrictSubsetOrderingWellFounded
<1>2. FiniteSubsetsOf(D) = SUBSET D
  BY FS_FiniteSubsetsOfFinite
<1>3. E \subseteq FiniteSubsetsOf(D) /\ E # {}
  <2>1. \A i \in D : elders(i) \in SUBSET D
    OBVIOUS
  <2> HIDE DEF elders
  <2>2. QED
    BY <1>2, <2>1
<1> HIDE DEF E
<1>4. PICK x \in E : \A y \in E : <<y, x>> \notin StrictSubsetOrdering(D)
  BY <1>1, <1>3, WFMin
<1>5. PICK i \in D : x = elders(i)
  BY DEF E
<1>6. ASSUME NEW j \in D, <<j, i>> \in s.older
      PROVE  FALSE
  <2>1. elders(j) \in E
    BY DEF E
  <2>2. elders(j) \subseteq elders(i)
    BY <1>6 DEF StoreOrdered
  <2>3. j \in elders(i) /\ j \notin elders(j)
    BY <1>6 DEF StoreOrdered
  <2>4. <<elders(j), elders(i)>> \in StrictSubsetOrdering(D)
    BY <2>2, <2>3 DEF StrictSubsetOrdering
  <2>5. QED
    BY <1>4, <1>5, <2>1, <2>4
<1>7. QED
  BY <1>6

(* Eviction is idle up to the bound, and makes room one above it.          *)
LEMMA EvictIdle ==
  ASSUME NEW s \in Stores, StoreSmall(s)
  PROVE  EvictOldestDone(s) = s
<1> DEFINE excess == Cardinality(Held(s)) - RESULT_HISTORY
           rank(i) == Cardinality({j \in Done(s) : <<j, i>> \in s.older})
           victims == {i \in Done(s) : rank(i) < excess}
<1>1. EvictOldestDone(s) = Drop(s, victims)
  BY DEF EvictOldestDone
<1>2. Cardinality(Held(s)) \in Nat /\ excess <= 0
  BY FS_CardinalityType, HistoryAssumption DEF StoreSmall
<1>3. ASSUME NEW i \in Done(s) PROVE rank(i) \in Nat
  <2>1. {j \in Done(s) : <<j, i>> \in s.older} \in SUBSET Held(s)
    BY DEF Done
  <2>2. QED
    BY <2>1, FS_Subset, FS_CardinalityType DEF StoreSmall
<1> HIDE DEF rank
<1>4. victims = {}
  BY <1>2, <1>3, HistoryAssumption
<1> HIDE DEF victims
<1>5. Drop(s, victims) = s
  BY <1>4 DEF Drop, Stores
<1>6. QED
  BY <1>1, <1>5

LEMMA EvictMakesRoom ==
  ASSUME NEW s \in Stores, StoreOrdered(s), IsFiniteSet(Held(s)),
         Cardinality(Held(s)) = RESULT_HISTORY + 1, Done(s) # {}
  PROVE  StoreSmall(EvictOldestDone(s))
<1> DEFINE excess == Cardinality(Held(s)) - RESULT_HISTORY
           rank(i) == Cardinality({j \in Done(s) : <<j, i>> \in s.older})
           victims == {i \in Done(s) : rank(i) < excess}
<1>1. EvictOldestDone(s) = Drop(s, victims) /\ excess = 1
  BY HistoryAssumption DEF EvictOldestDone
<1>2. Done(s) \in SUBSET Held(s) /\ Done(s) \in SUBSET Ids
  BY DEF Done, Held
<1>3. IsFiniteSet(Done(s))
  BY <1>2, FS_Subset
<1>4. PICK i \in Done(s) : \A j \in Done(s) : <<j, i>> \notin s.older
  BY <1>2, <1>3, OldestExists
<1>5. {j \in Done(s) : <<j, i>> \in s.older} = {}
  BY <1>4
<1>6. rank(i) = 0
  BY <1>5, FS_EmptySet
<1>7. i \in victims
  BY <1>1, <1>6
<1> HIDE DEF victims
<1>8. Held(Drop(s, victims)) = Held(s) \ victims
  BY DropOrder
<1>9. Held(s) \ victims \in SUBSET (Held(s) \ {i})
  BY <1>7
<1>10. IsFiniteSet(Held(s) \ {i}) /\ Cardinality(Held(s) \ {i}) = RESULT_HISTORY
  <2>1. i \in Held(s)
    BY <1>2
  <2>2. /\ IsFiniteSet(Held(s) \ {i})
        /\ Cardinality(Held(s) \ {i}) = Cardinality(Held(s)) - 1
    BY <2>1, FS_RemoveElement
  <2>3. QED
    BY <2>2, HistoryAssumption
<1>11. /\ IsFiniteSet(Held(s) \ victims)
       /\ Cardinality(Held(s) \ victims) <= RESULT_HISTORY
  BY <1>9, <1>10, FS_Subset
<1>12. QED
  BY <1>1, <1>8, <1>11 DEF StoreSmall

(* begin, with nothing running: at most one above the bound before         *)
(* eviction, and then something finished is there to go.                   *)
LEMMA BeginBound ==
  ASSUME NEW s \in Stores, StoreOrdered(s), StoreSmall(s), Running(s) = {},
         NEW id \in Ids
  PROVE  StoreOrdered(Begin(s, id)) /\ StoreSmall(Begin(s, id))
<1> DEFINE d == Drop(s, {id})
           p == Put(d, id, "running")
<1>1. "running" \in Entries \ {"absent"}
  BY DEF Entries
<1>2. d \in Stores /\ StoreOrdered(d) /\ Held(d) = Held(s) \ {id} /\ Running(d) = {}
  BY DropFacts, DropOrder
<1> HIDE DEF d
<1>3. p \in Stores /\ StoreOrdered(p) /\ Held(p) = Held(s) \cup {id} /\ Running(p) = {id}
  BY <1>1, <1>2, PutFacts, PutOrder
<1>4. Begin(s, id) = EvictOldestDone(p)
  BY DEF Begin, d
<1> HIDE DEF p
<1>5. StoreOrdered(EvictOldestDone(p))
  BY <1>3, DropOrder DEF EvictOldestDone
<1>6. /\ IsFiniteSet(Held(p))
      /\ Cardinality(Held(p)) \in Nat
      /\ Cardinality(Held(p)) <= RESULT_HISTORY + 1
  BY <1>3, FS_AddElement, FS_CardinalityType, HistoryAssumption DEF StoreSmall
<1>7. StoreSmall(EvictOldestDone(p))
  <2>1. CASE Cardinality(Held(p)) <= RESULT_HISTORY
    BY <1>3, <1>6, <2>1, EvictIdle DEF StoreSmall
  <2>2. CASE Cardinality(Held(p)) = RESULT_HISTORY + 1
    <3>1. Held(p) # {id}
      <4>1. Cardinality({id}) = 1
        BY FS_Singleton
      <4>2. QED
        BY <2>2, <4>1, HistoryAssumption
    <3>2. Done(p) # {}
      BY <1>3, <3>1 DEF Done
    <3>3. QED
      BY <1>3, <1>6, <2>2, <3>2, EvictMakesRoom
  <2>3. QED
    BY <1>6, <2>1, <2>2, HistoryAssumption
<1>8. QED
  BY <1>4, <1>5, <1>7

(* finish of the running entry: nothing is evicted, so the answer is there *)
(* to be replayed, and every other entry as it was.                        *)
LEMMA FinishBound ==
  ASSUME NEW s \in Stores, StoreOrdered(s), StoreSmall(s),
         NEW id \in Running(s), NEW a \in Answers
  PROVE  /\ StoreOrdered(Finish(s, id, a)) /\ StoreSmall(Finish(s, id, a))
         /\ Finish(s, id, a).entry = [s.entry EXCEPT ![id] = a]
         /\ Finish(s, id, a).older = s.older
<1>1. id \in Ids /\ id \in Held(s)
  BY DEF Running, Held
<1>2. a \in Entries \ {"absent"}
  BY DEF Entries, Answers, Faults, Recoverable
<1>3. /\ Put(s, id, a) \in Stores
      /\ StoreOrdered(Put(s, id, a))
      /\ Held(Put(s, id, a)) = Held(s)
  <2>1. Put(s, id, a) \in Stores
    BY <1>1, <1>2, PutFacts
  <2>2. StoreOrdered(Put(s, id, a)) /\ Held(Put(s, id, a)) = Held(s) \cup {id}
    BY <1>1, <1>2, PutOrder
  <2>3. QED
    BY <1>1, <2>1, <2>2
<1>4. StoreSmall(Put(s, id, a))
  BY <1>3 DEF StoreSmall
<1>5. Finish(s, id, a) = Put(s, id, a)
  BY <1>3, <1>4, EvictIdle DEF Finish
<1>6. /\ Put(s, id, a).entry = [s.entry EXCEPT ![id] = a]
      /\ Put(s, id, a).older = s.older
  BY <1>1 DEF Put
<1>7. QED
  BY <1>3, <1>4, <1>5, <1>6

-----------------------------------------------------------------------------
(* The end of a run, common to four actions.                               *)

LEMMA EndFacts ==
  ASSUME WorkerInv, NEW c \in Conns, c \in Runs,
         NEW a \in Answers, AnswerAndRelease(c, a)
  PROVE  /\ busy' = FALSE
         /\ req' \in [Conns -> Requests]
         /\ store' \in Stores
         /\ \A d \in Conns : req'[d].phase = "idle"
         /\ inFlight' = None
         /\ Running(store') = {}
<1>1. c \in Runners
  BY DEF Runs, Runners, RunPhases
<1>2. \A d \in Conns : d # c => req[d].phase = "idle"
  BY <1>1 DEF WorkerInv, SlotHeldByOne, Runners
<1>3. Runs = {c}
  BY <1>2 DEF Runs, RunPhases
<1>4. req[c] \in Requests
  BY DEF WorkerInv, TypeOK
<1>5. req' \in [Conns -> Requests] /\ \A d \in Conns : req'[d].phase = "idle"
  BY <1>2, <1>4 DEF WorkerInv, TypeOK, AnswerAndRelease, Requests, Replies
<1>6. Running(store) = {req[c].id} \ {None}
  BY <1>3 DEF WorkerInv, RunningIsInFlight
<1>7. store' \in Stores /\ Running(store') = {}
  <2>1. CASE req[c].id = None
    BY <2>1, <1>6 DEF AnswerAndRelease, WorkerInv, TypeOK
  <2>2. CASE req[c].id # None
    <3>1. req[c].id \in Ids
      BY <2>2, <1>4 DEF Requests
    <3>2. store' = Finish(store, req[c].id, a)
      BY <2>2 DEF AnswerAndRelease
    <3>3. store \in Stores
      BY DEF WorkerInv, TypeOK
    <3>4. QED
      BY <3>1, <3>2, <3>3, <1>6, FinishFacts
  <2>3. QED
    BY <2>1, <2>2
<1>8. QED
  BY <1>5, <1>7 DEF AnswerAndRelease

(* With no request alive and nothing running, the relational invariants    *)
(* hold trivially.                                                         *)
Quiet ==
  /\ busy = FALSE
  /\ inFlight = None
  /\ Running(store) = {}
  /\ \A d \in Conns : req[d].phase = "idle"

RelationalInv ==
  SlotHeldByOne /\ RunningIsInFlight /\ ProgressIsLive /\ BreakerClosedInRetry

LEMMA QuietFacts == Quiet => RelationalInv
<1> SUFFICES ASSUME Quiet PROVE RelationalInv
  OBVIOUS
<1>1. Runners = {} /\ Runs = {}
  BY DEF Quiet, Runners, Runs, RunPhases
<1>2. QED
  BY <1>1 DEF Quiet, RelationalInv, SlotHeldByOne, RunningIsInFlight,
              ProgressIsLive, BreakerClosedInRetry

LEMMA QuietNextFacts == Quiet' => RelationalInv'
BY QuietFacts, PTL

-----------------------------------------------------------------------------
THEOREM InitInv == Init => WorkerInv
<1> SUFFICES ASSUME Init PROVE WorkerInv
  OBVIOUS
<1> USE DEF Init
<1>1. TypeOK
  <2>1. req \in [Conns -> Requests]
    BY DEF Idle, Requests, Replies
  <2>2. store \in Stores
    BY DEF EmptyStore, Stores, Entries
  <2>3. /\ consecutiveRecoveries \in 0 .. MAX_CONSECUTIVE_RECOVERIES
        /\ warm \in [ok : BOOLEAN, warming : BOOLEAN, attempts : 0 .. MAX_WARM_ATTEMPTS]
        /\ streak \in [restarts : Nat, failures : Nat]
    BY LimitsAssumption DEF NoStreak
  <2>4. QED
    BY <2>1, <2>2, <2>3 DEF TypeOK
<1>2. Running(store) = {}
  BY DEF EmptyStore, Running
<1>3. \A d \in Conns : req[d].phase = "idle"
  BY DEF Idle
<1>4. QED
  BY <1>1, <1>2, <1>3, QuietFacts DEF WorkerInv, Quiet, RelationalInv

(* One step per action of Next; the ends of a run share EndFacts.          *)
THEOREM StepInv == WorkerInv /\ [Next]_vars => WorkerInv'
<1> SUFFICES ASSUME WorkerInv, [Next]_vars PROVE WorkerInv'
  OBVIOUS
<1> USE DEF WorkerInv
<1>0. ASSUME NEW c \in Conns, req[c].phase # "idle"
      PROVE  busy /\ \A d \in Conns : d # c => req[d].phase = "idle"
  BY <1>0 DEF SlotHeldByOne, Runners
<1>1. ASSUME NEW c \in Conns, Claim(c) PROVE WorkerInv'
  <2>1. \A d \in Conns : req[d].phase = "idle"
    BY <1>1 DEF Claim, SlotHeldByOne, Runners
  <2>2. req' \in [Conns -> Requests]
    BY <1>1 DEF Claim, TypeOK, Idle, Requests, Replies
  <2>3. req'[c].phase = "reading" /\ \A d \in Conns : d # c => req'[d].phase = "idle"
    BY <1>1, <2>1 DEF Claim, TypeOK, Idle
  <2>4. Runners' = {c} /\ Runs' = {} /\ Runs = {}
    BY <2>1, <2>3 DEF Runners, Runs, RunPhases
  <2>5. TypeOK'
    BY <1>1, <2>2 DEF Claim, TypeOK
  <2>6. SlotHeldByOne' /\ ProgressIsLive'
    BY <1>1, <2>4 DEF Claim, SlotHeldByOne, ProgressIsLive
  <2>7. RunningIsInFlight'
    BY <1>1, <2>4 DEF Claim, RunningIsInFlight, Running
  <2>8. BreakerClosedInRetry'
    BY <2>3 DEF BreakerClosedInRetry
  <2>9. QED
    BY <2>5, <2>6, <2>7, <2>8
<1>2. ASSUME NEW c \in Conns, Refuse(c) PROVE WorkerInv'
  <2>1. req' \in [Conns -> Requests]
    BY <1>2 DEF Refuse, TypeOK, Idle, Requests, Replies
  <2>2. \A d \in Conns : req'[d].phase = req[d].phase
    BY <1>2 DEF Refuse, TypeOK, Idle
  <2>3. \A d \in Conns : req[d].phase # "idle" => req'[d] = req[d]
    BY <1>2 DEF Refuse, TypeOK
  <2>4. Runners' = Runners /\ Runs' = Runs
    BY <2>2 DEF Runners, Runs
  <2>5. TypeOK'
    BY <1>2, <2>1 DEF Refuse, TypeOK
  <2>6. SlotHeldByOne' /\ ProgressIsLive'
    BY <1>2, <2>4 DEF Refuse, SlotHeldByOne, ProgressIsLive
  <2>7. \A d \in Runs : req'[d].id = req[d].id
    BY <2>3 DEF Runs, RunPhases
  <2>8. RunningIsInFlight'
    BY <1>2, <2>4, <2>7 DEF Refuse, RunningIsInFlight, Running
  <2>9. BreakerClosedInRetry'
    BY <1>2, <2>2 DEF Refuse, BreakerClosedInRetry
  <2>10. QED
    BY <2>5, <2>6, <2>8, <2>9
<1>3. ASSUME NEW c \in Conns, Abandon(c) \/ Reject(c) PROVE WorkerInv'
  <2>1. req[c].phase = "reading" /\ busy' = FALSE
        /\ UNCHANGED <<inFlight, store, worked, consecutiveRecoveries, streak, warm>>
    BY <1>3 DEF Abandon, Reject
  <2>2. \A d \in Conns : d # c => req[d].phase = "idle"
    BY <1>0, <2>1
  <2>3. \E r \in Requests : r.phase = "idle" /\ req' = [req EXCEPT ![c] = r]
    <3>1. Idle \in Requests /\ [Idle EXCEPT !.reply = "refused"] \in Requests
      BY DEF Idle, Requests, Replies
    <3>2. QED
      BY <1>3, <3>1 DEF Abandon, Reject, Idle
  <2>3a. req' \in [Conns -> Requests] /\ \A d \in Conns : req'[d].phase = "idle"
    BY <2>2, <2>3 DEF TypeOK
  <2>4. Runs = {}
    BY <2>1, <2>2 DEF Runs, RunPhases
  <2>5. Running(store') = {} /\ inFlight' = None
    BY <2>1, <2>4 DEF RunningIsInFlight, ProgressIsLive, Running
  <2>6. TypeOK'
    BY <2>1, <2>3a DEF TypeOK
  <2>7. QED
    BY <2>1, <2>3a, <2>5, <2>6, QuietNextFacts DEF Quiet, RelationalInv
<1>4. ASSUME NEW c \in Conns, AcceptAny(c) PROVE WorkerInv'
  <2>1. PICK id \in Ids \cup {None}, async \in BOOLEAN : Accept(c, id, async)
    BY <1>4 DEF AcceptAny
  <2>2. req[c].phase = "reading" /\ busy
        /\ \A d \in Conns : d # c => req[d].phase = "idle"
    BY <1>0, <2>1 DEF Accept
  <2>3. Runs = {} /\ Running(store) = {}
    BY <2>2 DEF Runs, RunPhases, RunningIsInFlight
  <2>4. /\ req' \in [Conns -> Requests]
        /\ req'[c].phase = "preparing" /\ req'[c].id = id
        /\ \A d \in Conns : d # c => req'[d].phase = "idle"
    BY <2>1, <2>2 DEF Accept, TypeOK, Requests, Replies, RunPhases
  <2>5. Runs' = {c} /\ Runners' = {c}
    BY <2>4 DEF Runs, Runners, RunPhases
  <2>6. store' \in Stores /\ Running(store') = {id} \ {None}
    <3>1. CASE id = None
      BY <2>1, <2>3, <3>1 DEF Accept, TypeOK
    <3>2. CASE id # None
      BY <2>1, <2>3, <3>2, BeginFacts DEF Accept, TypeOK
    <3>3. QED
      BY <3>1, <3>2
  <2>7. TypeOK'
    BY <2>1, <2>4, <2>6 DEF Accept, TypeOK
  <2>8. SlotHeldByOne' /\ ProgressIsLive'
    BY <2>1, <2>2, <2>5, NoneAssumption DEF Accept, SlotHeldByOne, ProgressIsLive
  <2>9. RunningIsInFlight'
    BY <2>4, <2>5, <2>6 DEF RunningIsInFlight
  <2>10. BreakerClosedInRetry'
    BY <2>4 DEF BreakerClosedInRetry
  <2>11. QED
    BY <2>7, <2>8, <2>9, <2>10
<1>5. ASSUME NEW c \in Conns,
             Prepared(c) \/ \E fault \in Faults : Recover(c, fault)
      PROVE  WorkerInv'
  <2>1. /\ req[c].phase \in {"preparing", "capturing"}
        /\ \E p \in {"capturing", "retrying"} :
             /\ req' = [req EXCEPT ![c].phase = p]
             /\ p = "retrying" => consecutiveRecoveries < MAX_CONSECUTIVE_RECOVERIES
        /\ UNCHANGED <<busy, inFlight, store, worked, consecutiveRecoveries, warm>>
    BY <1>5 DEF Prepared, Recover, LocallyRecovers
  <2>0. streak' \in [restarts : Nat, failures : Nat]
    BY <1>5 DEF Prepared, Recover, TypeOK
  <2>2. busy /\ \A d \in Conns : d # c => req[d].phase = "idle"
    BY <1>0, <2>1
  <2>3. /\ req' \in [Conns -> Requests]
        /\ req'[c].phase \in {"capturing", "retrying"} /\ req'[c].id = req[c].id
        /\ \A d \in Conns : d # c => req'[d].phase = "idle"
    BY <2>1, <2>2 DEF TypeOK, Requests, RunPhases
  <2>4. Runs = {c} /\ Runs' = {c} /\ Runners = {c} /\ Runners' = {c}
    BY <2>1, <2>2, <2>3 DEF Runs, Runners, RunPhases
  <2>5. TypeOK'
    BY <2>0, <2>1, <2>3 DEF TypeOK
  <2>6. SlotHeldByOne' /\ ProgressIsLive'
    BY <2>1, <2>2, <2>4 DEF SlotHeldByOne, ProgressIsLive
  <2>7. RunningIsInFlight'
    BY <2>1, <2>3, <2>4 DEF RunningIsInFlight, Running
  <2>8. BreakerClosedInRetry'
    BY <2>1, <2>3 DEF BreakerClosedInRetry, TypeOK
  <2>9. QED
    BY <2>5, <2>6, <2>7, <2>8
<1>6. ASSUME NEW c \in Conns, CaptureSucceeds(c) \/ RetrySucceeds(c)
      PROVE  WorkerInv'
  <2>1. /\ c \in Runs /\ AnswerAndRelease(c, "ok") /\ warm' = warm
        /\ "ok" \in Answers
    BY <1>6 DEF CaptureSucceeds, RetrySucceeds, Runs, RunPhases, Answers
  <2>2. /\ worked' \in Nat
        /\ consecutiveRecoveries' \in 0 .. MAX_CONSECUTIVE_RECOVERIES
        /\ streak' \in [restarts : Nat, failures : Nat]
    <3>1. CASE CaptureSucceeds(c)
      BY <3>1, LimitsAssumption DEF CaptureSucceeds, TypeOK, NoStreak
    <3>2. CASE RetrySucceeds(c)
      BY <3>2, LimitsAssumption DEF RetrySucceeds, TypeOK, BreakerClosedInRetry
    <3>3. QED
      BY <1>6, <3>1, <3>2
  <2>3. Quiet' /\ store' \in Stores /\ req' \in [Conns -> Requests]
    BY <2>1, EndFacts DEF Quiet
  <2>4. TypeOK'
    BY <2>1, <2>2, <2>3 DEF TypeOK, Quiet
  <2>5. QED
    BY <2>3, <2>4, QuietNextFacts DEF RelationalInv
<1>7. ASSUME NEW c \in Conns, NEW fault \in Faults, CaptureFails(c, fault)
      PROVE  WorkerInv'
  <2>1. /\ c \in Runs /\ AnswerAndRelease(c, fault)
        /\ fault \in Answers
        /\ UNCHANGED <<consecutiveRecoveries, warm>>
    BY <1>7 DEF CaptureFails, Runs, RunPhases, Answers
  <2>2. worked' \in Nat /\ streak' \in [restarts : Nat, failures : Nat]
    BY <1>7 DEF CaptureFails, TypeOK
  <2>3. Quiet' /\ store' \in Stores /\ req' \in [Conns -> Requests]
    BY <2>1, EndFacts DEF Quiet
  <2>4. TypeOK'
    BY <2>1, <2>2, <2>3 DEF TypeOK, Quiet
  <2>5. QED
    BY <2>3, <2>4, QuietNextFacts DEF RelationalInv
<1>8. ASSUME WarmUpOnceIfNeeded \/ \E ok \in BOOLEAN : WarmUpEnds(ok)
      PROVE  WorkerInv'
  <2>1. UNCHANGED <<busy, req, inFlight, store, worked, consecutiveRecoveries, streak>>
    BY <1>8 DEF WarmUpOnceIfNeeded, WarmUpEnds
  <2>2. warm' \in [ok : BOOLEAN, warming : BOOLEAN, attempts : 0 .. MAX_WARM_ATTEMPTS]
    <3>1. CASE WarmUpOnceIfNeeded
      <4>1. warm.attempts + 1 \in 0 .. MAX_WARM_ATTEMPTS
        BY <3>1, LimitsAssumption DEF WarmUpOnceIfNeeded, TypeOK
      <4>2. QED
        BY <3>1, <4>1 DEF WarmUpOnceIfNeeded, TypeOK
    <3>2. ASSUME NEW ok \in BOOLEAN, WarmUpEnds(ok)
          PROVE  warm' \in [ok : BOOLEAN, warming : BOOLEAN,
                            attempts : 0 .. MAX_WARM_ATTEMPTS]
      <4>1. (IF ok THEN 0 ELSE warm.attempts) \in 0 .. MAX_WARM_ATTEMPTS
        BY LimitsAssumption DEF TypeOK
      <4>2. QED
        BY <3>2, <4>1 DEF WarmUpEnds
    <3>3. QED
      BY <1>8, <3>1, <3>2
  <2>3. QED
    BY <2>1, <2>2 DEF TypeOK, SlotHeldByOne, RunningIsInFlight, ProgressIsLive,
         BreakerClosedInRetry, Runners, Runs, Running
<1>9. ASSUME Restart PROVE WorkerInv'
  <2>1. TypeOK'
    <3>1. req' \in [Conns -> Requests]
      BY <1>9 DEF Restart, Idle, Requests, Replies
    <3>2. store' \in Stores
      BY <1>9 DEF Restart, EmptyStore, Stores, Entries
    <3>3. /\ consecutiveRecoveries' \in 0 .. MAX_CONSECUTIVE_RECOVERIES
          /\ warm' \in [ok : BOOLEAN, warming : BOOLEAN, attempts : 0 .. MAX_WARM_ATTEMPTS]
          /\ streak' \in [restarts : Nat, failures : Nat]
      BY <1>9, LimitsAssumption DEF Restart, NoStreak
    <3>4. QED
      BY <1>9, <3>1, <3>2, <3>3 DEF Restart, TypeOK
  <2>2. Quiet'
    BY <1>9 DEF Restart, Quiet, Idle, EmptyStore, Running
  <2>3. QED
    BY <2>1, <2>2, QuietNextFacts DEF RelationalInv
<1>10. ASSUME UNCHANGED vars PROVE WorkerInv'
  BY <1>10 DEF vars, TypeOK, SlotHeldByOne, RunningIsInFlight, ProgressIsLive,
       BreakerClosedInRetry, Runners, Runs, Running
<1>11. QED
  BY <1>1, <1>2, <1>3, <1>4, <1>5, <1>6, <1>7, <1>8, <1>9, <1>10
  DEF Next, CaptureEnds

-----------------------------------------------------------------------------
THEOREM WorkerInvariant == Spec => []WorkerInv
BY InitInv, StepInv, PTL DEF Spec

(* Every variable of the worker stays in its range, the breaker's counter  *)
(* within the limit included.                                              *)
THEOREM TypeCorrect == Spec => []TypeOK
BY WorkerInvariant, PTL DEF WorkerInv

(* The slot is taken exactly while one single request is alive.            *)
THEOREM SlotIsExclusive == Spec => []SlotHeldByOne
BY WorkerInvariant, PTL DEF WorkerInv

(* The store says "running" of exactly the captures in progress.           *)
THEOREM NoForgottenRun == Spec => []RunningIsInFlight
BY WorkerInvariant, PTL DEF WorkerInv

(* /progress never describes a capture that is over.                       *)
THEOREM ProgressIsTruthful == Spec => []ProgressIsLive
BY WorkerInvariant, PTL DEF WorkerInv
-----------------------------------------------------------------------------
(* What a step does to the store, and to a run.                            *)

LEMMA RunFacts ==
  ASSUME WorkerInv, NEW c \in Runs
  PROVE  /\ Runs = {c} /\ Runners = {c} /\ busy
         /\ req[c] \in Requests
         /\ Running(store) = {req[c].id} \ {None}
         /\ req[c].id # None => req[c].id \in Running(store)
<1>1. c \in Runners /\ c \in Conns
  BY DEF Runs, Runners, RunPhases
<1>2. Runners = {c} /\ busy
  BY <1>1 DEF WorkerInv, SlotHeldByOne
<1>3. Runs = {c}
  BY <1>2 DEF Runs, Runners, RunPhases
<1>4. QED
  BY <1>1, <1>2, <1>3 DEF WorkerInv, RunningIsInFlight, TypeOK

LEMMA EndsAnswer ==
  ASSUME NEW c \in Conns, CaptureEnds(c)
  PROVE  \/ UNCHANGED <<busy, store>> /\ \E f \in Faults : Recover(c, f)
         \/ \E a \in Answers : c \in Runs /\ AnswerAndRelease(c, a)
<1>1. "ok" \in Answers /\ Faults \subseteq Answers
  BY DEF Answers
<1>2. CASE CaptureSucceeds(c) \/ RetrySucceeds(c)
  BY <1>1, <1>2 DEF CaptureSucceeds, RetrySucceeds, Runs, RunPhases
<1>3. ASSUME NEW f \in Faults, Recover(c, f)
      PROVE  UNCHANGED <<busy, store>> /\ \E g \in Faults : Recover(c, g)
  BY <1>3 DEF Recover
<1>4. ASSUME NEW f \in Faults, CaptureFails(c, f)
      PROVE  \E a \in Answers : c \in Runs /\ AnswerAndRelease(c, a)
  BY <1>1, <1>4 DEF CaptureFails, Runs, RunPhases
<1>5. QED
  BY <1>2, <1>3, <1>4 DEF CaptureEnds

LEMMA StoreSteps ==
  ASSUME WorkerInv, [Next]_vars
  PROVE  \/ store' = store
         \/ \E id \in Ids : Running(store) = {} /\ store' = Begin(store, id)
         \/ \E id \in Running(store), a \in Answers : store' = Finish(store, id, a)
         \/ store' = EmptyStore
<1>1. ASSUME NEW c \in Conns,
             Claim(c) \/ Refuse(c) \/ Abandon(c) \/ Reject(c) \/ Prepared(c)
      PROVE  store' = store
  BY <1>1 DEF Claim, Refuse, Abandon, Reject, Prepared
<1>2. ASSUME NEW c \in Conns, NEW id \in Ids \cup {None}, NEW async \in BOOLEAN,
             Accept(c, id, async)
      PROVE  store' = store \/ (id \in Ids /\ Running(store) = {} /\ store' = Begin(store, id))
  <2>1. c \in Runners /\ c \notin Runs
    BY <1>2 DEF Accept, Runners, Runs, RunPhases
  <2>2. Runs = {}
    BY <2>1 DEF WorkerInv, SlotHeldByOne, Runners, Runs, RunPhases
  <2>3. Running(store) = {}
    BY <2>2 DEF WorkerInv, RunningIsInFlight
  <2>4. QED
    BY <1>2, <2>3 DEF Accept
<1>3. ASSUME NEW c \in Conns, CaptureEnds(c)
      PROVE  \/ store' = store
             \/ \E id \in Running(store), a \in Answers : store' = Finish(store, id, a)
  <2>1. ASSUME NEW a \in Answers, c \in Runs, AnswerAndRelease(c, a), req[c].id # None
        PROVE  req[c].id \in Running(store) /\ store' = Finish(store, req[c].id, a)
    BY <2>1, RunFacts DEF AnswerAndRelease
  <2>2. ASSUME NEW a \in Answers, AnswerAndRelease(c, a), req[c].id = None
        PROVE  store' = store
    BY <2>2 DEF AnswerAndRelease
  <2>3. QED
    BY <1>3, <2>1, <2>2, EndsAnswer
<1>4. CASE WarmUpOnceIfNeeded \/ \E ok \in BOOLEAN : WarmUpEnds(ok)
  BY <1>4 DEF WarmUpOnceIfNeeded, WarmUpEnds
<1>5. CASE Restart
  BY <1>5 DEF Restart
<1>6. CASE UNCHANGED vars
  BY <1>6 DEF vars
<1>7. QED
  BY <1>1, <1>2, <1>3, <1>4, <1>5, <1>6 DEF Next, AcceptAny

-----------------------------------------------------------------------------
(* The store stays ordered and small.                                      *)

StoreInv == StoreOrdered(store) /\ StoreSmall(store)

LEMMA EmptyStoreInv == StoreOrdered(EmptyStore) /\ StoreSmall(EmptyStore)
<1>1. Held(EmptyStore) = {}
  BY DEF Held, EmptyStore
<1>2. QED
  BY <1>1, FS_EmptySet, HistoryAssumption DEF StoreOrdered, StoreSmall, EmptyStore

LEMMA StoreStep ==
  ASSUME WorkerInv, StoreInv, [Next]_vars
  PROVE  StoreInv'
<1>1. store \in Stores
  BY DEF WorkerInv, TypeOK
<1>2. CASE store' = store
  BY <1>2 DEF StoreInv
<1>3. ASSUME NEW id \in Ids, Running(store) = {}, store' = Begin(store, id)
      PROVE  StoreInv'
  BY <1>1, <1>3, BeginBound DEF StoreInv
<1>4. ASSUME NEW id \in Running(store), NEW a \in Answers, store' = Finish(store, id, a)
      PROVE  StoreInv'
  BY <1>1, <1>4, FinishBound DEF StoreInv
<1>5. CASE store' = EmptyStore
  BY <1>5, EmptyStoreInv DEF StoreInv
<1>6. QED
  BY <1>2, <1>3, <1>4, <1>5, StoreSteps

LEMMA StoreInvariant == Spec => []StoreInv
<1>1. Init => StoreInv
  BY EmptyStoreInv DEF Init, StoreInv
<1>2. WorkerInv /\ StoreInv /\ [Next]_vars => StoreInv'
  BY StoreStep
<1>3. QED
  BY <1>1, <1>2, WorkerInvariant, PTL DEF Spec

(* The store never holds more than RESULT_HISTORY captures, although       *)
(* eviction yields rather than drop a running one: what runs is one at     *)
(* most, and beside it there is always something finished to drop.         *)
THEOREM StoreStaysBounded == Spec => []StoreBounded
<1>1. StoreInv => StoreBounded
  BY DEF StoreInv, StoreSmall, StoreBounded
<1>2. QED
  BY <1>1, StoreInvariant, PTL

-----------------------------------------------------------------------------
(* The breaker.                                                            *)

(* Every restart since the last clean capture is in the breaker's count,   *)
(* was followed by a failure, or is being retried, which the breaker let   *)
(* happen below its limit.                                                 *)
Retrying == \E c \in Conns : req[c].phase = "retrying"
Settled == streak.restarts <= consecutiveRecoveries + streak.failures
RestartsAccounted ==
  /\ streak.restarts <= consecutiveRecoveries + streak.failures + 1
  /\ ~Retrying => Settled

LEMMA StreakSteps ==
  ASSUME WorkerInv, [Next]_vars
  PROVE  \/ /\ UNCHANGED <<streak, consecutiveRecoveries>>
            /\ Retrying' => Retrying
            /\ Retrying => Retrying'
         \/ \E c \in Conns : CaptureSucceeds(c) \/ RetrySucceeds(c)
         \/ \E c \in Conns, f \in Faults : Recover(c, f) \/ CaptureFails(c, f)
         \/ Restart
<1>1. CASE UNCHANGED vars
  BY <1>1 DEF vars, Retrying
<1>2. CASE WarmUpOnceIfNeeded \/ \E ok \in BOOLEAN : WarmUpEnds(ok)
  BY <1>2 DEF WarmUpOnceIfNeeded, WarmUpEnds, Retrying
<1>3. ASSUME NEW c \in Conns,
             \/ Claim(c) \/ Refuse(c) \/ Abandon(c) \/ Reject(c)
             \/ AcceptAny(c) \/ Prepared(c)
      PROVE  /\ UNCHANGED <<streak, consecutiveRecoveries>>
             /\ Retrying' => Retrying
             /\ Retrying => Retrying'
  <2>1. UNCHANGED <<streak, consecutiveRecoveries>>
    BY <1>3 DEF Claim, Refuse, Abandon, Reject, AcceptAny, Accept, Prepared
  <2> DEFINE Moves(r) == /\ req[c].phase # "retrying" /\ r.phase # "retrying"
                         /\ req' = [req EXCEPT ![c] = r]
  <2>0. \E r : Moves(r)
    <3>1. CASE \/ Claim(c) \/ Refuse(c) \/ Abandon(c) \/ Reject(c)
      BY <3>1 DEF Claim, Refuse, Abandon, Reject, Idle
    <3>2. ASSUME NEW id \in Ids \cup {None}, NEW async \in BOOLEAN, Accept(c, id, async)
          PROVE  \E r : Moves(r)
      <4> DEFINE r == [phase |-> "preparing", id |-> id, async |-> async,
                       reply |-> IF async THEN "202" ELSE "none"]
      <4>1. Moves(r)
        BY <3>2 DEF Accept
      <4>2. QED
        BY <4>1
    <3>3. CASE Prepared(c)
      <4>1. Moves([req[c] EXCEPT !.phase = "capturing"])
        BY <3>3 DEF Prepared, WorkerInv, TypeOK, Requests
      <4>2. QED
        BY <4>1
    <3>4. QED
      BY <1>3, <3>1, <3>2, <3>3 DEF AcceptAny
  <2>2. /\ req[c].phase # "retrying" /\ req'[c].phase # "retrying"
        /\ \A d \in Conns : d # c => req'[d] = req[d]
    BY <2>0 DEF WorkerInv, TypeOK
  <2>3. QED
    BY <2>1, <2>2 DEF Retrying
<1>4. QED
  BY <1>1, <1>2, <1>3 DEF Next, CaptureEnds

LEMMA AccountedStep ==
  ASSUME WorkerInv, RestartsAccounted, [Next]_vars
  PROVE  RestartsAccounted'
<1>1. /\ consecutiveRecoveries \in Nat
      /\ streak \in [restarts : Nat, failures : Nat]
  BY LimitsAssumption DEF WorkerInv, TypeOK
<1> DEFINE restarts == streak.restarts
           failures == streak.failures
<1>2. restarts \in Nat /\ failures \in Nat
  BY <1>1
<1>3. restarts <= consecutiveRecoveries + failures + 1
  BY DEF RestartsAccounted
<1>4. ASSUME /\ consecutiveRecoveries' \in Nat
             /\ streak' \in [restarts : Nat, failures : Nat]
             /\ Settled'
      PROVE  RestartsAccounted'
  BY <1>4 DEF Settled, RestartsAccounted
<1>5. CASE /\ UNCHANGED <<streak, consecutiveRecoveries>>
           /\ Retrying' => Retrying
           /\ Retrying => Retrying'
  <2>1. Settled' = Settled
    BY <1>5 DEF Settled
  <2>2. QED
    BY <1>5, <2>1, <1>3 DEF RestartsAccounted
<1>6. ASSUME NEW c \in Conns, CaptureSucceeds(c) PROVE RestartsAccounted'
  <2>1. consecutiveRecoveries' = 0 /\ streak' = [restarts |-> 0, failures |-> 0]
    BY <1>6 DEF CaptureSucceeds, NoStreak
  <2>2. QED
    BY <2>1, <1>4 DEF Settled
<1>7. ASSUME NEW c \in Conns, RetrySucceeds(c) PROVE RestartsAccounted'
  <2>1. consecutiveRecoveries' = consecutiveRecoveries + 1 /\ streak' = streak
    BY <1>7 DEF RetrySucceeds
  <2>2. QED
    BY <2>1, <1>1, <1>2, <1>3, <1>4 DEF Settled
<1>8. ASSUME NEW c \in Conns, NEW f \in Faults, Recover(c, f) PROVE RestartsAccounted'
  <2>1. c \in Runners /\ req[c].phase # "retrying"
    BY <1>8 DEF Recover, Runners
  <2>2. ~Retrying
    BY <2>1 DEF WorkerInv, SlotHeldByOne, Runners, Retrying
  <2>3. restarts <= consecutiveRecoveries + failures
    BY <2>2 DEF RestartsAccounted, Settled
  <2>4. /\ consecutiveRecoveries' = consecutiveRecoveries
        /\ streak'.restarts = restarts + 1 /\ streak'.failures = failures
    BY <1>1, <1>8 DEF Recover
  <2>5. streak'.restarts <= consecutiveRecoveries' + streak'.failures + 1
    BY <1>1, <1>2, <2>3, <2>4
  <2>6. req'[c].phase = "retrying"
    BY <1>8 DEF Recover, WorkerInv, TypeOK
  <2>7. QED
    BY <2>5, <2>6 DEF RestartsAccounted, Retrying
<1>9. ASSUME NEW c \in Conns, NEW f \in Faults, CaptureFails(c, f) PROVE RestartsAccounted'
  <2>1. /\ consecutiveRecoveries' = consecutiveRecoveries
        /\ streak' = [restarts |-> restarts, failures |-> failures + 1]
    BY <1>1, <1>9 DEF CaptureFails
  <2>2. QED
    BY <2>1, <1>1, <1>2, <1>3, <1>4 DEF Settled
<1>10. CASE Restart
  <2>1. consecutiveRecoveries' = 0 /\ streak' = [restarts |-> 0, failures |-> 0]
    BY <1>10 DEF Restart, NoStreak
  <2>2. QED
    BY <2>1, <1>4 DEF Settled
<1>11. QED
  BY <1>5, <1>6, <1>7, <1>8, <1>9, <1>10, StreakSteps

(* Of the restarts since the last clean capture, all but the limit were    *)
(* followed by a failure the caller was told of.                           *)
THEOREM RestartsSurface == Spec => []RestartsAreSeen
<1>1. Init => RestartsAccounted
  BY DEF Init, NoStreak, Idle, Retrying, Settled, RestartsAccounted
<1>2. WorkerInv /\ RestartsAccounted /\ [Next]_vars => RestartsAccounted'
  BY AccountedStep
<1>3. WorkerInv /\ RestartsAccounted => RestartsAreSeen
  <2> SUFFICES ASSUME WorkerInv, RestartsAccounted PROVE RestartsAreSeen
    OBVIOUS
  <2>1. /\ consecutiveRecoveries \in 0 .. MAX_CONSECUTIVE_RECOVERIES
        /\ streak.restarts \in Nat /\ streak.failures \in Nat
    BY DEF WorkerInv, TypeOK
  <2>2. CASE Retrying
    <3>1. consecutiveRecoveries < MAX_CONSECUTIVE_RECOVERIES
      BY <2>2 DEF Retrying, WorkerInv, BreakerClosedInRetry
    <3>2. QED
      BY <2>1, <3>1, LimitsAssumption DEF RestartsAccounted, RestartsAreSeen
  <2>3. CASE ~Retrying
    <3>1. Settled
      BY <2>3 DEF RestartsAccounted
    <3>2. QED
      BY <2>1, <3>1, LimitsAssumption DEF Settled, RestartsAreSeen
  <2>4. QED
    BY <2>2, <2>3
<1>4. QED
  BY <1>1, <1>2, <1>3, WorkerInvariant, PTL DEF Spec

-----------------------------------------------------------------------------
(* The service.  Every step of the worker is, through Slot and the store's *)
(* entries, a step of CaptureService or none: a request claims the slot    *)
(* and gives it back, a capture begins, is answered, or all is forgotten.  *)

LEMMA SlotValue ==
  ASSUME WorkerInv
  PROVE  /\ ~busy => Slot = "free"
         /\ busy /\ Runs = {} => Slot = "other"
         /\ \A c \in Runs : Slot = IF req[c].id = None THEN "other" ELSE req[c].id
<1>1. ASSUME Runs = {} PROVE Running(store) = {}
  BY <1>1 DEF WorkerInv, RunningIsInFlight
<1>2. ASSUME NEW c \in Runs
      PROVE  Slot = IF req[c].id = None THEN "other" ELSE req[c].id
  <2>1. busy /\ Running(store) = {req[c].id} \ {None} /\ req[c] \in Requests
    BY RunFacts
  <2>2. CASE req[c].id = None
    BY <2>1, <2>2 DEF Slot
  <2>3. CASE req[c].id # None
    <3>1. Running(store) = {req[c].id} /\ req[c].id \in Ids
      BY <2>1, <2>3 DEF Requests
    <3>2. (CHOOSE i \in Ids : i \in Running(store)) = req[c].id
      BY <3>1
    <3>3. QED
      BY <2>1, <2>3, <3>1, <3>2 DEF Slot
  <2>4. QED
    BY <2>2, <2>3
<1>3. QED
  BY <1>1, <1>2 DEF Slot

LEMMA SlotKept ==
  ASSUME UNCHANGED <<busy, store>>
  PROVE  Slot' = Slot /\ UNCHANGED Service!serviceVars
BY DEF Slot, Since, Running, Service!serviceVars

LEMMA SlotTaken ==
  ASSUME WorkerInv, WorkerInv', NEW c \in Conns, Claim(c)
  PROVE  Service!Claimed
<1>1. ~busy /\ busy' /\ store' = store
  BY DEF Claim
<1>2. Runners = {}
  BY <1>1 DEF WorkerInv, SlotHeldByOne
<1>3. Runs' = {}
  <2>1. \A d \in Conns : req[d].phase = "idle"
    BY <1>2 DEF Runners
  <2>2. \A d \in Conns : req'[d].phase \in {"idle", "reading"}
    BY <2>1 DEF Claim, Idle, WorkerInv, TypeOK
  <2>3. QED
    BY <2>2 DEF Runs, RunPhases
<1>4. Slot = "free"
  BY <1>1, SlotValue
<1>5. Slot' = "other"
  <2>1. Running(store') = {}
    BY <1>3 DEF WorkerInv, RunningIsInFlight
  <2>2. QED
    BY <1>1, <2>1 DEF Slot
<1>6. QED
  BY <1>1, <1>4, <1>5 DEF Since, Service!Claimed

(* A request that goes away before its capture began, or one with no id    *)
(* whose capture is over, only gives the slot back.                        *)
LEMMA SlotGivenBack ==
  ASSUME WorkerInv, WorkerInv', NEW c \in Conns, Abandon(c) \/ Reject(c)
  PROVE  Service!Released
<1>1. req[c].phase = "reading" /\ ~busy' /\ store' = store
  BY DEF Abandon, Reject
<1>2. Runners = {c} /\ busy
  BY <1>1 DEF WorkerInv, SlotHeldByOne, Runners
<1>3. Runs = {}
  BY <1>1, <1>2 DEF Runs, Runners, RunPhases
<1>4. Slot = "other"
  BY <1>2, <1>3, SlotValue
<1>5. Slot' = "free"
  BY <1>1 DEF Slot
<1>6. QED
  BY <1>1, <1>4, <1>5 DEF Since, Service!Released

(* begin forgets finished entries only, and those only that every other    *)
(* entry is newer than: it is above the bound by one at most.              *)
Newer(s, i) == {j \in Ids : <<i, j>> \in s.older}

LEMMA BeginEntries ==
  ASSUME NEW s \in Stores, StoreOrdered(s), StoreSmall(s), Running(s) = {}, NEW id \in Ids
  PROVE  LET kept == {j \in Ids \ {id} : s.entry[j] # "absent"}
             later(j) == Newer(s, j) \cup {id}
             old == {j \in kept : s.entry[j] \in Answers
                                    /\ Cardinality(later(j)) >= RESULT_HISTORY}
         IN  \E forgotten \in SUBSET old :
               /\ Begin(s, id).entry =
                    [j \in Ids |-> IF j = id THEN "running"
                                   ELSE IF j \in forgotten THEN "absent" ELSE s.entry[j]]
               /\ \A j \in Ids : Newer(Begin(s, id), j) =
                    IF j \in kept \ forgotten THEN later(j) ELSE {}
<1> DEFINE kept == {j \in Ids \ {id} : s.entry[j] # "absent"}
           later(j) == Newer(s, j) \cup {id}
           old == {j \in kept : s.entry[j] \in Answers
                                  /\ Cardinality(later(j)) >= RESULT_HISTORY}
           d == Drop(s, {id})
           p == Put(d, id, "running")
           excess == Cardinality(Held(p)) - RESULT_HISTORY
           elders(i) == {j \in Done(p) : <<j, i>> \in p.older}
           victims == {i \in Done(p) : Cardinality(elders(i)) < excess}
<1>1. "running" \in Entries \ {"absent"}
  BY DEF Entries
<1>2. /\ d \in Stores /\ StoreOrdered(d) /\ Held(d) = Held(s) \ {id}
      /\ d.entry = [j \in Ids |-> IF j = id THEN "absent" ELSE s.entry[j]]
      /\ d.older = {q \in s.older : q[1] \notin {id} /\ q[2] \notin {id}}
  BY DropFacts, DropOrder DEF Drop
<1>3. /\ p \in Stores /\ StoreOrdered(p) /\ Held(p) = Held(d) \cup {id}
      /\ p.entry = [d.entry EXCEPT ![id] = "running"]
      /\ p.older = d.older \cup (Held(d) \X {id})
  <2>1. p \in Stores /\ StoreOrdered(p) /\ Held(p) = Held(d) \cup {id}
    BY <1>1, <1>2, PutFacts, PutOrder
  <2>2. id \notin Held(d)
    BY <1>2
  <2>3. QED
    BY <2>1, <2>2 DEF Put
<1>4. p.entry = [j \in Ids |-> IF j = id THEN "running" ELSE s.entry[j]]
  BY <1>2, <1>3
<1>5. Begin(s, id) = Drop(p, victims)
  BY DEF Begin, EvictOldestDone
<1>6. kept = Held(s) \ {id} /\ kept \subseteq Ids
  BY DEF Held
<1>7. Done(p) = kept
  <2>1. \A j \in Ids : s.entry[j] # "running"
    BY DEF Running
  <2>2. QED
    BY <1>4, <2>1 DEF Done, Held, Running
<1>8. \A i, j \in Ids :
         <<i, j>> \in p.older <=> \/ i # id /\ j # id /\ <<i, j>> \in s.older
                                  \/ i \in kept /\ j = id
  BY <1>2, <1>3, <1>6
<1>9. \A i, j \in Ids : <<i, j>> \in s.older => i \in Held(s) /\ j \in Held(s)
  BY DEF StoreOrdered
<1>10. IsFiniteSet(Held(p)) /\ Cardinality(Held(p)) \in Nat /\ excess <= 1
  <2> HIDE DEF p, d
  <2>1. Held(p) = Held(s) \cup {id}
    BY <1>2, <1>3
  <2>2. QED
    BY <2>1, FS_AddElement, FS_CardinalityType, HistoryAssumption DEF StoreSmall
<1>11. ASSUME NEW v \in victims
       PROVE  v \in kept /\ Cardinality(Held(p)) = RESULT_HISTORY + 1 /\ elders(v) = {}
  <2>1. elders(v) \in SUBSET Held(p)
    BY DEF Done
  <2>2. IsFiniteSet(elders(v)) /\ Cardinality(elders(v)) \in Nat
    BY <1>10, <2>1, FS_Subset, FS_CardinalityType
  <2>3. Cardinality(elders(v)) < excess
    OBVIOUS
  <2> HIDE DEF elders
  <2>4. Cardinality(elders(v)) = 0 /\ Cardinality(Held(p)) = RESULT_HISTORY + 1
    BY <1>10, <2>2, <2>3, HistoryAssumption
  <2>5. QED
    BY <1>7, <2>2, <2>4, FS_EmptySet
<1>12. victims \subseteq kept
  BY <1>11
<1>13. \A v \in victims, j \in kept : <<j, v>> \notin p.older
  BY <1>7, <1>11
<1> HIDE DEF victims, p, d
<1>14. ASSUME NEW j \in kept PROVE Newer(p, j) = later(j)
  BY <1>6, <1>8, <1>14 DEF Newer
<1>15. ASSUME NEW v \in victims
       PROVE  s.entry[v] \in Answers /\ Cardinality(later(v)) >= RESULT_HISTORY
  <2>1. v \in kept /\ v \in Held(p) /\ v # id
    BY <1>2, <1>3, <1>6, <1>12
  <2>2. ASSUME NEW x \in Held(p) \ {v} PROVE <<v, x>> \in p.older
    <3>1. <<v, x>> \in p.older \/ <<x, v>> \in p.older
      BY <1>3, <2>1 DEF StoreOrdered
    <3>2. x \in Ids /\ v \in Ids /\ (x = id \/ x \in kept)
      BY <1>2, <1>3, <1>6, <2>1 DEF Held
    <3>3. CASE x = id
      BY <1>8, <2>1, <3>2, <3>3
    <3>4. CASE x \in kept
      BY <1>13, <3>1, <3>4
    <3>5. QED
      BY <3>2, <3>3, <3>4
  <2>3. Held(p) \ {v} \subseteq Newer(p, v)
    BY <2>2 DEF Newer, Held
  <2>4. Newer(p, v) \subseteq Held(p) \ {v}
    BY <1>3, <2>1 DEF Newer, StoreOrdered, Held
  <2>5. Cardinality(Held(p) \ {v}) = RESULT_HISTORY
    <3>1. Cardinality(Held(p) \ {v}) = Cardinality(Held(p)) - 1
      BY <1>10, <2>1, FS_RemoveElement
    <3>2. QED
      BY <3>1, <1>11, HistoryAssumption
  <2>6. Cardinality(later(v)) = RESULT_HISTORY
    BY <1>14, <2>1, <2>3, <2>4, <2>5
  <2>7. s.entry[v] \in Answers
    <3>1. s.entry[v] \in Entries /\ s.entry[v] # "absent" /\ s.entry[v] # "running"
      BY <1>6, <2>1 DEF Stores, Running
    <3>2. QED
      BY <3>1 DEF Entries
  <2>8. QED
    BY <2>6, <2>7, HistoryAssumption
<1>16. victims \in SUBSET old
  BY <1>12, <1>15
<1>17. Begin(s, id).entry =
         [j \in Ids |-> IF j = id THEN "running"
                        ELSE IF j \in victims THEN "absent" ELSE s.entry[j]]
  <2>1. Begin(s, id).entry = [j \in Ids |-> IF j \in victims THEN "absent" ELSE p.entry[j]]
    BY <1>5 DEF Drop
  <2>2. id \notin victims
    BY <1>12
  <2>3. QED
    BY <1>4, <2>1, <2>2
<1>18. ASSUME NEW j \in Ids
       PROVE  Newer(Begin(s, id), j) = IF j \in kept \ victims THEN later(j) ELSE {}
  <2>1. Newer(Begin(s, id), j) =
          {k \in Ids : <<j, k>> \in p.older /\ j \notin victims /\ k \notin victims}
    BY <1>5 DEF Newer, Drop
  <2>2. CASE j \in kept \ victims
    BY <1>13, <1>14, <2>1, <2>2 DEF Newer
  <2>3. CASE j \notin kept
    BY <1>6, <1>8, <1>9, <2>1, <2>3
  <2>4. CASE j \in victims
    BY <2>1, <2>4
  <2>5. QED
    BY <2>2, <2>3, <2>4
<1>19. QED
  BY <1>16, <1>17, <1>18

(* Within an instance the prover takes a library's operator for another.   *)
LEMMA ServiceCounts == \A S : Service!Cardinality(S) = Cardinality(S)
BY Zenon DEF Service!Cardinality, Cardinality

LEMMA SlotNamed ==
  ASSUME WorkerInv, WorkerInv', NEW c \in Conns,
         NEW id \in Ids \cup {None}, NEW async \in BOOLEAN, Accept(c, id, async),
         StoreInv
  PROVE  \/ UNCHANGED Service!serviceVars
         \/ \E i \in Ids : Service!Begun(i)
<1>1. req[c].phase = "reading" /\ busy' = busy
  BY DEF Accept
<1>2. Runners = {c} /\ busy
  BY <1>1 DEF WorkerInv, SlotHeldByOne, Runners
<1>3. Runs = {} /\ Running(store) = {}
  BY <1>1, <1>2 DEF Runs, Runners, RunPhases, WorkerInv, RunningIsInFlight
<1>4. CASE id = None
  BY <1>1, <1>4, SlotKept DEF Accept
<1>5. CASE id # None
  <2>1. id \in Ids /\ store' = Begin(store, id) /\ store \in Stores
    BY <1>5 DEF Accept, WorkerInv, TypeOK
  <2>2. Slot = "other"
    BY <1>2, <1>3, SlotValue
  <2>3. Slot' = id
    <3>1. Running(store') = {id}
      BY <1>3, <2>1, BeginFacts
    <3>2. (CHOOSE i \in Ids : i \in Running(store')) = id
      BY <2>1, <3>1
    <3>3. QED
      BY <1>1, <1>2, <3>1, <3>2 DEF Slot
  <2> DEFINE kept == {j \in Ids \ {id} : store.entry[j] # "absent"}
             later(j) == Newer(store, j) \cup {id}
             old == {j \in kept : store.entry[j] \in Answers
                                    /\ Cardinality(later(j)) >= RESULT_HISTORY}
  <2>0. \E forgotten \in SUBSET old :
               /\ Begin(store, id).entry =
                    [j \in Ids |-> IF j = id THEN "running"
                                   ELSE IF j \in forgotten THEN "absent" ELSE store.entry[j]]
               /\ \A j \in Ids : Newer(Begin(store, id), j) =
                    IF j \in kept \ forgotten THEN later(j) ELSE {}
    <3>1. StoreOrdered(store) /\ StoreSmall(store) /\ Running(store) = {}
      BY <1>3 DEF StoreInv
    <3> HIDE DEF StoreInv, WorkerInv
    <3>2. QED
      BY ONLY <2>1, <3>1, BeginEntries
  <2>4. PICK forgotten \in SUBSET old :
               /\ store'.entry =
                    [j \in Ids |-> IF j = id THEN "running"
                                   ELSE IF j \in forgotten THEN "absent" ELSE store.entry[j]]
               /\ \A j \in Ids : Newer(store', j) =
                    IF j \in kept \ forgotten THEN later(j) ELSE {}
    BY <2>0, <2>1
  <2>5. \A j \in Ids : Since[j] = Newer(store, j)
    BY DEF Since, Newer
  <2>6. Since' = [j \in Ids |-> Newer(store', j)]
    BY DEF Since, Newer
  <2>7. Since' = [j \in Ids |-> IF j \in kept \ forgotten THEN Since[j] \cup {id} ELSE {}]
    BY <2>4, <2>5, <2>6
  <2>8. Service!Begun(id)
    <3> DEFINE old2 == {j \in kept : store.entry[j] \in Answers
                                      /\ Cardinality(Since[j] \cup {id}) >= RESULT_HISTORY}
    <3>0. \A S : Service!Cardinality(S) = Cardinality(S)
      BY ServiceCounts
    <3>1. old = old2
      BY <2>5
    <3>2. forgotten \in SUBSET old2
      BY <3>1
    <3>3. forgotten \in SUBSET {j \in kept : store.entry[j] \in Answers
                         /\ Service!Cardinality(Since[j] \cup {id}) >= RESULT_HISTORY}
      BY <3>0, <3>2
    <3> HIDE DEF old, old2, later
    <3>4. QED
      BY ONLY <2>1, <2>2, <2>3, <2>4, <2>7, <3>3 DEF Service!Begun
  <2>9. QED
    BY <2>1, <2>8
<1>6. QED
  BY <1>4, <1>5

LEMMA SlotAnswered ==
  ASSUME WorkerInv, StoreInv, NEW c \in Runs, NEW a \in Answers, AnswerAndRelease(c, a)
  PROVE  \/ Service!Released
         \/ \E i \in Ids : Service!Answered(i, a)
<1>1. Slot = IF req[c].id = None THEN "other" ELSE req[c].id
  BY SlotValue
<1>2. Slot' = "free"
  BY DEF AnswerAndRelease, Slot
<1>3. CASE req[c].id = None
  BY <1>1, <1>2, <1>3 DEF AnswerAndRelease, Since, Service!Released
<1>4. CASE req[c].id # None
  <2>1. req[c].id \in Ids /\ req[c].id \in Running(store) /\ store \in Stores
    BY <1>4, RunFacts DEF Running, WorkerInv, TypeOK
  <2>2. store' = Finish(store, req[c].id, a)
    BY <1>4 DEF AnswerAndRelease
  <2>3. /\ store'.entry = [store.entry EXCEPT ![req[c].id] = a]
        /\ store'.older = store.older
    BY <2>1, <2>2, FinishBound DEF StoreInv
  <2>4. Service!Answered(req[c].id, a)
    BY <1>1, <1>2, <1>4, <2>3 DEF Since, Service!Answered
  <2>5. QED
    BY <2>1, <2>4
<1>5. QED
  BY <1>3, <1>4

LEMMA ServiceStep ==
  ASSUME WorkerInv, WorkerInv', StoreInv, [Next]_vars
  PROVE  [Service!ServiceNext]_(Service!serviceVars)
<1> USE DEF Service!ServiceNext
<1>1. ASSUME NEW c \in Conns, Claim(c) PROVE Service!ServiceNext
  BY <1>1, SlotTaken
<1>2. ASSUME NEW c \in Conns, Refuse(c) \/ Prepared(c) \/ \E f \in Faults : Recover(c, f)
      PROVE  UNCHANGED Service!serviceVars
  <2>1. UNCHANGED <<busy, store>>
    BY <1>2 DEF Refuse, Prepared, Recover
  <2>2. QED
    BY <2>1, SlotKept
<1>3. ASSUME NEW c \in Conns, Abandon(c) \/ Reject(c) PROVE Service!ServiceNext
  BY <1>3, SlotGivenBack
<1>4. ASSUME NEW c \in Conns, AcceptAny(c) PROVE [Service!ServiceNext]_(Service!serviceVars)
  BY <1>4, SlotNamed DEF AcceptAny
<1>5. ASSUME NEW c \in Runs, NEW a \in Answers, AnswerAndRelease(c, a)
      PROVE  Service!ServiceNext
  BY <1>5, SlotAnswered
<1>6. ASSUME NEW c \in Conns, CaptureEnds(c)
      PROVE  [Service!ServiceNext]_(Service!serviceVars)
  BY <1>2, <1>5, <1>6, EndsAnswer
<1>7. CASE WarmUpOnceIfNeeded \/ (\E ok \in BOOLEAN : WarmUpEnds(ok)) \/ UNCHANGED vars
  <2>1. UNCHANGED <<busy, store>>
    BY <1>7 DEF WarmUpOnceIfNeeded, WarmUpEnds, vars
  <2>2. QED
    BY <2>1, SlotKept
<1>8. CASE Restart
  <2>1. /\ Slot' = "free" /\ store'.entry = [i \in Ids |-> "absent"]
        /\ Since' = [i \in Ids |-> {}]
    BY <1>8 DEF Restart, Slot, Since, EmptyStore
  <2>2. QED
    BY <2>1 DEF Service!Restarted
<1>9. QED
  BY <1>1, <1>2, <1>3, <1>4, <1>6, <1>7, <1>8 DEF Next

(* The worker implements the service's safety part: whatever its           *)
(* connections, retries, warm-ups, evictions and restarts do, a caller who *)
(* sees only the slot and the entries sees CaptureService, which forgets   *)
(* an answer only once RESULT_HISTORY newer captures have begun.           *)
THEOREM WorkerServes == Spec => ServesAsPromised
<1>1. Init => Service!ServiceInit
  BY DEF Init, Service!ServiceInit, Slot, Since, EmptyStore
<1>2. WorkerInv /\ WorkerInv' /\ StoreInv /\ [Next]_vars
        => [Service!ServiceNext]_(Service!serviceVars)
  BY ServiceStep
<1>3. QED
  BY <1>1, <1>2, WorkerInvariant, StoreInvariant, PTL
     DEF Spec, ServesAsPromised, Service!ServiceSpec
=============================================================================
