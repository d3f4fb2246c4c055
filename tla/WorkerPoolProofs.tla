-------------------------- MODULE WorkerPoolProofs --------------------------
(***************************************************************************)
(* For every pool, queue and threshold: no item is ever in two places, or  *)
(* in none, while workers fail, leave and hand their work back, and the    *)
(* progress file says of no case what is not so.                           *)
(*                                                                         *)
(* OnePlace is not inductive alone.  What a leaver hands back must be just *)
(* the items whose records requeueFrom drops: that is BlameIsTheStreak,    *)
(* and HandsAreFull says that a worker with an outcome to report does hold *)
(* the item it reports on.  The progress file follows: a case that reads   *)
(* "capturing" is neither settled nor recorded, so it is queued or held.   *)
(***************************************************************************)
EXTENDS WorkerPool, SequenceTheorems, FiniteSetTheorems, TLAPS

Busy == {"handling", "capturing", "suspected"}

HandsAreFull == \A w \in Workers : item[w] # None <=> phase[w] \in Busy

PoolInv ==
  /\ TypeOK
  /\ OnePlace
  /\ BlameIsTheStreak
  /\ HandsAreFull

-----------------------------------------------------------------------------
(* Sequences without repetitions.                                          *)

LEMMA InjectiveConcat ==
  ASSUME NEW S, NEW s \in Seq(S), NEW t \in Seq(S),
         IsInjective(s), IsInjective(t), Range(s) \cap Range(t) = {}
  PROVE  IsInjective(s \o t)
<1>1. /\ DOMAIN s = 1 .. Len(s) /\ DOMAIN t = 1 .. Len(t)
      /\ Len(s) \in Nat /\ Len(t) \in Nat
  BY LenProperties
<1>2. /\ s \o t \in Seq(S)
      /\ Len(s \o t) = Len(s) + Len(t)
      /\ \A i \in 1 .. Len(s) + Len(t) : (s \o t)[i] =
                  IF i <= Len(s) THEN s[i] ELSE t[i - Len(s)]
  BY ConcatProperties
<1>3. DOMAIN (s \o t) = 1 .. Len(s) + Len(t)
  BY <1>2, LenProperties
<1>4. SUFFICES ASSUME NEW m \in 1 .. Len(s) + Len(t), NEW n \in 1 .. Len(s) + Len(t),
                      (s \o t)[m] = (s \o t)[n]
               PROVE  m = n
  BY <1>3 DEF IsInjective
<1>5. \A i \in 1 .. Len(s) : s[i] \in Range(s)
  BY <1>1 DEF Range
<1>6. \A i \in 1 .. Len(t) : t[i] \in Range(t)
  BY <1>1 DEF Range
<1>7. CASE m <= Len(s) /\ n <= Len(s)
  BY <1>1, <1>2, <1>4, <1>7 DEF IsInjective
<1>8. CASE m <= Len(s) /\ ~(n <= Len(s))
  <2>1. s[m] = t[n - Len(s)] /\ m \in 1 .. Len(s) /\ n - Len(s) \in 1 .. Len(t)
    BY <1>1, <1>2, <1>4, <1>8
  <2>2. QED
    BY <2>1, <1>5, <1>6
<1>9. CASE ~(m <= Len(s)) /\ n <= Len(s)
  <2>1. s[n] = t[m - Len(s)] /\ n \in 1 .. Len(s) /\ m - Len(s) \in 1 .. Len(t)
    BY <1>1, <1>2, <1>4, <1>9
  <2>2. QED
    BY <2>1, <1>5, <1>6
<1>10. CASE ~(m <= Len(s)) /\ ~(n <= Len(s))
  <2>1. t[m - Len(s)] = t[n - Len(s)] /\ m - Len(s) \in 1 .. Len(t) /\ n - Len(s) \in 1 .. Len(t)
    BY <1>1, <1>2, <1>4, <1>10
  <2>2. m - Len(s) = n - Len(s)
    BY <2>1, <1>1 DEF IsInjective
  <2>3. QED
    BY <2>2, <1>1
<1>11. QED
  BY <1>7, <1>8, <1>9, <1>10

LEMMA Singleton ==
  ASSUME NEW S, NEW x \in S
  PROVE  /\ <<x>> \in Seq(S)
         /\ Range(<<x>>) = {x}
         /\ IsInjective(<<x>>)
         /\ Len(<<x>>) = 1
BY DEF Range, IsInjective

LEMMA AppendFacts ==
  ASSUME NEW S, NEW s \in Seq(S), NEW x \in S, IsInjective(s), x \notin Range(s)
  PROVE  /\ Append(s, x) \in Seq(S)
         /\ Len(Append(s, x)) = Len(s) + 1
         /\ Range(Append(s, x)) = Range(s) \cup {x}
         /\ IsInjective(Append(s, x))
<1>1. Append(s, x) = s \o <<x>>
  BY AppendIsConcat
<1>2. Append(s, x) \in Seq(S) /\ Len(Append(s, x)) = Len(s) + 1
  BY AppendProperties
<1>3. <<x>> \in Seq(S) /\ Range(<<x>>) = {x} /\ IsInjective(<<x>>)
  BY Singleton
<1>4. Range(s \o <<x>>) = Range(s) \cup {x}
  <2>1. Range(s \o <<x>>) = Range(s) \cup Range(<<x>>)
    BY <1>3, RangeConcatenation
  <2>2. QED
    BY <2>1, <1>3
<1>5. IsInjective(s \o <<x>>)
  BY <1>3, InjectiveConcat
<1>6. QED
  BY <1>1, <1>2, <1>4, <1>5

(* queue.push(x, ...t), when nothing pushed was there already.             *)
LEMMA PushAllFacts ==
  ASSUME NEW S, NEW s \in Seq(S), NEW x \in S, NEW t \in Seq(S),
         IsInjective(s), IsInjective(t),
         x \notin Range(s), x \notin Range(t), Range(s) \cap Range(t) = {}
  PROVE  /\ s \o <<x>> \o t \in Seq(S)
         /\ Range(s \o <<x>> \o t) = Range(s) \cup {x} \cup Range(t)
         /\ IsInjective(s \o <<x>> \o t)
<1> DEFINE u == Append(s, x)
<1>1. u = s \o <<x>>
  BY AppendIsConcat
<1>2. u \in Seq(S) /\ IsInjective(u) /\ Range(u) = Range(s) \cup {x}
  BY AppendFacts
<1> HIDE DEF u
<1>3. u \o t \in Seq(S)
  BY <1>2, ConcatProperties
<1>4. Range(u \o t) = Range(u) \cup Range(t)
  BY <1>2, RangeConcatenation
<1>5. Range(u) \cap Range(t) = {}
  BY <1>2
<1>6. IsInjective(u \o t)
  BY <1>2, <1>5, InjectiveConcat
<1>7. QED
  BY <1>1, <1>2, <1>3, <1>4, <1>6

(* queue.shift: the head leaves the queue for good.                        *)
LEMMA ShiftFacts ==
  ASSUME NEW S, NEW s \in Seq(S), s # <<>>, IsInjective(s)
  PROVE  /\ Head(s) \in S
         /\ Tail(s) \in Seq(S)
         /\ IsInjective(Tail(s))
         /\ Range(s) = Range(Tail(s)) \cup {Head(s)}
         /\ Head(s) \notin Range(Tail(s))
<1>1. /\ Head(s) \in S /\ Tail(s) \in Seq(S)
      /\ Len(Tail(s)) = Len(s) - 1
      /\ \A i \in 1 .. Len(Tail(s)) : Tail(s)[i] = s[i + 1]
  BY HeadTailProperties
<1>2. /\ DOMAIN s = 1 .. Len(s) /\ Len(s) \in Nat /\ Len(s) # 0
      /\ DOMAIN Tail(s) = 1 .. Len(s) - 1
  BY <1>1, LenProperties, EmptySeq
<1>3. Head(s) = s[1]
  OBVIOUS
<1>4. IsInjective(Tail(s))
  BY <1>1, <1>2 DEF IsInjective
<1>5. Range(s) = Range(Tail(s)) \cup {Head(s)}
  <2>1. \A i \in 1 .. Len(s) : s[i] \in Range(Tail(s)) \cup {Head(s)}
    <3>1. TAKE i \in 1 .. Len(s)
    <3>2. CASE i = 1
      BY <3>2, <1>3
    <3>3. CASE i # 1
      <4>1. i - 1 \in 1 .. Len(s) - 1 /\ (i - 1) + 1 = i
        BY <3>3, <1>2
      <4>2. Tail(s)[i - 1] = s[i]
        BY <4>1, <1>1
      <4>3. QED
        BY <4>1, <4>2, <1>2 DEF Range
    <3>4. QED
      BY <3>2, <3>3
  <2>2. \A i \in 1 .. Len(s) - 1 : Tail(s)[i] \in Range(s)
    BY <1>1, <1>2 DEF Range
  <2>3. Head(s) \in Range(s)
    BY <1>2, <1>3 DEF Range
  <2>4. QED
    BY <2>1, <2>2, <2>3, <1>2 DEF Range
<1>6. Head(s) \notin Range(Tail(s))
  BY <1>1, <1>2, <1>3 DEF Range, IsInjective
<1>7. QED
  BY <1>1, <1>4, <1>5, <1>6

-----------------------------------------------------------------------------
(* The pieces the actions are made of.                                     *)

LEMMA GoneIsNat ==
  ASSUME TypeOK
  PROVE  Gone \in Nat
<1>1. IsFiniteSet(evicted) /\ IsFiniteSet(retired)
  BY SizeAssumption, FS_Subset DEF TypeOK
<1>2. Cardinality(evicted) \in Nat /\ Cardinality(retired) \in Nat
  BY <1>1, FS_CardinalityType
<1>3. QED
  BY <1>2 DEF Gone

LEMMA StreakIsTyped ==
  ASSUME TypeOK, NEW w \in Workers, NEW reachable \in BOOLEAN
  PROVE  Streak(w, reachable) \in 0 .. UNREACHABLE_PROBES_BEFORE_RETIRE
BY ThresholdAssumption DEF TypeOK, Streak

(* A worker with empty hands takes the head, or finds the queue empty and  *)
(* leaves.                                                                 *)
LEMMA TakeNextFacts ==
  ASSUME TypeOK, OncePerPlace, NEW w \in Workers, TakeNext(w)
  PROVE  /\ queue' \in Seq(Items)
         /\ IsInjective(queue')
         /\ \E x \in Items \cup {None} :
              /\ item' = [item EXCEPT ![w] = x]
              /\ Range(queue) = Range(queue') \cup ({x} \ {None})
              /\ x \notin Range(queue')
              /\ phase' = [phase EXCEPT ![w] = IF x = None THEN "drained" ELSE "handling"]
<1>1. queue \in Seq(Items) /\ IsInjective(queue)
  BY DEF TypeOK, OncePerPlace
<1>2. CASE queue = <<>>
  <2>1. /\ phase' = [phase EXCEPT ![w] = "drained"]
        /\ item' = [item EXCEPT ![w] = None]
        /\ queue' = queue
    BY <1>2 DEF TakeNext
  <2>2. None \notin Range(queue)
    BY <1>1, NoneAssumption, RangeOfSeq
  <2>3. QED
    BY <1>1, <2>1, <2>2
<1>3. CASE queue # <<>>
  <2>1. /\ phase' = [phase EXCEPT ![w] = "handling"]
        /\ item' = [item EXCEPT ![w] = Head(queue)]
        /\ queue' = Tail(queue)
    BY <1>3 DEF TakeNext
  <2>2. /\ Head(queue) \in Items
        /\ Tail(queue) \in Seq(Items)
        /\ IsInjective(Tail(queue))
        /\ Range(queue) = Range(Tail(queue)) \cup {Head(queue)}
        /\ Head(queue) \notin Range(Tail(queue))
    BY <1>1, <1>3, ShiftFacts
  <2>3. QED
    BY <2>1, <2>2, NoneAssumption
<1>4. QED
  BY <1>2, <1>3

(* requeueFrom: the queue gains exactly the item in hand and the blamed    *)
(* ones, none of which was in it, and the blamed lose their records.       *)
LEMMA RequeueFacts ==
  ASSUME PoolInv, NEW w \in Workers, phase[w] \in Busy, RequeueFrom(w)
  PROVE  /\ queue' \in Seq(Items)
         /\ IsInjective(queue')
         /\ Range(queue') = Range(queue) \cup {item[w]} \cup Range(failedHere[w])
         /\ failures' \subseteq failures
         /\ Recorded' = Recorded \ Range(failedHere[w])
         /\ Range(failedHere[w]) \subseteq Recorded
         /\ item' = [item EXCEPT ![w] = None]
         /\ failedHere' = [failedHere EXCEPT ![w] = <<>>]
<1>1. /\ item[w] \in Items
      /\ queue \in Seq(Items) /\ failedHere[w] \in Seq(Items)
      /\ IsInjective(queue) /\ IsInjective(failedHere[w])
  BY DEF PoolInv, TypeOK, OnePlace, OncePerPlace, BlameIsTheStreak, HandsAreFull, Busy, Left
<1>2. Range(failedHere[w]) \subseteq Recorded
  <2>1. \A i \in Range(failedHere[w]) : [key |-> i, worker |-> w] \in failures
    BY DEF PoolInv, BlameIsTheStreak, Busy, Left
  <2>2. \A i \in Range(failedHere[w]) : \E f \in failures : f.key = i
    <3>1. TAKE i \in Range(failedHere[w])
    <3>2. [key |-> i, worker |-> w].key = i
      OBVIOUS
    <3>3. QED
      BY <2>1, <3>2
  <2>3. QED
    BY <2>2 DEF Recorded
<1>3. item[w] \in InHand
  BY <1>1, NoneAssumption DEF InHand
<1>4. /\ item[w] \notin Range(queue)
      /\ item[w] \notin Range(failedHere[w])
      /\ Range(queue) \cap Range(failedHere[w]) = {}
  BY <1>2, <1>3 DEF PoolInv, OnePlace, OnePlaceOnly, Queued
<1>5. /\ queue \o <<item[w]>> \o failedHere[w] \in Seq(Items)
      /\ Range(queue \o <<item[w]>> \o failedHere[w])
           = Range(queue) \cup {item[w]} \cup Range(failedHere[w])
      /\ IsInjective(queue \o <<item[w]>> \o failedHere[w])
  BY <1>1, <1>4, PushAllFacts
<1>6. failures' \subseteq failures /\ Recorded' = Recorded \ Range(failedHere[w])
  BY DEF RequeueFrom, Recorded
<1>7. QED
  BY <1>2, <1>5, <1>6 DEF RequeueFrom

(* What is in hand when one worker's hand changes.                         *)
LEMMA HandFacts ==
  ASSUME TypeOK, OncePerPlace, NEW w \in Workers, NEW x \in Items \cup {None},
         x \notin InHand, item' = [item EXCEPT ![w] = x]
  PROVE  /\ item' \in [Workers -> Items \cup {None}]
         /\ InHand' = (InHand \ {item[w]}) \cup ({x} \ {None})
         /\ \A u, v \in Workers : item'[u] = item'[v] /\ item'[u] # None => u = v
<1>1. item \in [Workers -> Items \cup {None}]
  BY DEF TypeOK
<1>2. \A v \in Workers : item'[v] = IF v = w THEN x ELSE item[v]
  BY <1>1
<1>3. \A v \in Workers : item[v] # None => item[v] \in InHand
  BY DEF InHand
<1>4. \A u, v \in Workers : item'[u] = item'[v] /\ item'[u] # None => u = v
  BY <1>2, <1>3 DEF OncePerPlace
<1>5. InHand' = (InHand \ {item[w]}) \cup ({x} \ {None})
  <2>1. \A y : y \in InHand' <=> y # None /\ \E v \in Workers : item'[v] = y
    BY DEF InHand
  <2>2. \A y : y \in InHand <=> y # None /\ \E v \in Workers : item[v] = y
    BY DEF InHand
  <2>3. \A v \in Workers : v # w /\ item[v] = item[w] => item[w] = None
    BY DEF OncePerPlace
  <2>4. \A y : y \in InHand' => y \in (InHand \ {item[w]}) \cup ({x} \ {None})
    BY <2>1, <2>2, <2>3, <1>2
  <2>5. \A y : y \in (InHand \ {item[w]}) \cup ({x} \ {None}) => y \in InHand'
    BY <2>1, <2>2, <2>3, <1>2
  <2>6. QED
    BY <2>4, <2>5
<1>6. QED
  BY <1>1, <1>4, <1>5

-----------------------------------------------------------------------------
(* Initially, and step by step.                                            *)

LEMMA InitInv == ASSUME Init PROVE PoolInv
<1>1. /\ Order \in Seq(Items) /\ Range(Order) = Items /\ IsInjective(Order)
  BY OrderAssumption
<1>2. TypeOK
  BY <1>1, ThresholdAssumption DEF Init, TypeOK, Phases
<1>3. OnePlace
  <2>1. InHand = {} /\ Recorded = {} /\ Settled = {} /\ Queued = Items
    BY <1>1 DEF Init, InHand, Recorded, Settled, Queued
  <2>2. QED
    BY <1>1, <2>1 DEF Init, OnePlace, OncePerPlace, OnePlaceOnly
<1>4. BlameIsTheStreak
  BY DEF Init, BlameIsTheStreak, Range, IsInjective
<1>5. HandsAreFull
  BY DEF Init, HandsAreFull, Busy
<1>6. QED
  BY <1>2, <1>3, <1>4, <1>5 DEF PoolInv

(* A worker takes its next item with empty hands: it moves from the queue  *)
(* into them.                                                              *)
LEMMA TakeNextKeepsPlace ==
  ASSUME PoolInv, NEW w \in Workers, item[w] = None, TakeNext(w),
         UNCHANGED <<failures, status>>
  PROVE  /\ OnePlace'
         /\ queue' \in Seq(Items)
         /\ item' \in [Workers -> Items \cup {None}]
         /\ phase' \in [Workers -> Phases]
         /\ HandsAreFull'
         /\ \A v \in Workers : v # w => phase'[v] = phase[v]
         /\ phase'[w] \in {"drained", "handling"}
<1>1. TypeOK /\ OncePerPlace /\ OnePlaceOnly
  BY DEF PoolInv, OnePlace
<1>2. PICK x \in Items \cup {None} :
              /\ item' = [item EXCEPT ![w] = x]
              /\ Range(queue) = Range(queue') \cup ({x} \ {None})
              /\ x \notin Range(queue')
              /\ phase' = [phase EXCEPT ![w] = IF x = None THEN "drained" ELSE "handling"]
  BY <1>1, TakeNextFacts
<1>3. queue' \in Seq(Items) /\ IsInjective(queue')
  BY <1>1, TakeNextFacts
<1>4. x \notin InHand
  <2>1. CASE x = None
    BY <2>1 DEF InHand
  <2>2. CASE x # None
    BY <2>2, <1>1, <1>2 DEF OnePlaceOnly, Queued
  <2>3. QED
    BY <2>1, <2>2
<1>5. /\ item' \in [Workers -> Items \cup {None}]
      /\ InHand' = (InHand \ {item[w]}) \cup ({x} \ {None})
      /\ \A u, v \in Workers : item'[u] = item'[v] /\ item'[u] # None => u = v
  BY <1>1, <1>2, <1>4, HandFacts
<1>6. InHand' = InHand \cup ({x} \ {None})
  BY <1>5 DEF InHand
<1>7. Recorded' = Recorded /\ Settled' = Settled
  BY DEF Recorded, Settled
<1>8. OncePerPlace'
  BY <1>1, <1>3, <1>5 DEF OncePerPlace
<1>9. OnePlaceOnly'
  BY <1>1, <1>2, <1>6, <1>7 DEF OnePlaceOnly, Queued
<1>10. /\ phase' \in [Workers -> Phases]
       /\ phase'[w] \in {"drained", "handling"}
       /\ \A v \in Workers : v # w => phase'[v] = phase[v]
  BY <1>1, <1>2 DEF TypeOK, Phases, Left
<1>11. HandsAreFull'
  <2>1. phase \in [Workers -> Phases] /\ item \in [Workers -> Items \cup {None}]
    BY <1>1 DEF TypeOK
  <2>2. item'[w] # None <=> phase'[w] \in Busy
    BY <1>2, <2>1 DEF Busy
  <2>3. \A v \in Workers : v # w => (item'[v] # None <=> phase'[v] \in Busy)
    BY <1>2, <2>1 DEF PoolInv, HandsAreFull
  <2>4. QED
    BY <2>2, <2>3 DEF HandsAreFull
<1>12. QED
  BY <1>3, <1>5, <1>8, <1>9, <1>10, <1>11 DEF OnePlace

(* The blame of the others survives when their records, lists and streaks  *)
(* do; what is left to show is the worker that took the step.              *)
LEMMA BlameOfOthers ==
  ASSUME PoolInv, NEW w \in Workers,
         \A v \in Workers : v # w =>
           /\ phase'[v] = phase[v]
           /\ consecutiveFailures'[v] = consecutiveFailures[v]
           /\ failedHere'[v] = failedHere[v],
         \A f \in failures : f.worker # w => f \in failures',
         phase'[w] \notin Left =>
           /\ consecutiveFailures'[w] =
                Len(failedHere'[w]) + (IF phase'[w] = "suspected" THEN 1 ELSE 0)
           /\ IsInjective(failedHere'[w])
           /\ \A i \in Range(failedHere'[w]) : [key |-> i, worker |-> w] \in failures'
  PROVE  BlameIsTheStreak'
<1>1. \A v \in Workers, i \in Items :
        v # w /\ [key |-> i, worker |-> v] \in failures
          => [key |-> i, worker |-> v] \in failures'
  OBVIOUS
<1>2. \A v \in Workers : Range(failedHere[v]) \subseteq Items
  BY RangeOfSeq DEF PoolInv, TypeOK
<1>3. \A v \in Workers : v # w /\ phase[v] \notin Left =>
        \A i \in Range(failedHere[v]) : [key |-> i, worker |-> v] \in failures'
  BY <1>1, <1>2 DEF PoolInv, BlameIsTheStreak
<1>4. ASSUME NEW v \in Workers, v # w, phase'[v] \notin Left
      PROVE  /\ consecutiveFailures'[v] =
                  Len(failedHere'[v]) + (IF phase'[v] = "suspected" THEN 1 ELSE 0)
             /\ IsInjective(failedHere'[v])
             /\ \A i \in Range(failedHere'[v]) : [key |-> i, worker |-> v] \in failures'
  BY <1>3, <1>4 DEF PoolInv, BlameIsTheStreak
<1>5. QED
  BY <1>4 DEF BlameIsTheStreak

-----------------------------------------------------------------------------
(* One lemma per action.                                                   *)

LEMMA PreparedInv ==
  ASSUME PoolInv, NEW w \in Workers, Prepared(w)
  PROVE  PoolInv'
<1>1. /\ TakeNext(w)
      /\ UNCHANGED <<failures, evicted, retired, failedHere, consecutiveFailures,
                     unreachable, counted, status, reported>>
      /\ phase[w] = "preparing"
  BY DEF Prepared
<1>2. item[w] = None
  BY <1>1 DEF PoolInv, HandsAreFull, Busy
<1>3. /\ OnePlace'
      /\ queue' \in Seq(Items)
      /\ item' \in [Workers -> Items \cup {None}]
      /\ phase' \in [Workers -> Phases]
      /\ HandsAreFull'
      /\ \A v \in Workers : v # w => phase'[v] = phase[v]
      /\ phase'[w] \in {"drained", "handling"}
  BY <1>1, <1>2, TakeNextKeepsPlace
<1>4. TypeOK'
  BY <1>1, <1>3 DEF PoolInv, TypeOK
<1>5. BlameIsTheStreak'
  <2>1. phase'[w] \notin Left =>
           /\ consecutiveFailures'[w] =
                Len(failedHere'[w]) + (IF phase'[w] = "suspected" THEN 1 ELSE 0)
           /\ IsInjective(failedHere'[w])
           /\ \A i \in Range(failedHere'[w]) : [key |-> i, worker |-> w] \in failures'
    BY <1>1, <1>3 DEF PoolInv, BlameIsTheStreak, Left
  <2>2. QED
    BY <1>1, <1>3, <2>1, BlameOfOthers
<1>6. QED
  BY <1>3, <1>4, <1>5 DEF PoolInv

LEMMA UnusableInv ==
  ASSUME PoolInv, NEW w \in Workers, Unusable(w)
  PROVE  PoolInv'
<1>1. /\ phase[w] = "preparing"
      /\ phase' = [phase EXCEPT ![w] = "unusable"]
      /\ UNCHANGED <<queue, failures, evicted, retired, item, failedHere,
                     consecutiveFailures, unreachable, counted, status, reported>>
  BY DEF Unusable
<1>2. phase \in [Workers -> Phases]
  BY DEF PoolInv, TypeOK
<1>3. TypeOK'
  BY <1>1, <1>2 DEF PoolInv, TypeOK, Phases, Left
<1>4. OnePlace'
  BY <1>1 DEF PoolInv, OnePlace, OncePerPlace, OnePlaceOnly, Queued, InHand, Recorded, Settled
<1>5. BlameIsTheStreak'
  BY <1>1, <1>2, BlameOfOthers DEF Left
<1>6. HandsAreFull'
  BY <1>1, <1>2 DEF PoolInv, HandsAreFull, Busy
<1>7. QED
  BY <1>3, <1>4, <1>5, <1>6 DEF PoolInv

LEMMA StartCaseInv ==
  ASSUME PoolInv, NEW w \in Workers, StartCase(w)
  PROVE  PoolInv'
<1>1. /\ phase[w] = "handling"
      /\ phase' = [phase EXCEPT ![w] = "capturing"]
      /\ status' = [status EXCEPT ![item[w]] = "capturing"]
      /\ UNCHANGED <<queue, failures, evicted, retired, item, failedHere,
                     consecutiveFailures, unreachable, counted, reported>>
  BY DEF StartCase
<1>2. phase \in [Workers -> Phases] /\ item[w] \in Items /\ item[w] # None
  BY <1>1, NoneAssumption DEF PoolInv, TypeOK, HandsAreFull, Busy
<1>3. TypeOK'
  BY <1>1, <1>2 DEF PoolInv, TypeOK, Phases
<1>4. item[w] \in InHand
  BY <1>2 DEF InHand
<1>5. item[w] \notin Settled
  BY <1>4 DEF PoolInv, OnePlace, OnePlaceOnly
<1>6. Settled' = Settled
  BY <1>1, <1>2, <1>5 DEF PoolInv, TypeOK, Settled
<1>7. OnePlace'
  BY <1>1, <1>6 DEF PoolInv, OnePlace, OncePerPlace, OnePlaceOnly, Queued, InHand, Recorded
<1>8. BlameIsTheStreak'
  <2>1. /\ consecutiveFailures'[w] = Len(failedHere'[w]) + 0
        /\ phase'[w] = "capturing"
        /\ IsInjective(failedHere'[w])
        /\ \A i \in Range(failedHere'[w]) : [key |-> i, worker |-> w] \in failures'
    BY <1>1, <1>2 DEF PoolInv, BlameIsTheStreak, Left
  <2>2. QED
    BY <1>1, <1>2, <2>1, BlameOfOthers
<1>9. HandsAreFull'
  BY <1>1, <1>2 DEF PoolInv, HandsAreFull, Busy
<1>10. QED
  BY <1>3, <1>7, <1>8, <1>9 DEF PoolInv

LEMMA SucceedInv ==
  ASSUME PoolInv, NEW w \in Workers, phase[w] \in {"handling", "capturing"},
         NEW outcome \in {"captured", "skipped"}, Succeed(w, outcome)
  PROVE  PoolInv'
<1>1. /\ status' = [status EXCEPT ![item[w]] = outcome]
      /\ item' = [item EXCEPT ![w] = None]
      /\ consecutiveFailures' = [consecutiveFailures EXCEPT ![w] = 0]
      /\ failedHere' = [failedHere EXCEPT ![w] = <<>>]
      /\ counted' = [counted EXCEPT ![w] = Gone]
      /\ phase' = [phase EXCEPT ![w] = "checking"]
      /\ UNCHANGED <<queue, failures, evicted, retired, unreachable, reported>>
  BY DEF Succeed
<1>2. /\ TypeOK /\ OncePerPlace /\ OnePlaceOnly
      /\ phase \in [Workers -> Phases] /\ item[w] \in Items /\ item[w] # None
      /\ item \in [Workers -> Items \cup {None}]
  BY NoneAssumption DEF PoolInv, OnePlace, TypeOK, HandsAreFull, Busy
<1>3. Gone \in Nat
  BY <1>2, GoneIsNat
<1>4. TypeOK'
  BY <1>1, <1>2, <1>3 DEF TypeOK, Phases
<1>5. /\ InHand' = InHand \ {item[w]}
      /\ \A u, v \in Workers : item'[u] = item'[v] /\ item'[u] # None => u = v
  <2>1. None \notin InHand /\ None \in Items \cup {None}
    BY DEF InHand
  <2>2. /\ InHand' = (InHand \ {item[w]}) \cup ({None} \ {None})
        /\ \A u, v \in Workers : item'[u] = item'[v] /\ item'[u] # None => u = v
    BY <1>1, <1>2, <2>1, HandFacts
  <2>3. QED
    BY <2>2
<1>6. Settled' = Settled \cup {item[w]}
  BY <1>1, <1>2 DEF TypeOK, Settled
<1>7. item[w] \in InHand
  BY <1>2 DEF InHand
<1>8. OnePlace'
  <2>1. Queued' = Queued /\ Recorded' = Recorded
    BY <1>1 DEF Queued, Recorded
  <2>2. OncePerPlace'
    BY <1>1, <1>2, <1>5 DEF OncePerPlace
  <2>3. OnePlaceOnly'
    BY <1>2, <1>5, <1>6, <1>7, <2>1 DEF OnePlaceOnly
  <2>4. QED
    BY <2>2, <2>3 DEF OnePlace
<1>9. BlameIsTheStreak'
  <2>1. /\ consecutiveFailures'[w] = 0 /\ failedHere'[w] = <<>> /\ phase'[w] = "checking"
    BY <1>1, <1>2 DEF TypeOK
  <2>2. IsInjective(failedHere'[w]) /\ Range(failedHere'[w]) = {} /\ Len(failedHere'[w]) = 0
    BY <2>1 DEF IsInjective, Range
  <2>3. \A v \in Workers : v # w =>
           /\ phase'[v] = phase[v]
           /\ consecutiveFailures'[v] = consecutiveFailures[v]
           /\ failedHere'[v] = failedHere[v]
    BY <1>1, <1>2 DEF TypeOK
  <2>4. /\ consecutiveFailures'[w] =
             Len(failedHere'[w]) + (IF phase'[w] = "suspected" THEN 1 ELSE 0)
        /\ \A i \in Range(failedHere'[w]) : [key |-> i, worker |-> w] \in failures'
    BY <2>1, <2>2
  <2>5. QED
    BY <1>1, <2>2, <2>3, <2>4, BlameOfOthers
<1>10. HandsAreFull'
  BY <1>1, <1>2 DEF PoolInv, HandsAreFull, Busy
<1>11. QED
  BY <1>4, <1>8, <1>9, <1>10 DEF PoolInv

(* A worker that leaves after a failure, evicted or retired, and hands     *)
(* back what requeueFrom hands back.                                       *)
LEMMA RequeueInv ==
  ASSUME PoolInv, NEW w \in Workers, phase[w] \in Busy, RequeueFrom(w),
         NEW gone \in {"evicted", "retired"}, phase' = [phase EXCEPT ![w] = gone],
         \A v \in Workers : v # w => consecutiveFailures'[v] = consecutiveFailures[v],
         UNCHANGED status
  PROVE  OnePlace' /\ BlameIsTheStreak' /\ HandsAreFull'
<1>1. /\ TypeOK /\ OncePerPlace /\ OnePlaceOnly
      /\ phase \in [Workers -> Phases] /\ item[w] \in Items /\ item[w] # None
      /\ item \in [Workers -> Items \cup {None}]
      /\ failedHere \in [Workers -> Seq(Items)]
  BY NoneAssumption DEF PoolInv, OnePlace, TypeOK, HandsAreFull
<1>2. /\ queue' \in Seq(Items)
      /\ IsInjective(queue')
      /\ Range(queue') = Range(queue) \cup {item[w]} \cup Range(failedHere[w])
      /\ failures' \subseteq failures
      /\ Recorded' = Recorded \ Range(failedHere[w])
      /\ Range(failedHere[w]) \subseteq Recorded
      /\ item' = [item EXCEPT ![w] = None]
      /\ failedHere' = [failedHere EXCEPT ![w] = <<>>]
  BY RequeueFacts
<1>3. /\ InHand' = InHand \ {item[w]}
      /\ \A u, v \in Workers : item'[u] = item'[v] /\ item'[u] # None => u = v
  <2>1. None \notin InHand /\ None \in Items \cup {None}
    BY DEF InHand
  <2>2. /\ InHand' = (InHand \ {item[w]}) \cup ({None} \ {None})
        /\ \A u, v \in Workers : item'[u] = item'[v] /\ item'[u] # None => u = v
    BY <1>1, <1>2, <2>1, HandFacts
  <2>3. QED
    BY <2>2
<1>4. item[w] \in InHand
  BY <1>1 DEF InHand
<1>5. OnePlace'
  <2>1. Settled' = Settled
    BY DEF Settled
  <2>2. OncePerPlace'
    BY <1>1, <1>2, <1>3 DEF OncePerPlace
  <2>3. OnePlaceOnly'
    BY <1>1, <1>2, <1>3, <1>4, <2>1 DEF OnePlaceOnly, Queued
  <2>4. QED
    BY <2>2, <2>3 DEF OnePlace
<1>6. BlameIsTheStreak'
  <2>1. \A i \in Range(failedHere[w]) : [key |-> i, worker |-> w] \in failures
    BY DEF PoolInv, BlameIsTheStreak, Busy, Left
  <2>2. ASSUME NEW f \in failures, f.worker # w
        PROVE  f \in failures'
    <3>1. f.key \notin Range(failedHere[w])
      <4>1. SUFFICES ASSUME f.key \in Range(failedHere[w])
                     PROVE  FALSE
        OBVIOUS
      <4>2. [key |-> f.key, worker |-> w] \in failures
        BY <2>1, <4>1
      <4>3. f = [key |-> f.key, worker |-> w]
        BY <4>2, <1>1 DEF OncePerPlace
      <4>4. QED
        BY <4>3, <2>2
    <3>2. QED
      BY <3>1 DEF RequeueFrom
  <2>3. \A v \in Workers : v # w =>
           /\ phase'[v] = phase[v]
           /\ consecutiveFailures'[v] = consecutiveFailures[v]
           /\ failedHere'[v] = failedHere[v]
    BY <1>1, <1>2
  <2>4. phase'[w] \in Left
    BY <1>1 DEF Left
  <2>5. QED
    BY <2>2, <2>3, <2>4, BlameOfOthers
<1>7. HandsAreFull'
  BY <1>1, <1>2 DEF PoolInv, HandsAreFull, Busy
<1>8. QED
  BY <1>5, <1>6, <1>7

LEMMA FailsInv ==
  ASSUME PoolInv, NEW w \in Workers, Fails(w)
  PROVE  PoolInv'
<1>1. /\ phase[w] \in {"handling", "capturing"}
      /\ consecutiveFailures' = [consecutiveFailures EXCEPT ![w] = @ + 1]
      /\ UNCHANGED <<retired, unreachable, status, reported>>
  BY DEF Fails
<1>2. /\ TypeOK /\ phase \in [Workers -> Phases]
      /\ consecutiveFailures \in [Workers -> Nat]
      /\ phase[w] \in Busy
  BY <1>1 DEF PoolInv, TypeOK, Busy
<1>3. consecutiveFailures' \in [Workers -> Nat]
  BY <1>1, <1>2
<1>4. CASE ShouldEvictWorker(consecutiveFailures[w] + 1)
  <2>1. /\ evicted' = evicted \cup {w}
        /\ phase' = [phase EXCEPT ![w] = "evicted"]
        /\ RequeueFrom(w)
        /\ UNCHANGED counted
    BY <1>4 DEF Fails
  <2>2. OnePlace' /\ BlameIsTheStreak' /\ HandsAreFull'
    BY <1>1, <1>2, <2>1, RequeueInv
  <2>3. TypeOK'
    <3>1. /\ queue' \in Seq(Items) /\ failures' \subseteq failures
          /\ item' = [item EXCEPT ![w] = None]
          /\ failedHere' = [failedHere EXCEPT ![w] = <<>>]
      BY <1>2, <2>1, RequeueFacts
    <3>2. item' \in [Workers -> Items \cup {None}] /\ failedHere' \in [Workers -> Seq(Items)]
      BY <3>1, <1>2 DEF TypeOK
    <3>3. phase' \in [Workers -> Phases]
      BY <1>2, <2>1 DEF Phases, Left
    <3>4. QED
      BY <1>1, <1>2, <1>3, <2>1, <3>1, <3>2, <3>3 DEF TypeOK
  <2>4. QED
    BY <2>2, <2>3 DEF PoolInv
<1>5. CASE ~ShouldEvictWorker(consecutiveFailures[w] + 1)
  <2>1. /\ phase' = [phase EXCEPT ![w] = "suspected"]
        /\ counted' = [counted EXCEPT ![w] = Gone]
        /\ UNCHANGED <<queue, failures, evicted, item, failedHere>>
    BY <1>5 DEF Fails
  <2>2. Gone \in Nat
    BY <1>2, GoneIsNat
  <2>3. TypeOK'
    BY <1>1, <1>2, <1>3, <2>1, <2>2 DEF TypeOK, Phases
  <2>4. OnePlace'
    BY <1>1, <2>1 DEF PoolInv, OnePlace, OncePerPlace, OnePlaceOnly, Queued, InHand, Recorded, Settled
  <2>5. BlameIsTheStreak'
    <3>1. /\ phase[w] \notin Left /\ phase[w] # "suspected"
          /\ phase'[w] = "suspected" /\ failedHere'[w] = failedHere[w]
          /\ consecutiveFailures'[w] = consecutiveFailures[w] + 1
      BY <1>1, <1>2, <2>1 DEF Left
    <3>2. /\ consecutiveFailures[w] = Len(failedHere[w]) + 0
          /\ IsInjective(failedHere[w])
          /\ \A i \in Range(failedHere[w]) : [key |-> i, worker |-> w] \in failures
      BY <3>1 DEF PoolInv, BlameIsTheStreak
    <3>3. \A v \in Workers : v # w =>
             /\ phase'[v] = phase[v]
             /\ consecutiveFailures'[v] = consecutiveFailures[v]
             /\ failedHere'[v] = failedHere[v]
      BY <1>1, <1>2, <2>1
    <3>4. consecutiveFailures'[w] =
             Len(failedHere'[w]) + (IF phase'[w] = "suspected" THEN 1 ELSE 0)
      BY <3>1, <3>2
    <3>5. QED
      BY <2>1, <3>1, <3>2, <3>3, <3>4, BlameOfOthers
  <2>6. HandsAreFull'
    BY <1>1, <1>2, <2>1 DEF PoolInv, HandsAreFull, Busy
  <2>7. QED
    BY <2>3, <2>4, <2>5, <2>6 DEF PoolInv
<1>6. QED
  BY <1>4, <1>5

LEMMA CheckedInv ==
  ASSUME PoolInv, NEW w \in Workers, NEW reachable \in BOOLEAN, NEW degraded \in BOOLEAN,
         Checked(w, reachable, degraded)
  PROVE  PoolInv'
<1>1. /\ phase[w] = "checking"
      /\ unreachable' = [unreachable EXCEPT ![w] = Streak(w, reachable)]
      /\ UNCHANGED <<failures, evicted, failedHere, consecutiveFailures, counted, status, reported>>
  BY DEF Checked
<1>2. /\ TypeOK /\ phase \in [Workers -> Phases] /\ item[w] = None
      /\ item \in [Workers -> Items \cup {None}]
  BY <1>1 DEF PoolInv, TypeOK, HandsAreFull, Busy
<1>3. unreachable' \in [Workers -> 0 .. UNREACHABLE_PROBES_BEFORE_RETIRE]
  BY <1>1, <1>2, StreakIsTyped DEF TypeOK
<1>4. CASE ShouldRetireWorker(w, reachable, degraded)
  <2>1. /\ retired' = retired \cup {w}
        /\ phase' = [phase EXCEPT ![w] = "retired"]
        /\ UNCHANGED <<queue, item>>
    BY <1>4 DEF Checked, Retires
  <2>2. TypeOK'
    BY <1>1, <1>2, <1>3, <2>1 DEF TypeOK, Phases, Left
  <2>3. OnePlace'
    BY <1>1, <2>1 DEF PoolInv, OnePlace, OncePerPlace, OnePlaceOnly, Queued, InHand, Recorded, Settled
  <2>4. BlameIsTheStreak'
    BY <1>1, <1>2, <2>1, BlameOfOthers DEF Left
  <2>5. HandsAreFull'
    BY <1>1, <1>2, <2>1 DEF PoolInv, HandsAreFull, Busy
  <2>6. QED
    BY <2>2, <2>3, <2>4, <2>5 DEF PoolInv
<1>5. CASE ~ShouldRetireWorker(w, reachable, degraded)
  <2>1. TakeNext(w) /\ UNCHANGED retired
    BY <1>5 DEF Checked
  <2>2. /\ OnePlace'
        /\ queue' \in Seq(Items)
        /\ item' \in [Workers -> Items \cup {None}]
        /\ phase' \in [Workers -> Phases]
        /\ HandsAreFull'
        /\ \A v \in Workers : v # w => phase'[v] = phase[v]
        /\ phase'[w] \in {"drained", "handling"}
    BY <1>1, <1>2, <2>1, TakeNextKeepsPlace
  <2>3. TypeOK'
    BY <1>1, <1>2, <1>3, <2>1, <2>2 DEF TypeOK
  <2>4. BlameIsTheStreak'
    <3>1. phase'[w] \notin Left =>
             /\ consecutiveFailures'[w] =
                  Len(failedHere'[w]) + (IF phase'[w] = "suspected" THEN 1 ELSE 0)
             /\ IsInjective(failedHere'[w])
             /\ \A i \in Range(failedHere'[w]) : [key |-> i, worker |-> w] \in failures'
      BY <1>1, <2>2 DEF PoolInv, BlameIsTheStreak, Left
    <3>2. QED
      BY <1>1, <2>2, <3>1, BlameOfOthers
  <2>5. QED
    BY <2>2, <2>3, <2>4 DEF PoolInv
<1>6. QED
  BY <1>4, <1>5

(* The failure stands: the item goes from the worker's hands to the        *)
(* records, and its place in them is taken by the next one.                *)
LEMMA KeptInv ==
  ASSUME PoolInv, NEW w \in Workers, phase[w] = "suspected", RecordFailure(w), TakeNext(w),
         unreachable' \in [Workers -> 0 .. UNREACHABLE_PROBES_BEFORE_RETIRE],
         UNCHANGED <<evicted, retired, consecutiveFailures, counted>>
  PROVE  PoolInv'
<1> DEFINE r == [key |-> item[w], worker |-> w]
<1>1. /\ failedHere' = [failedHere EXCEPT ![w] = Append(failedHere[w], item[w])]
      /\ failures' = failures \cup {r}
      /\ status' = [status EXCEPT ![item[w]] = "failed"]
      /\ reported' = reported \cup {item[w]}
  BY DEF RecordFailure
<1>2. /\ TypeOK /\ OncePerPlace /\ OnePlaceOnly
      /\ phase \in [Workers -> Phases] /\ item[w] \in Items /\ item[w] # None
      /\ item \in [Workers -> Items \cup {None}]
      /\ failedHere \in [Workers -> Seq(Items)]
  BY NoneAssumption DEF PoolInv, OnePlace, TypeOK, HandsAreFull, Busy
<1>3. /\ consecutiveFailures[w] = Len(failedHere[w]) + 1
      /\ IsInjective(failedHere[w])
      /\ \A i \in Range(failedHere[w]) : [key |-> i, worker |-> w] \in failures
  BY DEF PoolInv, BlameIsTheStreak, Left
<1>4. item[w] \in InHand
  BY <1>2 DEF InHand
<1>5. item[w] \notin Recorded /\ item[w] \notin Settled
  BY <1>2, <1>4 DEF OnePlaceOnly
<1>6. item[w] \notin Range(failedHere[w])
  <2>1. SUFFICES ASSUME item[w] \in Range(failedHere[w])
                 PROVE  FALSE
    OBVIOUS
  <2>2. r \in failures /\ r.key = item[w]
    BY <1>3, <2>1
  <2>3. QED
    BY <2>2, <1>5 DEF Recorded
<1>7. PICK x \in Items \cup {None} :
              /\ item' = [item EXCEPT ![w] = x]
              /\ Range(queue) = Range(queue') \cup ({x} \ {None})
              /\ x \notin Range(queue')
              /\ phase' = [phase EXCEPT ![w] = IF x = None THEN "drained" ELSE "handling"]
  BY <1>2, TakeNextFacts
<1>8. queue' \in Seq(Items) /\ IsInjective(queue')
  BY <1>2, TakeNextFacts
<1>9. x \notin InHand
  <2>1. CASE x = None
    BY <2>1 DEF InHand
  <2>2. CASE x # None
    BY <2>2, <1>2, <1>7 DEF OnePlaceOnly, Queued
  <2>3. QED
    BY <2>1, <2>2
<1>10. /\ item' \in [Workers -> Items \cup {None}]
       /\ InHand' = (InHand \ {item[w]}) \cup ({x} \ {None})
       /\ \A u, v \in Workers : item'[u] = item'[v] /\ item'[u] # None => u = v
  BY <1>2, <1>7, <1>9, HandFacts
<1>11. r \in Records /\ r.key = item[w] /\ r.worker = w
  BY <1>2 DEF Records
<1>12. Recorded' = Recorded \cup {item[w]}
  <2>1. \A y : y \in Recorded' <=> \E f \in failures' : f.key = y
    BY DEF Recorded
  <2>2. \A y : y \in Recorded <=> \E f \in failures : f.key = y
    BY DEF Recorded
  <2>3. QED
    BY <2>1, <2>2, <1>1, <1>11
<1>13. Settled' = Settled
  BY <1>1, <1>2, <1>5 DEF TypeOK, Settled
<1> HIDE DEF r
<1>14. OnePlace'
  <2>1. \A f, g \in failures' : f.key = g.key => f = g
    <3>1. \A f \in failures : f.key \in Recorded
      BY DEF Recorded
    <3>2. QED
      BY <3>1, <1>1, <1>2, <1>5, <1>11 DEF OncePerPlace
  <2>2. OncePerPlace'
    BY <2>1, <1>8, <1>10 DEF OncePerPlace
  <2>3. OnePlaceOnly'
    BY <1>2, <1>4, <1>5, <1>7, <1>9, <1>10, <1>12, <1>13 DEF OnePlaceOnly, Queued
  <2>4. QED
    BY <2>2, <2>3 DEF OnePlace
<1>15. /\ Append(failedHere[w], item[w]) \in Seq(Items)
       /\ Len(Append(failedHere[w], item[w])) = Len(failedHere[w]) + 1
       /\ Range(Append(failedHere[w], item[w])) = Range(failedHere[w]) \cup {item[w]}
       /\ IsInjective(Append(failedHere[w], item[w]))
  BY <1>2, <1>3, <1>6, AppendFacts
<1>16. failedHere'[w] = Append(failedHere[w], item[w])
  BY <1>1, <1>2
<1>17. BlameIsTheStreak'
  <2>1. phase'[w] # "suspected"
    BY <1>2, <1>7
  <2>2. consecutiveFailures'[w] =
             Len(failedHere'[w]) + (IF phase'[w] = "suspected" THEN 1 ELSE 0)
    <3>1. Len(failedHere[w]) \in Nat
      BY <1>2, LenProperties
    <3>2. QED
      BY <1>3, <1>15, <1>16, <2>1, <3>1
  <2>3. \A i \in Range(failedHere'[w]) : [key |-> i, worker |-> w] \in failures'
    BY <1>1, <1>3, <1>15, <1>16 DEF r
  <2>4. \A v \in Workers : v # w =>
           /\ phase'[v] = phase[v]
           /\ consecutiveFailures'[v] = consecutiveFailures[v]
           /\ failedHere'[v] = failedHere[v]
    BY <1>1, <1>2, <1>7
  <2>5. IsInjective(failedHere'[w])
    BY <1>15, <1>16
  <2>6. \A f \in failures : f.worker # w => f \in failures'
    BY <1>1
  <2>7. QED
    BY <2>2, <2>3, <2>4, <2>5, <2>6, BlameOfOthers
<1>18. HandsAreFull'
  BY <1>2, <1>7 DEF PoolInv, HandsAreFull, Busy
<1>19. TypeOK'
  <2>1. failedHere' \in [Workers -> Seq(Items)]
    BY <1>1, <1>2, <1>15
  <2>2. phase' \in [Workers -> Phases]
    BY <1>2, <1>7 DEF Phases, Left
  <2>3. failures' \subseteq Records
    BY <1>1, <1>2, <1>11 DEF TypeOK
  <2>4. /\ status' \in [Items -> {"pending", "capturing", "captured", "skipped", "failed"}]
        /\ reported' \subseteq Items
    BY <1>1, <1>2 DEF TypeOK
  <2>5. QED
    BY <1>2, <1>8, <1>10, <2>1, <2>2, <2>3, <2>4 DEF TypeOK
<1>20. QED
  BY <1>14, <1>17, <1>18, <1>19 DEF PoolInv

LEMMA SuspectedInv ==
  ASSUME PoolInv, NEW w \in Workers, NEW reachable \in BOOLEAN, NEW degraded \in BOOLEAN,
         Suspected(w, reachable, degraded)
  PROVE  PoolInv'
<1>1. /\ phase[w] = "suspected"
      /\ unreachable' = [unreachable EXCEPT ![w] = Streak(w, reachable)]
      /\ UNCHANGED <<evicted, consecutiveFailures, counted>>
  BY DEF Suspected
<1>2. /\ TypeOK /\ phase \in [Workers -> Phases] /\ phase[w] \in Busy
      /\ item \in [Workers -> Items \cup {None}]
      /\ failedHere \in [Workers -> Seq(Items)]
  BY <1>1 DEF PoolInv, TypeOK, Busy
<1>3. unreachable' \in [Workers -> 0 .. UNREACHABLE_PROBES_BEFORE_RETIRE]
  BY <1>1, <1>2, StreakIsTyped DEF TypeOK
<1>4. CASE ShouldRetireWorker(w, reachable, degraded)
  <2>1. /\ retired' = retired \cup {w}
        /\ phase' = [phase EXCEPT ![w] = "retired"]
        /\ RequeueFrom(w)
        /\ UNCHANGED <<status, reported>>
    BY <1>4 DEF Suspected, Retires
  <2>2. OnePlace' /\ BlameIsTheStreak' /\ HandsAreFull'
    BY <1>1, <1>2, <2>1, RequeueInv
  <2>3. TypeOK'
    <3>1. /\ queue' \in Seq(Items) /\ failures' \subseteq failures
          /\ item' = [item EXCEPT ![w] = None]
          /\ failedHere' = [failedHere EXCEPT ![w] = <<>>]
      BY <1>2, <2>1, RequeueFacts
    <3>2. item' \in [Workers -> Items \cup {None}] /\ failedHere' \in [Workers -> Seq(Items)]
      BY <3>1, <1>2 DEF TypeOK
    <3>3. phase' \in [Workers -> Phases]
      BY <1>2, <2>1 DEF Phases, Left
    <3>4. QED
      BY <1>1, <1>2, <1>3, <2>1, <3>1, <3>2, <3>3 DEF TypeOK
  <2>4. QED
    BY <2>2, <2>3 DEF PoolInv
<1>5. CASE ~ShouldRetireWorker(w, reachable, degraded)
  <2>1. RecordFailure(w) /\ TakeNext(w) /\ UNCHANGED retired
    BY <1>5 DEF Suspected
  <2>2. QED
    BY <1>1, <1>3, <2>1, KeptInv
<1>6. QED
  BY <1>4, <1>5

-----------------------------------------------------------------------------
(* The theorems.                                                           *)

LEMMA StepInv == ASSUME PoolInv, [Next]_vars PROVE PoolInv'
<1>1. CASE UNCHANGED vars
  <2>1. TypeOK' /\ HandsAreFull'
    BY <1>1 DEF vars, PoolInv, TypeOK, HandsAreFull
  <2>2. OnePlace'
    BY <1>1 DEF vars, PoolInv, OnePlace, OncePerPlace, OnePlaceOnly, Queued, InHand,
                Recorded, Settled
  <2>3. BlameIsTheStreak'
    BY <1>1 DEF vars, PoolInv, BlameIsTheStreak
  <2>4. QED
    BY <2>1, <2>2, <2>3 DEF PoolInv
<1>2. ASSUME NEW w \in Workers, Step(w) PROVE PoolInv'
  <2>1. CASE Prepared(w)
    BY <2>1, PreparedInv
  <2>2. CASE Unusable(w)
    BY <2>2, UnusableInv
  <2>3. CASE StartCase(w)
    BY <2>3, StartCaseInv
  <2>4. CASE Captured(w)
    BY <2>4, SucceedInv DEF Captured
  <2>5. CASE Skipped(w)
    BY <2>5, SucceedInv DEF Skipped
  <2>6. CASE Fails(w)
    BY <2>6, FailsInv
  <2>7. CASE Probed(w)
    <3>1. PICK reachable, degraded \in BOOLEAN :
            Checked(w, reachable, degraded) \/ Suspected(w, reachable, degraded)
      BY <2>7 DEF Probed
    <3>2. QED
      BY <3>1, CheckedInv, SuspectedInv
  <2>8. QED
    BY <1>2, <2>1, <2>2, <2>3, <2>4, <2>5, <2>6, <2>7 DEF Step
<1>3. QED
  BY <1>1, <1>2 DEF Next

LEMMA PoolInvariant == Spec => []PoolInv
<1>1. Init => PoolInv
  BY InitInv
<1>2. PoolInv /\ [Next]_vars => PoolInv'
  BY StepInv
<1>3. QED
  BY <1>1, <1>2, PTL DEF Spec

(* The pool's lists and counters keep their types.                         *)
THEOREM PoolTypeCorrect == Spec => []TypeOK
<1>1. PoolInv => TypeOK
  BY DEF PoolInv
<1>2. QED
  BY <1>1, PoolInvariant, PTL

(* No item is lost, duplicated or counted twice while the pool runs: each  *)
(* is queued, in one worker's hands, failed with one record, or settled.   *)
THEOREM NothingLostOrDoubled == Spec => []OnePlace
<1>1. PoolInv => OnePlace
  BY DEF PoolInv
<1>2. QED
  BY <1>1, PoolInvariant, PTL

(* An eviction hands back exactly the run of failures that caused it.      *)
THEOREM BlameMatchesStreak == Spec => []BlameIsTheStreak
<1>1. PoolInv => BlameIsTheStreak
  BY DEF PoolInv
<1>2. QED
  BY <1>1, PoolInvariant, PTL

-----------------------------------------------------------------------------
(* The progress file and the caller's list.  That a case reads "capturing" *)
(* only while somebody has yet to finish it follows from the rest and from *)
(* OnePlace: it is neither settled nor recorded, so it is queued or held.  *)

ProgressKept ==
  /\ \A i \in Recorded : status[i] = "failed"
  /\ \A w \in Workers : phase[w] = "capturing" => status[item[w]] = "capturing"
  /\ \A i \in Items : i \in Recorded \/ status[i] = "failed" => i \in reported

LEMMA ProgressFollows == PoolInv /\ ProgressKept => ProgressAgrees
<1> SUFFICES ASSUME PoolInv, ProgressKept,
                    NEW i \in Items, status[i] = "capturing"
             PROVE  i \in InHand \cup Queued
  BY DEF ProgressKept, ProgressAgrees
<1>1. i \notin Recorded /\ i \notin Settled
  BY DEF ProgressKept, Settled
<1>2. QED
  BY <1>1 DEF PoolInv, OnePlace, OnePlaceOnly

(* What a worker holds is neither recorded nor in another's hands.         *)
LEMMA HeldAlone ==
  ASSUME PoolInv, NEW w \in Workers, phase[w] \in Busy
  PROVE  /\ item[w] \in Items /\ item[w] \notin Recorded
         /\ \A v \in Workers \ {w} : item[v] # item[w]
         /\ \A v \in Workers : phase[v] = "capturing" => item[v] \in Items
<1>1. \A v \in Workers : phase[v] \in Busy => item[v] \in Items /\ item[v] # None
  BY DEF PoolInv, TypeOK, HandsAreFull
<1>2. item[w] \in InHand
  BY <1>1 DEF InHand
<1>3. QED
  BY <1>1, <1>2 DEF PoolInv, OnePlace, OncePerPlace, OnePlaceOnly, Busy

(* A step that writes no status: the worker it is of captures nothing      *)
(* afterwards, and records at most disappear.                              *)
LEMMA SilentStep ==
  ASSUME PoolInv, ProgressKept, NEW w \in Workers,
         UNCHANGED <<status, reported>>, Recorded' \subseteq Recorded,
         phase' = [phase EXCEPT ![w] = phase'[w]], phase'[w] # "capturing",
         \A v \in Workers \ {w} : item'[v] = item[v]
  PROVE  ProgressKept'
<1>1. phase \in [Workers -> Phases]
  BY DEF PoolInv, TypeOK
<1>2. \A v \in Workers : phase'[v] = "capturing" => v # w /\ phase[v] = "capturing"
  BY <1>1
<1>3. \A v \in Workers : phase'[v] = "capturing" => status'[item'[v]] = "capturing"
  BY <1>2 DEF ProgressKept
<1>4. QED
  BY <1>3 DEF ProgressKept

LEMMA FailsFacts ==
  ASSUME PoolInv, NEW w \in Workers, Fails(w)
  PROVE  /\ UNCHANGED <<status, reported>> /\ Recorded' \subseteq Recorded
         /\ \E p \in {"evicted", "suspected"} : phase' = [phase EXCEPT ![w] = p]
         /\ \A v \in Workers \ {w} : item'[v] = item[v]
<1>1. phase[w] \in Busy /\ item \in [Workers -> Items \cup {None}]
  BY DEF Fails, Busy, PoolInv, TypeOK
<1>2. CASE UNCHANGED <<failures, item>>
  BY <1>2 DEF Fails, Recorded
<1>3. CASE RequeueFrom(w)
  BY <1>1, <1>3, RequeueFacts DEF Fails
<1>4. QED
  BY <1>2, <1>3 DEF Fails

LEMMA TakesNext ==
  ASSUME TypeOK, NEW w \in Workers, TakeNext(w)
  PROVE  /\ \E p \in {"drained", "handling"} : phase' = [phase EXCEPT ![w] = p]
         /\ \A v \in Workers \ {w} : item'[v] = item[v]
BY DEF TypeOK, TakeNext

LEMMA StartCaseProgress ==
  ASSUME PoolInv, ProgressKept, NEW w \in Workers, StartCase(w)
  PROVE  ProgressKept'
<1>1. /\ status' = [status EXCEPT ![item[w]] = "capturing"]
      /\ phase' = [phase EXCEPT ![w] = "capturing"]
      /\ item' = item /\ reported' = reported /\ Recorded' = Recorded
      /\ phase[w] \in Busy
  BY DEF StartCase, Recorded, Busy
<1>2. /\ item[w] \in Items /\ item[w] \notin Recorded
      /\ \A v \in Workers \ {w} : item[v] # item[w]
  BY <1>1, HeldAlone
<1>3. \A i \in Items : status'[i] = IF i = item[w] THEN "capturing" ELSE status[i]
  BY <1>1 DEF PoolInv, TypeOK
<1>4. \A v \in Workers : v # w => phase'[v] = phase[v]
  BY <1>1 DEF PoolInv, TypeOK
<1>5. \A i \in Recorded : i \in Items
  BY DEF PoolInv, OnePlace, OnePlaceOnly
<1>6. \A i \in Recorded' : status'[i] = "failed"
  BY <1>1, <1>2, <1>3, <1>5 DEF ProgressKept
<1>7. ASSUME NEW v \in Workers, phase'[v] = "capturing"
      PROVE  status'[item'[v]] = "capturing"
  <2>1. CASE v = w
    BY <1>1, <1>2, <1>3, <2>1
  <2>2. CASE v # w
    <3>1. phase[v] = "capturing" /\ item[v] \in Items
      BY <1>1, <1>4, <1>7, <2>2, HeldAlone
    <3>2. QED
      BY <1>1, <1>2, <1>3, <3>1 DEF ProgressKept
  <2>3. QED
    BY <2>1, <2>2
<1>8. \A i \in Items : i \in Recorded' \/ status'[i] = "failed" => i \in reported'
  BY <1>1, <1>3 DEF ProgressKept
<1>9. QED
  BY <1>6, <1>7, <1>8 DEF ProgressKept

LEMMA SucceedProgress ==
  ASSUME PoolInv, ProgressKept, NEW w \in Workers, phase[w] \in Busy,
         NEW outcome \in {"captured", "skipped"}, Succeed(w, outcome)
  PROVE  ProgressKept'
<1>1. /\ status' = [status EXCEPT ![item[w]] = outcome]
      /\ phase' = [phase EXCEPT ![w] = "checking"]
      /\ item' = [item EXCEPT ![w] = None]
      /\ reported' = reported /\ Recorded' = Recorded
  BY DEF Succeed, Recorded
<1>2. /\ item[w] \in Items /\ item[w] \notin Recorded
      /\ \A v \in Workers \ {w} : item[v] # item[w]
  BY HeldAlone
<1>3. \A i \in Items : status'[i] = IF i = item[w] THEN outcome ELSE status[i]
  BY <1>1 DEF PoolInv, TypeOK
<1>4. \A v \in Workers : phase'[v] = (IF v = w THEN "checking" ELSE phase[v])
                          /\ (v # w => item'[v] = item[v])
  BY <1>1 DEF PoolInv, TypeOK
<1>5. \A i \in Recorded : i \in Items
  BY DEF PoolInv, OnePlace, OnePlaceOnly
<1>6. \A i \in Recorded' : status'[i] = "failed"
  BY <1>1, <1>2, <1>3, <1>5 DEF ProgressKept
<1>7. ASSUME NEW v \in Workers, phase'[v] = "capturing"
      PROVE  status'[item'[v]] = "capturing"
  <2>1. v # w /\ phase[v] = "capturing" /\ item'[v] = item[v]
    BY <1>4, <1>7
  <2>2. item[v] \in Items /\ item[v] # item[w]
    BY <1>2, <2>1, HeldAlone
  <2>3. QED
    BY <1>3, <2>1, <2>2 DEF ProgressKept
<1>8. \A i \in Items : i \in Recorded' \/ status'[i] = "failed" => i \in reported'
  BY <1>1, <1>3 DEF ProgressKept
<1>9. QED
  BY <1>6, <1>7, <1>8 DEF ProgressKept

LEMMA KeptProgress ==
  ASSUME PoolInv, ProgressKept, NEW w \in Workers, phase[w] = "suspected",
         RecordFailure(w), TakeNext(w)
  PROVE  ProgressKept'
<1>1. /\ status' = [status EXCEPT ![item[w]] = "failed"]
      /\ reported' = reported \cup {item[w]}
      /\ Recorded' = Recorded \cup {item[w]}
  <2>1. failures' = failures \cup {[key |-> item[w], worker |-> w]}
    BY DEF RecordFailure
  <2>2. [key |-> item[w], worker |-> w].key = item[w]
    OBVIOUS
  <2>3. \A i : i \in Recorded' <=> i \in Recorded \/ i = item[w]
    BY <2>1, <2>2 DEF Recorded
  <2>4. QED
    BY <2>3 DEF RecordFailure
<1>2. /\ item[w] \in Items /\ phase[w] \in Busy
      /\ \A v \in Workers \ {w} : item[v] # item[w]
  BY HeldAlone DEF Busy
<1>3. \A i \in Items : status'[i] = IF i = item[w] THEN "failed" ELSE status[i]
  BY <1>1 DEF PoolInv, TypeOK
<1>4. /\ phase'[w] # "capturing"
      /\ \A v \in Workers \ {w} : phase'[v] = phase[v] /\ item'[v] = item[v]
  <2>1. TypeOK /\ phase \in [Workers -> Phases]
    BY DEF PoolInv, TypeOK
  <2>2. PICK p \in {"drained", "handling"} : phase' = [phase EXCEPT ![w] = p]
    BY <2>1, TakesNext
  <2>3. QED
    BY <2>1, <2>2, TakesNext
<1>5. \A i \in Recorded : i \in Items
  BY DEF PoolInv, OnePlace, OnePlaceOnly
<1>6. \A i \in Recorded' : status'[i] = "failed"
  BY <1>1, <1>2, <1>3, <1>5 DEF ProgressKept
<1>7. ASSUME NEW v \in Workers, phase'[v] = "capturing"
      PROVE  status'[item'[v]] = "capturing"
  <2>1. v # w /\ phase[v] = "capturing" /\ item'[v] = item[v]
    BY <1>4, <1>7
  <2>2. item[v] \in Items /\ item[v] # item[w]
    BY <1>2, <2>1, HeldAlone
  <2>3. QED
    BY <1>3, <2>1, <2>2 DEF ProgressKept
<1>8. \A i \in Items : i \in Recorded' \/ status'[i] = "failed" => i \in reported'
  BY <1>1, <1>3 DEF ProgressKept
<1>9. QED
  BY <1>6, <1>7, <1>8 DEF ProgressKept

LEMMA ProgressStep ==
  ASSUME PoolInv, ProgressKept, [Next]_vars
  PROVE  ProgressKept'
<1>0. TypeOK /\ phase \in [Workers -> Phases]
  BY DEF PoolInv, TypeOK
<1>1. CASE UNCHANGED vars
  BY <1>1 DEF vars, ProgressKept, Recorded
<1>2. ASSUME NEW w \in Workers, Prepared(w) PROVE ProgressKept'
  <2>1. TakeNext(w) /\ UNCHANGED <<status, reported>> /\ Recorded' = Recorded
    BY <1>2 DEF Prepared, Recorded
  <2>2. PICK p \in {"drained", "handling"} : phase' = [phase EXCEPT ![w] = p]
    BY <1>0, <2>1, TakesNext
  <2>3. phase' = [phase EXCEPT ![w] = phase'[w]] /\ phase'[w] # "capturing"
    BY <1>0, <2>2
  <2>4. QED
    BY <1>0, <2>1, <2>3, TakesNext, SilentStep
<1>3. ASSUME NEW w \in Workers, Unusable(w) PROVE ProgressKept'
  <2>1. /\ phase' = [phase EXCEPT ![w] = "unusable"]
        /\ UNCHANGED <<status, reported, item>> /\ Recorded' = Recorded
    BY <1>3 DEF Unusable, Recorded
  <2>2. phase' = [phase EXCEPT ![w] = phase'[w]] /\ phase'[w] # "capturing"
    BY <1>0, <2>1
  <2>3. QED
    BY <2>1, <2>2, SilentStep
<1>4. ASSUME NEW w \in Workers, StartCase(w) PROVE ProgressKept'
  BY <1>4, StartCaseProgress
<1>5. ASSUME NEW w \in Workers, Captured(w) \/ Skipped(w) PROVE ProgressKept'
  BY <1>5, SucceedProgress DEF Captured, Skipped, Busy
<1>6. ASSUME NEW w \in Workers, Fails(w) PROVE ProgressKept'
  <2>1. PICK p \in {"evicted", "suspected"} : phase' = [phase EXCEPT ![w] = p]
    BY <1>6, FailsFacts
  <2>2. phase' = [phase EXCEPT ![w] = phase'[w]] /\ phase'[w] # "capturing"
    BY <1>0, <2>1
  <2>3. QED
    BY <1>6, <2>2, FailsFacts, SilentStep
<1>7. ASSUME NEW w \in Workers, NEW reachable \in BOOLEAN, NEW degraded \in BOOLEAN,
             Checked(w, reachable, degraded)
      PROVE  ProgressKept'
  <2>1. UNCHANGED <<status, reported>> /\ Recorded' = Recorded
    BY <1>7 DEF Checked, Recorded
  <2>2. CASE Retires(w) /\ UNCHANGED item
    <3>1. phase' = [phase EXCEPT ![w] = phase'[w]] /\ phase'[w] # "capturing"
      BY <1>0, <2>2 DEF Retires
    <3>2. QED
      BY <2>1, <2>2, <3>1, SilentStep
  <2>3. CASE TakeNext(w)
    <3>1. PICK p \in {"drained", "handling"} : phase' = [phase EXCEPT ![w] = p]
      BY <1>0, <2>3, TakesNext
    <3>2. phase' = [phase EXCEPT ![w] = phase'[w]] /\ phase'[w] # "capturing"
      BY <1>0, <3>1
    <3>3. QED
      BY <1>0, <2>1, <2>3, <3>2, TakesNext, SilentStep
  <2>4. QED
    BY <1>7, <2>2, <2>3 DEF Checked
<1>8. ASSUME NEW w \in Workers, NEW reachable \in BOOLEAN, NEW degraded \in BOOLEAN,
             Suspected(w, reachable, degraded)
      PROVE  ProgressKept'
  <2>1. phase[w] = "suspected" /\ phase[w] \in Busy
    BY <1>8 DEF Suspected, Busy
  <2>2. CASE Retires(w) /\ RequeueFrom(w) /\ UNCHANGED <<status, reported>>
    <3>1. phase' = [phase EXCEPT ![w] = phase'[w]] /\ phase'[w] # "capturing"
      BY <1>0, <2>2 DEF Retires
    <3>2. Recorded' \subseteq Recorded /\ item' = [item EXCEPT ![w] = None]
      BY <2>1, <2>2, RequeueFacts
    <3>3. \A v \in Workers \ {w} : item'[v] = item[v]
      BY <1>0, <3>2 DEF TypeOK
    <3>4. QED
      BY <2>2, <3>1, <3>2, <3>3, SilentStep
  <2>3. CASE RecordFailure(w) /\ TakeNext(w)
    BY <2>1, <2>3, KeptProgress
  <2>4. QED
    BY <1>8, <2>2, <2>3 DEF Suspected
<1>9. QED
  BY <1>1, <1>2, <1>3, <1>4, <1>5, <1>6, <1>7, <1>8 DEF Next, Step, Probed

(* The progress file never contradicts the accounting, and the caller's    *)
(* list misses no failure.                                                 *)
THEOREM ProgressIsHonest == Spec => []ProgressAgrees
<1>1. Init => ProgressKept
  BY DEF Init, ProgressKept, Recorded
<1>2. PoolInv /\ ProgressKept /\ [Next]_vars => ProgressKept'
  BY ProgressStep
<1>3. PoolInv /\ ProgressKept => ProgressAgrees
  BY ProgressFollows
<1>4. QED
  BY <1>1, <1>2, <1>3, PoolInvariant, PTL DEF Spec
=============================================================================
