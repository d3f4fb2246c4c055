---------------------------- MODULE ResultStore ----------------------------
(***************************************************************************)
(* The worker's memory of recent captures (capture-results.mjs): a JS Map  *)
(* from the id the CLIENT chose to "running" or to the answer that was     *)
(* sent, bounded by RESULT_HISTORY, evicting the oldest finished entry and *)
(* never a running one.                                                    *)
(*                                                                         *)
(* A store is a record.  entry[i] is what the Map holds under i, "absent"  *)
(* when it holds nothing.  The Map's insertion order, which is its         *)
(* eviction order, is the relation `older': <<i, j>> is in it when i was   *)
(* inserted before j and both are still held.                              *)
(***************************************************************************)
EXTENDS Integers, FiniteSets

CONSTANTS Ids,             \* the well-formed capture ids clients may choose
          RESULT_HISTORY   \* how many entries are kept

ASSUME HistoryAssumption == RESULT_HISTORY \in Nat \ {0}

(* The codes of capture-faults.mjs, as far as the worker tells them apart: *)
(* the two a fresh screen reader may clear, screen-reader-mute and         *)
(* screen-reader-start-failed, and all others, the two of the page, the    *)
(* hard timeout and an error that carries none.                            *)
Recoverable == {"screen-reader"}
Faults == Recoverable \cup {"other"}

(* An answer is the status and body of the response: 200 with the capture, *)
(* or 500 with the fault code the worker worked out.                       *)
Answers == {"ok"} \cup Faults
Entries == {"absent", "running"} \cup Answers

Stores == [entry : [Ids -> Entries], older : SUBSET (Ids \X Ids)]

EmptyStore == [entry |-> [i \in Ids |-> "absent"], older |-> {}]

Held(s) == {i \in Ids : s.entry[i] # "absent"}
Running(s) == {i \in Ids : s.entry[i] = "running"}
Done(s) == Held(s) \ Running(s)

(* Map.delete of every id in V.                                            *)
Drop(s, V) ==
  [entry |-> [i \in Ids |-> IF i \in V THEN "absent" ELSE s.entry[i]],
   older |-> {p \in s.older : p[1] \notin V /\ p[2] \notin V}]

(* Definitions named X_Slip are faults seeded in X, here and in the other   *)
(* modules: X as a plausible slip in the code would have it.  No           *)
(* specification uses one; a property that still held with X_Slip in place *)
(* of X would say nothing about X.                                         *)

(* Map.set: a held id keeps its place in the order, a new one goes last.   *)
Put(s, id, e) ==
  [entry |-> [s.entry EXCEPT ![id] = e],
   older |-> IF id \in Held(s) THEN s.older ELSE s.older \cup (Held(s) \X {id})]

EvictOldestDone_Slip(s) ==
  LET excess == Cardinality(Held(s)) - RESULT_HISTORY
      rank(i) == Cardinality({j \in Done(s) : <<i, j>> \in s.older})
  IN  Drop(s, {i \in Done(s) : rank(i) < excess})

(* The loop deletes the oldest finished entry while the size exceeds the   *)
(* bound and one is left: as many of the oldest as the excess.             *)
EvictOldestDone(s) ==
  LET excess == Cardinality(Held(s)) - RESULT_HISTORY
      rank(i) == Cardinality({j \in Done(s) : <<j, i>> \in s.older})
  IN  Drop(s, {i \in Done(s) : rank(i) < excess})

Begin_Slip(s, id) == Put(Drop(s, {id}), id, "running")

Begin(s, id) == EvictOldestDone(Put(Drop(s, {id}), id, "running"))
Finish(s, id, answer) == EvictOldestDone(Put(s, id, answer))

(* What GET /capture/<id> answers: 404, 202, or the original answer.       *)
StoredResultResponse(s, id) ==
  CASE s.entry[id] = "absent"  -> "404"
    [] s.entry[id] = "running" -> "202"
    [] OTHER                   -> s.entry[id]
=============================================================================
