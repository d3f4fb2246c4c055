---------------------------- MODULE LeaseProofs ----------------------------
(***************************************************************************)
(* What the two leases of a run guarantee, for any number of runs: that of *)
(* the page server here, that of the local worker VM below.                *)
(*                                                                         *)
(* As long as no two runs have kept books at once, whoever keeps books has *)
(* read of every run that uses the pages (Seen): so whoever finds itself   *)
(* the last one out stops a server that nobody uses (LastOut), and nobody  *)
(* starts to use one until it has stopped it (OneBook).                    *)
(*                                                                         *)
(* As long as no exit was cut short either, the file says who started the  *)
(* server (Recorded) whenever a server runs that nobody is about to stop   *)
(* (OneServer, Unbound): so the last one out finds it there (ReadIsNew).   *)
(***************************************************************************)
EXTENDS PageServerLease, VmLease, TLAPS

Read == {"join write", "leave write", "exit write"}
Stopping == {"stop", "stop now"}

OneBook ==
  \A r, q \in Runs : pc[r] \in Bookkeeping /\ pc[q] \in Bookkeeping => r = q

(* A run that uses the pages, or will as soon as it has joined.            *)
HasPages(r) ==
  \/ pc[r] \in {"using", "adopt"}
  \/ pc[r] = "join write" /\ r \notin starters

Served == \A r \in Runs : HasPages(r) => bound # None

Entered(r) == pc[r] \in {"waiting", "using"}

(* A run is in the file from its join on.                                  *)
Counted == \A r \in Runs : Entered(r) => r \in file.holders

Seen ==
  \A r, q \in Runs : pc[r] \in Read /\ pc[q] = "using" => q \in snap[r].holders

LastOut ==
  \A r, q \in Runs : pc[r] \in Stopping => pc[q] # "using"

Spawned == \A r \in Runs : pc[r] = "join" => r \in starters

Quiet == OneBook /\ Served /\ Counted /\ Seen /\ LastOut

LeaseInv == TypeOK /\ Spawned /\ (~torn => Quiet)

-----------------------------------------------------------------------------
LEMMA GotoFacts ==
  ASSUME TypeOK, NEW r \in Runs, NEW place \in Places, Goto(r, place)
  PROVE  /\ pc' \in [Runs -> Places]
         /\ pc'[r] = place
         /\ \A q \in Runs \ {r} : pc'[q] = pc[q]
BY DEF TypeOK, Goto

LEMMA ReadHoldersFacts ==
  ASSUME TypeOK
  PROVE  /\ ReadHolders \in Files
         /\ \A q \in Runs : q \in file.holders /\ Alive(q) => q \in ReadHolders.holders
BY DEF TypeOK, Files, ReadHolders

LEMMA ReadsFacts ==
  ASSUME TypeOK, NEW r \in Runs, NEW place \in Places, Reads(r, place)
  PROVE  /\ snap' \in [Runs -> Files]
         /\ snap'[r] = ReadHolders
         /\ \A q \in Runs \ {r} : snap'[q] = snap[q]
         /\ Goto(r, place)
BY ReadHoldersFacts DEF TypeOK, Reads

(* A read changes no server, and the ghosts stay Boolean.                  *)
LEMMA ReadTyped ==
  ASSUME TypeOK, NEW r \in Runs, NEW place \in Places, Reads(r, place),
         place \in {"waiting", "leave", "stop now"} => r \in starters,
         UNCHANGED <<file, starters, servers, bound>>,
         torn' \in BOOLEAN, cutShort' \in BOOLEAN, abrupt' \in BOOLEAN
  PROVE  TypeOK'
<1>1. snap' \in [Runs -> Files] /\ Goto(r, place)
  BY ReadsFacts
<1>2. /\ pc' \in [Runs -> Places] /\ pc'[r] = place
      /\ \A q \in Runs \ {r} : pc'[q] = pc[q]
  BY <1>1, GotoFacts
<1>3. QED
  BY <1>1, <1>2 DEF TypeOK

LEMMA WriteLeftFacts ==
  ASSUME TypeOK, NEW r \in Runs, WriteLeft(r)
  PROVE  /\ file' \in Files
         /\ \A q \in Runs \ {r} : q \in snap[r].holders => q \in file'.holders
<1>1. snap[r] \in Files
  BY DEF TypeOK
<1>2. CASE Remaining(r) = {}
  BY <1>1, <1>2 DEF WriteLeft, Remaining, Files, NoFile
<1>3. CASE Remaining(r) # {}
  BY <1>1, <1>3 DEF WriteLeft, Remaining, Files
<1>4. QED
  BY <1>2, <1>3

LEMMA KilledFacts ==
  ASSUME TypeOK, NEW s, Killed(s)
  PROVE  /\ servers' \subseteq servers
         /\ bound' \in servers' \cup {None}
BY NoneAssumption DEF TypeOK, Killed

-----------------------------------------------------------------------------
(* Type correctness.                                                       *)
LEMMA JoinsTyped ==
  ASSUME TypeOK, NEW r \in Runs, Joins(r)
  PROVE  TypeOK'
<1> USE DEF TypeOK, Places, Bookkeeping
<1>1. CASE Probe(r)
  BY <1>1 DEF Probe, Goto, Overlaps
<1>2. CASE Spawn(r)
  BY <1>2 DEF Spawn, Goto, ghosts
<1>3. CASE JoinHolders(r)
  BY <1>3, ReadTyped DEF JoinHolders, ghosts
<1>4. CASE WriteJoined(r)
  <2>1. snap[r] \in Files
    OBVIOUS
  <2>2. file' \in Files
    BY <1>4, <2>1 DEF WriteJoined, Files
  <2>3. QED
    BY <1>4, <2>2 DEF WriteJoined, Goto, ghosts
<1>5. CASE Serving(r)
  BY <1>5 DEF Serving, Goto, ghosts
<1>6. CASE NotServing(r)
  BY <1>6 DEF NotServing, Goto, ghosts
<1>7. QED
  BY <1>1, <1>2, <1>3, <1>4, <1>5, <1>6 DEF Joins

LEMMA LeavesTyped ==
  ASSUME TypeOK, NEW r \in Runs, Leaves(r)
  PROVE  TypeOK'
<1> USE DEF TypeOK, Places, Bookkeeping
<1>1. CASE Release(r)
  <2>1. torn' \in BOOLEAN /\ abrupt' \in BOOLEAN
    BY <1>1, Zenon DEF Release, Overlaps
  <2>2. QED
    BY <1>1, <2>1, ReadTyped DEF Release
<1>2. CASE Leave(r)
  BY <1>2, WriteLeftFacts DEF Leave, Goto, ghosts
<1>3. CASE Stop(r)
  <2>1. servers' \subseteq servers /\ bound' \in servers' \cup {None}
    BY <1>3, KilledFacts DEF Stop
  <2>2. QED
    BY <1>3, <2>1 DEF Stop, Goto, ghosts
<1>4. CASE Throws(r)
  BY <1>4 DEF Throws, Goto, ghosts
<1>5. CASE Exit(r)
  <2>1. torn' \in BOOLEAN /\ abrupt' \in BOOLEAN
    BY <1>5, Zenon DEF Exit, Overlaps
  <2>2. QED
    BY <1>5, <2>1, ReadTyped DEF Exit
<1>6. CASE LeaveAtExit(r)
  BY <1>6, WriteLeftFacts DEF LeaveAtExit, Goto
<1>7. CASE StopNow(r)
  <2>1. servers' \subseteq servers /\ bound' \in servers' \cup {None}
    BY <1>7, KilledFacts DEF StopNow
  <2>2. QED
    BY <1>7, <2>1 DEF StopNow, Goto, ghosts
<1>8. QED
  BY <1>1, <1>2, <1>3, <1>4, <1>5, <1>6, <1>7 DEF Leaves

LEMMA OthersTyped ==
  ASSUME TypeOK, NEW r \in Runs, Dies(r) \/ Binds(r) \/ Ends(r)
  PROVE  TypeOK'
<1> USE DEF TypeOK, Places, Bookkeeping
<1>1. CASE Dies(r)
  BY <1>1 DEF Dies, Goto
<1>2. CASE Binds(r)
  BY <1>2 DEF Binds, ghosts
<1>3. CASE Ends(r)
  BY <1>3 DEF Ends, ghosts
<1>4. QED
  BY <1>1, <1>2, <1>3

LEMMA StepTyped == TypeOK /\ [Next]_vars => TypeOK'
<1>1. ASSUME TypeOK, UNCHANGED vars PROVE TypeOK'
  BY <1>1 DEF TypeOK, vars
<1>2. QED
  BY <1>1, JoinsTyped, LeavesTyped, OthersTyped DEF Next

LEMMA InitTyped == Init => TypeOK
<1>1. NoFile \in Files
  BY DEF NoFile, Files
<1>2. QED
  BY <1>1 DEF Init, TypeOK, Places

(* Every reachable state of the file, the runs and their servers is of     *)
(* the declared types: only what a run spawned serves.                     *)
THEOREM LeaseTypeCorrect == Spec => []TypeOK
BY InitTyped, StepTyped, PTL DEF Spec

-----------------------------------------------------------------------------
(* Nobody is pulled.                                                       *)

(* A run begins to keep books only beside nobody else who does.            *)
Begins(r) == Probe(r) \/ Release(r) \/ Exit(r)

LEMMA BeginsAlone ==
  ASSUME NEW r \in Runs, Begins(r), ~torn'
  PROVE  \A q \in Runs \ {r} : pc[q] \notin Bookkeeping
BY DEF Begins, Probe, Release, Exit, Overlaps

LEMMA ProbeQuiet ==
  ASSUME LeaseInv, NEW r \in Runs, Probe(r), ~torn'
  PROVE  Quiet'
<1>1. /\ ~torn /\ Quiet /\ TypeOK
      /\ \A q \in Runs \ {r} : pc[q] \notin Bookkeeping
  BY BeginsAlone DEF LeaseInv, Begins, Probe, Overlaps
<1>2. /\ pc' \in [Runs -> Places]
      /\ pc'[r] = IF bound # None THEN "adopt" ELSE "spawn"
      /\ \A q \in Runs \ {r} : pc'[q] = pc[q]
  BY <1>1, GotoFacts DEF Probe, Places, Bookkeeping
<1>3. UNCHANGED <<file, snap, starters, bound>>
  BY DEF Probe
<1>4. OneBook'
  BY <1>1, <1>2 DEF OneBook
<1>5. Served'
  BY <1>1, <1>2, <1>3 DEF Quiet, Served, HasPages
<1>6. Counted' /\ Seen' /\ LastOut'
  BY <1>1, <1>2, <1>3 DEF Quiet, Counted, Entered, Seen, LastOut, Read, Stopping
<1>7. QED
  BY <1>4, <1>5, <1>6 DEF Quiet

(* Steps of a run that keeps books and goes on doing so, or stops.         *)
LEMMA JoinQuiet ==
  ASSUME LeaseInv, NEW r \in Runs,
         Spawn(r) \/ JoinHolders(r) \/ WriteJoined(r) \/ Serving(r) \/ NotServing(r),
         ~torn'
  PROVE  Quiet'
<1>0. UNCHANGED torn /\ pc[r] \in Bookkeeping
  BY DEF Spawn, JoinHolders, WriteJoined, Serving, NotServing, ghosts, Bookkeeping
<1>1. /\ ~torn /\ Quiet /\ TypeOK /\ Spawned
      /\ pc[r] \in Bookkeeping
  BY <1>0 DEF LeaseInv
<1>2. \A q \in Runs \ {r} : pc[q] \notin Bookkeeping
  BY <1>1 DEF Quiet, OneBook
<1>3. CASE Spawn(r)
  <2>1. /\ pc' \in [Runs -> Places] /\ pc'[r] = "join"
        /\ \A q \in Runs \ {r} : pc'[q] = pc[q]
        /\ starters' = starters \cup {r}
        /\ UNCHANGED <<file, snap, bound>>
    BY <1>1, <1>3, GotoFacts DEF Spawn, Places, Bookkeeping
  <2>2. QED
    BY <1>1, <1>2, <2>1
    DEF Quiet, OneBook, Served, HasPages, Counted, Entered, Seen, LastOut, Read, Stopping
<1>4. CASE JoinHolders(r)
  <2>1. /\ pc' \in [Runs -> Places] /\ pc'[r] = "join write" /\ pc[r] \in {"adopt", "join"}
        /\ \A q \in Runs \ {r} : pc'[q] = pc[q]
        /\ snap'[r] = ReadHolders
        /\ UNCHANGED <<file, starters, bound>>
    BY <1>1, <1>4, GotoFacts, ReadsFacts DEF JoinHolders, Places, Bookkeeping
  <2>2. \A q \in Runs : pc[q] = "using" => q \in ReadHolders.holders
    BY <1>1, ReadHoldersFacts DEF Quiet, Counted, Entered, Alive
  <2>3. OneBook'
    BY <1>2, <2>1 DEF OneBook
  <2>4. Served'
    BY <1>1, <1>2, <2>1 DEF Quiet, Served, HasPages, Spawned
  <2>5. Counted' /\ LastOut'
    BY <1>1, <1>2, <2>1 DEF Quiet, Counted, Entered, LastOut, Stopping
  <2>6. Seen'
    BY <1>2, <2>1, <2>2 DEF Seen, Read, Bookkeeping
  <2>7. QED
    BY <2>3, <2>4, <2>5, <2>6 DEF Quiet
<1>5. CASE WriteJoined(r)
  <2>1. /\ pc' \in [Runs -> Places] /\ pc[r] = "join write"
        /\ pc'[r] = IF r \in starters THEN "waiting" ELSE "using"
        /\ \A q \in Runs \ {r} : pc'[q] = pc[q]
        /\ file'.holders = snap[r].holders \cup {r}
        /\ UNCHANGED <<snap, starters, bound>>
    BY <1>1, <1>5, GotoFacts DEF WriteJoined, Places, Bookkeeping
  <2>2. OneBook' /\ Served'
    BY <1>1, <1>2, <2>1 DEF Quiet, OneBook, Served, HasPages
  <2>3. Counted'
    BY <1>1, <1>2, <2>1 DEF Quiet, Seen, Read, Counted, Entered, Bookkeeping
  <2>4. Seen' /\ LastOut'
    BY <1>1, <1>2, <2>1 DEF Seen, LastOut, Read, Stopping, Bookkeeping
  <2>5. QED
    BY <2>2, <2>3, <2>4 DEF Quiet
<1>6. CASE Serving(r)
  <2>1. /\ pc' \in [Runs -> Places] /\ pc[r] = "waiting" /\ pc'[r] = "using"
        /\ \A q \in Runs \ {r} : pc'[q] = pc[q]
        /\ bound # None
        /\ UNCHANGED <<file, snap, starters, bound>>
    BY <1>1, <1>6, GotoFacts DEF Serving, Places, Bookkeeping
  <2>2. OneBook' /\ Served'
    BY <1>1, <1>2, <2>1 DEF Quiet, OneBook, Served, HasPages
  <2>3. r \in file.holders
    BY <1>1, <2>1 DEF Quiet, Counted, Entered
  <2>4. Counted'
    BY <1>1, <2>1, <2>3 DEF Quiet, Counted, Entered
  <2>5. Seen' /\ LastOut'
    BY <1>1, <1>2, <2>1 DEF Quiet, Seen, LastOut, Read, Stopping, Bookkeeping
  <2>6. QED
    BY <2>2, <2>4, <2>5 DEF Quiet
<1>7. CASE NotServing(r)
  <2>1. /\ pc' \in [Runs -> Places] /\ pc'[r] = "leave"
        /\ \A q \in Runs \ {r} : pc'[q] = pc[q]
        /\ UNCHANGED <<file, snap, starters, bound>>
    BY <1>1, <1>7, GotoFacts DEF NotServing, Places, Bookkeeping
  <2>2. QED
    BY <1>1, <1>2, <2>1
    DEF Quiet, OneBook, Served, HasPages, Counted, Entered, Seen, LastOut, Read, Stopping
<1>8. QED
  BY <1>3, <1>4, <1>5, <1>6, <1>7

(* Release and Exit read, Throws only ends.                                *)
LEMMA LeaveReadQuiet ==
  ASSUME LeaseInv, NEW r \in Runs, Release(r) \/ Exit(r), ~torn'
  PROVE  Quiet'
<1>1. /\ ~torn /\ Quiet /\ TypeOK
      /\ \A q \in Runs \ {r} : pc[q] \notin Bookkeeping
  BY BeginsAlone DEF LeaseInv, Begins, Release, Exit, Overlaps
<1>2. PICK place \in {"leave write", "exit write"} : Reads(r, place)
  BY DEF Release, Exit
<1>3. /\ pc' \in [Runs -> Places] /\ pc'[r] = place
      /\ \A q \in Runs \ {r} : pc'[q] = pc[q]
      /\ snap'[r] = ReadHolders
  BY <1>1, <1>2, GotoFacts, ReadsFacts DEF Places, Bookkeeping
<1>4. UNCHANGED <<file, starters, bound>>
  BY DEF Release, Exit
<1>5. \A q \in Runs : pc[q] = "using" => q \in ReadHolders.holders
  BY <1>1, ReadHoldersFacts DEF Quiet, Counted, Entered, Alive
<1>6. OneBook' /\ Served' /\ Counted' /\ LastOut'
  BY <1>1, <1>3, <1>4
  DEF Quiet, OneBook, Served, HasPages, Counted, Entered, LastOut, Stopping
<1>7. Seen'
  BY <1>1, <1>3, <1>5 DEF Seen, Read, Bookkeeping
<1>8. QED
  BY <1>6, <1>7 DEF Quiet

LEMMA LeaveWriteQuiet ==
  ASSUME LeaseInv, NEW r \in Runs, Leave(r) \/ LeaveAtExit(r), ~torn'
  PROVE  Quiet'
<1>0. UNCHANGED torn /\ pc[r] \in {"leave write", "exit write"} /\ WriteLeft(r)
  BY DEF Leave, LeaveAtExit, ghosts
<1>1. ~torn /\ Quiet /\ TypeOK
  BY <1>0 DEF LeaseInv
<1>2. \A q \in Runs \ {r} : pc[q] \notin Bookkeeping
  BY <1>0, <1>1 DEF Quiet, OneBook, Bookkeeping
<1>3. PICK place \in {"stop", "exit", "stop now", "gone"} :
        /\ Goto(r, place)
        /\ place \in Stopping => Remaining(r) = {}
  BY DEF Leave, LeaveAtExit, Stopping
<1>4. /\ pc' \in [Runs -> Places] /\ pc'[r] = place
      /\ \A q \in Runs \ {r} : pc'[q] = pc[q]
  BY <1>1, <1>3, GotoFacts DEF Places, Bookkeeping
<1>5. UNCHANGED <<snap, starters, bound>>
  BY DEF Leave, LeaveAtExit
<1>6. \A q \in Runs : pc[q] = "using" => q \in snap[r].holders /\ q # r
  BY <1>0, <1>1 DEF Quiet, Seen, Read
<1>7. \A q \in Runs : pc[q] = "using" => q \in file'.holders
  BY <1>0, <1>1, <1>6, WriteLeftFacts
<1>8. Counted'
  BY <1>2, <1>4, <1>7 DEF Counted, Entered, Bookkeeping
<1>9. LastOut'
  BY <1>1, <1>3, <1>4, <1>6 DEF Quiet, LastOut, Stopping, Remaining
<1>10. OneBook' /\ Served' /\ Seen'
  BY <1>1, <1>2, <1>4, <1>5 DEF Quiet, OneBook, Served, HasPages, Seen, Read
<1>11. QED
  BY <1>8, <1>9, <1>10 DEF Quiet

(* Whoever stops a server is the last one out: nobody has the pages.       *)
LEMMA StopQuiet ==
  ASSUME LeaseInv, NEW r \in Runs, Stop(r) \/ StopNow(r), ~torn'
  PROVE  Quiet'
<1>0. UNCHANGED torn /\ pc[r] \in Stopping
  BY DEF Stop, StopNow, ghosts, Stopping
<1>1. ~torn /\ Quiet /\ TypeOK
  BY <1>0 DEF LeaseInv
<1>2. \A q \in Runs \ {r} : pc[q] \notin Bookkeeping
  BY <1>0, <1>1 DEF Quiet, OneBook, Bookkeeping, Stopping
<1>3. PICK place \in {"exit", "gone"} : Goto(r, place)
  BY DEF Stop, StopNow
<1>4. /\ pc' \in [Runs -> Places] /\ pc'[r] = place
      /\ \A q \in Runs \ {r} : pc'[q] = pc[q]
  BY <1>1, <1>3, GotoFacts DEF Places
<1>5. UNCHANGED <<file, snap, starters>>
  BY DEF Stop, StopNow
<1>6. \A q \in Runs : pc'[q] # "using"
  BY <1>0, <1>1, <1>4 DEF Quiet, LastOut
<1>7. Served'
  BY <1>2, <1>4, <1>6 DEF Served, HasPages, Bookkeeping
<1>8. OneBook' /\ Counted' /\ Seen' /\ LastOut'
  BY <1>2, <1>4, <1>6
  DEF OneBook, Counted, Entered, Seen, LastOut, Stopping, Bookkeeping
<1>9. QED
  BY <1>7, <1>8 DEF Quiet

(* A run that ends without keeping books, and what the servers do.         *)
LEMMA EndQuiet ==
  ASSUME LeaseInv, NEW r \in Runs, Throws(r) \/ Dies(r), ~torn'
  PROVE  Quiet'
<1>1. ~torn /\ Quiet /\ TypeOK
  BY DEF LeaseInv, Throws, Dies, ghosts
<1>2. PICK place \in {"exit", "gone"} : Goto(r, place)
  BY DEF Throws, Dies
<1>3. /\ pc' \in [Runs -> Places] /\ pc'[r] = place
      /\ \A q \in Runs \ {r} : pc'[q] = pc[q]
  BY <1>1, <1>2, GotoFacts DEF Places
<1>4. UNCHANGED <<file, snap, starters, bound>>
  BY DEF Throws, Dies
<1>5. OneBook' /\ Served' /\ Counted'
  BY <1>1, <1>3, <1>4
  DEF Quiet, OneBook, Served, HasPages, Counted, Entered, Bookkeeping
<1>6. Seen' /\ LastOut'
  BY <1>1, <1>3, <1>4 DEF Quiet, Seen, LastOut, Read, Stopping
<1>7. QED
  BY <1>5, <1>6 DEF Quiet

LEMMA ServerQuiet ==
  ASSUME LeaseInv, NEW r \in Runs, Binds(r) \/ Ends(r), ~torn'
  PROVE  Quiet'
<1>1. ~torn /\ Quiet /\ TypeOK
  BY DEF LeaseInv, Binds, Ends, ghosts
<1>2. UNCHANGED <<file, pc, snap, starters>>
  BY DEF Binds, Ends
<1>3. bound # None => bound' # None
  BY DEF Binds, Ends
<1>4. Served'
  BY <1>1, <1>2, <1>3 DEF Quiet, Served, HasPages
<1>5. OneBook' /\ Counted' /\ Seen' /\ LastOut'
  BY <1>1, <1>2 DEF Quiet, OneBook, Counted, Entered, Seen, LastOut
<1>6. QED
  BY <1>4, <1>5 DEF Quiet

-----------------------------------------------------------------------------
LEMMA SpawnedKept ==
  ASSUME TypeOK, Spawned, Next
  PROVE  Spawned'
<1>1. PICK r \in Runs : Joins(r) \/ Leaves(r) \/ Dies(r) \/ Binds(r) \/ Ends(r)
  BY DEF Next
<1>2. starters \subseteq starters'
  BY <1>1 DEF Joins, Leaves, Probe, Spawn, JoinHolders, WriteJoined, Serving, NotServing,
              Release, Leave, Stop, Throws, Exit, LeaveAtExit, StopNow, Dies, Binds, Ends
<1>3. CASE Spawn(r)
  BY <1>3 DEF Spawn, Goto, TypeOK, Spawned
<1>4. CASE UNCHANGED pc
  BY <1>2, <1>4 DEF Spawned
<1>5. CASE \E place \in Places \ {"join"} : Goto(r, place)
  BY <1>2, <1>5 DEF Goto, TypeOK, Spawned
<1>6. Spawn(r) \/ UNCHANGED pc \/ \E place \in Places \ {"join"} : Goto(r, place)
  BY <1>1 DEF Joins, Leaves, Probe, JoinHolders, WriteJoined, Serving, NotServing, Reads,
              Release, Leave, Stop, Throws, Exit, LeaveAtExit, StopNow, Dies, Binds, Ends,
              Places, Bookkeeping
<1>7. QED
  BY <1>3, <1>4, <1>5, <1>6

LEMMA StepQuiet ==
  ASSUME LeaseInv, [Next]_vars
  PROVE  LeaseInv'
<1>1. TypeOK'
  BY StepTyped DEF LeaseInv
<1>2. CASE UNCHANGED vars
  BY <1>1, <1>2
  DEF LeaseInv, Spawned, Quiet, OneBook, Served, HasPages, Counted, Entered, Seen, LastOut, vars
<1>3. CASE Next
  <2>1. Spawned'
    BY <1>3, SpawnedKept DEF LeaseInv
  <2>2. PICK r \in Runs : Joins(r) \/ Leaves(r) \/ Dies(r) \/ Binds(r) \/ Ends(r)
    BY <1>3 DEF Next
  <2>3. ASSUME ~torn' PROVE Quiet'
    BY <2>2, <2>3, ProbeQuiet, JoinQuiet, LeaveReadQuiet, LeaveWriteQuiet, StopQuiet,
       EndQuiet, ServerQuiet DEF Joins, Leaves
  <2>4. QED
    BY <1>1, <2>1, <2>3 DEF LeaseInv
<1>4. QED
  BY <1>2, <1>3

LEMMA InitQuiet == Init => LeaseInv
BY InitTyped
DEF Init, LeaseInv, Spawned, Quiet, OneBook, Served, HasPages, Counted, Entered, Seen,
    LastOut, Read, Stopping, Bookkeeping

(* A run that was told its pages are served has them, whoever released,    *)
(* threw or was killed before, unless the bookkeeping of two overlapped.   *)
THEOREM NoRunIsPulled == Spec => []NobodyIsPulled
<1>1. LeaseInv => NobodyIsPulled
  BY DEF LeaseInv, Quiet, Served, HasPages, NobodyIsPulled
<1>2. QED
  BY <1>1, InitQuiet, StepQuiet, PTL DEF Spec
-----------------------------------------------------------------------------
(* The last one out turns the lights off.                                  *)

Leaving == {"leave write", "exit write"}
Joining == {"join", "join write"}

(* Where a starter answers for its server, until it has left the file.     *)
Owning == Joining \cup {"waiting", "using", "leave", "leave write"}
Starting == Joining \cup {"waiting", "leave", "leave write", "stop"}

(* A run is in the file, or in what another read of it, by its own join,   *)
(* and it starts a server before.                                          *)
Fresh ==
  \A r \in Runs :
    /\ pc[r] \in {"new", "adopt", "spawn"} => r \notin starters
    /\ pc[r] \in {"new", "adopt", "spawn"} \cup Joining =>
         r \notin file.holders /\ \A q \in Runs : r \notin snap[q].holders

(* There is one server, the one its starter spawned and whoever is the     *)
(* last one out stops.                                                     *)
OneServer ==
  \A r \in Runs :
    /\ pc[r] = "spawn" => servers = {}
    /\ r \in starters /\ pc[r] \in Owning => servers \subseteq {r}
    /\ pc[r] = "stop" => servers \subseteq {IF r \in starters THEN r ELSE snap[r].server}
    /\ pc[r] = "stop now" => servers \subseteq {r}

(* The file names it, except while its starter has not joined or the last  *)
(* one out has not stopped it; so does what is read of the file.           *)
Recorded ==
  /\ \/ servers \subseteq {file.server}
     \/ \E r \in Runs : pc[r] \in Stopping \/ (r \in starters /\ pc[r] \in Joining)
  /\ \A r \in Runs :
       pc[r] \in Leaving \/ (pc[r] = "join write" /\ r \notin starters)
         => servers \subseteq {snap[r].server}

(* A server that has not got the port yet has its starter wait for it, and *)
(* nobody else hold it.                                                    *)
Unbound ==
  bound = None =>
    /\ servers = {} \/ \E r \in starters : pc[r] \in Starting
    /\ \A q \in Runs : q \in file.holders /\ Alive(q) =>
         pc[q] \in {"waiting", "leave", "leave write"}
    /\ \A r \in Runs : pc[r] \in Leaving => Remaining(r) = {}

(* Nothing was added to the file since it was read, and whoever is the     *)
(* last one out has removed it.                                            *)
ReadIsNew ==
  \A r \in Runs :
    /\ pc[r] \in Read => snap[r].holders \subseteq file.holders
    /\ pc[r] \in Stopping => file = NoFile

(* A server has a holder alive, or somebody about to join or to stop it.   *)
Held ==
  \/ \E q \in Runs : q \in file.holders /\ Alive(q)
  \/ \E r \in Runs : pc[r] \in Joining \cup Stopping
  \/ \E r \in Runs : pc[r] \in Leaving /\ Remaining(r) = {}

Answered ==
  ~abrupt =>
    /\ servers = {} \/ Held
    /\ \A r \in Runs : pc[r] \in Leaving => \A q \in Remaining(r) : Alive(q)

Clean == OneServer /\ Recorded /\ Unbound /\ ReadIsNew /\ Answered

CleanInv == LeaseInv /\ Fresh /\ (~torn /\ ~cutShort => Clean)


-----------------------------------------------------------------------------
LEMMA FreshKept ==
  ASSUME TypeOK, Fresh, [Next]_vars
  PROVE  Fresh'
<1> USE DEF Joining
<1>1. CASE UNCHANGED vars
  BY <1>1 DEF Fresh, vars
<1>2. ASSUME NEW r \in Runs, Spawn(r)
      PROVE  Fresh'
  <2>1. /\ pc' \in [Runs -> Places] /\ pc[r] = "spawn" /\ pc'[r] = "join"
        /\ \A q \in Runs \ {r} : pc'[q] = pc[q]
        /\ starters' = starters \cup {r}
        /\ UNCHANGED <<file, snap>>
    BY <1>2, GotoFacts DEF Spawn, Places, Bookkeeping
  <2>2. QED
    BY <2>1 DEF Fresh
<1>3. ASSUME NEW r \in Runs, NEW place \in Places, Reads(r, place),
             pc[r] \in {"new", "adopt", "spawn"} \cup Joining
               \/ place \notin {"new", "adopt", "spawn"} \cup Joining,
             place \notin {"new", "adopt", "spawn"},
             UNCHANGED <<file, starters>>
      PROVE  Fresh'
  <2>1. /\ pc' \in [Runs -> Places] /\ pc'[r] = place
        /\ \A q \in Runs \ {r} : pc'[q] = pc[q]
        /\ \A q \in Runs \ {r} : snap'[q] = snap[q]
        /\ snap'[r].holders \subseteq file.holders
    <3>1. /\ Goto(r, place) /\ snap'[r] = ReadHolders
          /\ \A q \in Runs \ {r} : snap'[q] = snap[q]
      BY <1>3, ReadsFacts
    <3>2. QED
      BY <3>1, GotoFacts DEF ReadHolders
  <2>2. QED
    BY <1>3, <2>1 DEF Fresh
<1>4. ASSUME NEW r \in Runs, WriteJoined(r)
      PROVE  Fresh'
  <2>1. /\ pc' \in [Runs -> Places] /\ pc'[r] \in {"waiting", "using"}
        /\ \A q \in Runs \ {r} : pc'[q] = pc[q]
        /\ file'.holders = snap[r].holders \cup {r}
        /\ UNCHANGED <<snap, starters>>
    BY <1>4, GotoFacts DEF WriteJoined, Places, Bookkeeping
  <2>2. QED
    BY <2>1 DEF Fresh
<1>5. ASSUME NEW r \in Runs, Leave(r) \/ LeaveAtExit(r)
      PROVE  Fresh'
  <2>1. PICK place \in {"stop", "exit", "stop now", "gone"} : Goto(r, place)
    BY <1>5 DEF Leave, LeaveAtExit
  <2>2. /\ pc' \in [Runs -> Places] /\ pc'[r] = place
        /\ \A q \in Runs \ {r} : pc'[q] = pc[q]
    BY <2>1, GotoFacts DEF Places, Bookkeeping
  <2>3. WriteLeft(r) /\ UNCHANGED <<snap, starters>>
    BY <1>5 DEF Leave, LeaveAtExit, ghosts
  <2>4. file'.holders \subseteq snap[r].holders
    BY <2>3 DEF WriteLeft, Remaining, NoFile
  <2>5. QED
    BY <2>2, <2>3, <2>4 DEF Fresh
<1>6. ASSUME NEW r \in Runs, NEW place \in Places, Goto(r, place),
             UNCHANGED <<file, snap, starters>>,
             (pc[r] = "new" /\ place \in {"adopt", "spawn"})
               \/ place \notin {"new", "adopt", "spawn"} \cup Joining
      PROVE  Fresh'
  <2>1. /\ pc' \in [Runs -> Places] /\ pc'[r] = place
        /\ \A q \in Runs \ {r} : pc'[q] = pc[q]
    BY <1>6, GotoFacts
  <2>2. QED
    BY <1>6, <2>1 DEF Fresh
<1>7. ASSUME NEW r \in Runs, Binds(r) \/ Ends(r)
      PROVE  Fresh'
  BY <1>7 DEF Binds, Ends, Fresh
<1>8. ASSUME NEW r \in Runs, Joins(r)
      PROVE  Fresh'
  <2>1. CASE Probe(r)
    BY <1>6, <2>1 DEF Probe, Places, Bookkeeping
  <2>2. CASE JoinHolders(r)
    BY <1>3, <2>2 DEF JoinHolders, Places, Bookkeeping, ghosts
  <2>3. CASE Serving(r) \/ NotServing(r)
    BY <1>6, <2>3 DEF Serving, NotServing, Places, Bookkeeping, ghosts
  <2>4. QED
    BY <1>2, <1>4, <1>8, <2>1, <2>2, <2>3 DEF Joins
<1>9. ASSUME NEW r \in Runs, Leaves(r)
      PROVE  Fresh'
  <2>1. CASE Release(r) \/ Exit(r)
    BY <1>3, <2>1 DEF Release, Exit, Places, Bookkeeping
  <2>2. CASE Stop(r) \/ Throws(r) \/ StopNow(r)
    BY <1>6, <2>2 DEF Stop, Throws, StopNow, Places, Bookkeeping, ghosts
  <2>3. QED
    BY <1>5, <1>9, <2>1, <2>2 DEF Leaves
<1>10. ASSUME NEW r \in Runs, Dies(r)
       PROVE  Fresh'
  BY <1>6, <1>10 DEF Dies, Places, Bookkeeping
<1>11. QED
  BY <1>1, <1>7, <1>8, <1>9, <1>10 DEF Next

(* Neither ghost is ever taken back.                                       *)
LEMMA SteadyBefore ==
  ASSUME NEW r \in Runs, Joins(r) \/ Leaves(r) \/ Dies(r) \/ Binds(r) \/ Ends(r),
         ~torn', ~cutShort'
  PROVE  ~torn /\ ~cutShort
<1>1. CASE Probe(r) \/ Release(r) \/ Exit(r)
  <2>1. UNCHANGED cutShort
    BY <1>1 DEF Probe, Release, Exit
  <2>2. torn => torn'
    BY <1>1, Zenon DEF Probe, Release, Exit, Overlaps
  <2>3. QED
    BY <2>1, <2>2
<1>2. CASE LeaveAtExit(r) \/ Dies(r)
  <2>1. UNCHANGED torn
    BY <1>2 DEF LeaveAtExit, Dies
  <2>2. cutShort => cutShort'
    BY <1>2, Zenon DEF LeaveAtExit, Dies
  <2>3. QED
    BY <2>1, <2>2
<1>3. CASE Spawn(r) \/ JoinHolders(r) \/ WriteJoined(r) \/ Serving(r) \/ NotServing(r)
  <2>1. UNCHANGED <<torn, cutShort>>
    BY <1>3 DEF Spawn, JoinHolders, WriteJoined, Serving, NotServing, ghosts
  <2>2. QED
    BY <2>1
<1>4. CASE Leave(r) \/ Stop(r) \/ Throws(r) \/ StopNow(r) \/ Binds(r) \/ Ends(r)
  <2>1. UNCHANGED <<torn, cutShort>>
    BY <1>4 DEF Leave, Stop, Throws, StopNow, Binds, Ends, ghosts
  <2>2. QED
    BY <2>1
<1>5. QED
  BY <1>1, <1>2, <1>3, <1>4 DEF Joins, Leaves

LEMMA CleanProbe ==
  ASSUME CleanInv, NEW r \in Runs, Probe(r), ~torn', ~cutShort'
  PROVE  Clean'
<1> USE DEF Read, Stopping, Leaving, Joining, Owning, Starting, Bookkeeping
<1>1. /\ TypeOK /\ Fresh /\ Quiet /\ Clean
      /\ \A q \in Runs \ {r} : pc[q] \notin Bookkeeping
  BY BeginsAlone DEF CleanInv, LeaseInv, Begins, Probe, Overlaps
<1>2. /\ pc' \in [Runs -> Places] /\ pc[r] = "new"
      /\ pc'[r] = IF bound # None THEN "adopt" ELSE "spawn"
      /\ \A q \in Runs \ {r} : pc'[q] = pc[q]
  BY <1>1, GotoFacts DEF Probe, Places
<1>3. UNCHANGED <<file, snap, starters, servers, bound, abrupt>>
  BY DEF Probe
<1>4. starters \subseteq Runs /\ servers \subseteq starters
  BY <1>1 DEF TypeOK
<1>5. bound = None => servers = {}
  BY <1>1, <1>2, <1>4 DEF Clean, Unbound
<1>6. OneServer'
  BY <1>1, <1>2, <1>3, <1>5 DEF Clean, OneServer
<1>7. Recorded'
  BY <1>1, <1>2, <1>3 DEF Clean, Recorded
<1>8. Unbound'
  BY <1>1, <1>2, <1>3, <1>5 DEF Clean, Unbound, Fresh, Alive, Remaining
<1>9. ReadIsNew'
  BY <1>1, <1>2, <1>3 DEF Clean, ReadIsNew
<1>10. Answered'
  BY <1>1, <1>2, <1>3 DEF Clean, Answered, Held, Alive, Remaining
<1>11. QED
  BY <1>6, <1>7, <1>8, <1>9, <1>10 DEF Clean

(* A step of the run that keeps books: nobody else does.                   *)
LEMMA CleanKeepsBooks ==
  ASSUME CleanInv, NEW r \in Runs, pc[r] \in Bookkeeping, ~torn, ~cutShort
  PROVE  /\ TypeOK /\ Fresh /\ Quiet /\ Clean
         /\ \A q \in Runs \ {r} : pc[q] \notin Bookkeeping
BY DEF CleanInv, LeaseInv, Quiet, OneBook

LEMMA CleanSpawn ==
  ASSUME CleanInv, NEW r \in Runs, Spawn(r), ~torn', ~cutShort'
  PROVE  Clean'
<1> USE DEF Read, Stopping, Leaving, Joining, Owning, Starting, Bookkeeping
<1>1. /\ TypeOK /\ Fresh /\ Quiet /\ Clean
      /\ \A q \in Runs \ {r} : pc[q] \notin Bookkeeping
  BY CleanKeepsBooks DEF Spawn, ghosts
<1>2. /\ pc' \in [Runs -> Places] /\ pc[r] = "spawn" /\ pc'[r] = "join"
      /\ \A q \in Runs \ {r} : pc'[q] = pc[q]
  BY <1>1, GotoFacts DEF Spawn, Places
<1>3. /\ UNCHANGED <<file, snap, bound, abrupt>>
      /\ starters' = starters \cup {r} /\ servers' = servers \cup {r}
  BY DEF Spawn, ghosts
<1>4. servers = {} /\ bound = None
  BY <1>1, <1>2 DEF Clean, OneServer, TypeOK
<1>5. \A q \in Runs : pc[q] # "using"
  BY <1>1, <1>4 DEF Quiet, Served, HasPages
<1>6. OneServer'
  BY <1>1, <1>2, <1>3, <1>4, <1>5 DEF OneServer
<1>7. Recorded'
  BY <1>1, <1>2, <1>3 DEF Recorded
<1>8. Unbound'
  BY <1>1, <1>2, <1>3, <1>4 DEF Clean, Unbound, Fresh, Alive, Remaining
<1>9. ReadIsNew'
  BY <1>1, <1>2, <1>3 DEF ReadIsNew
<1>10. Answered'
  BY <1>1, <1>2, <1>3 DEF Answered, Held
<1>11. QED
  BY <1>6, <1>7, <1>8, <1>9, <1>10 DEF Clean

LEMMA CleanJoinHolders ==
  ASSUME CleanInv, NEW r \in Runs, JoinHolders(r), ~torn', ~cutShort'
  PROVE  Clean'
<1> USE DEF Read, Stopping, Leaving, Joining, Owning, Starting, Bookkeeping
<1>1. /\ TypeOK /\ Fresh /\ Quiet /\ Clean
      /\ \A q \in Runs \ {r} : pc[q] \notin Bookkeeping
  BY CleanKeepsBooks DEF JoinHolders, ghosts
<1>2. /\ pc' \in [Runs -> Places]
      /\ pc[r] \in {"adopt", "join"} /\ pc'[r] = "join write"
      /\ \A q \in Runs \ {r} : pc'[q] = pc[q]
  BY <1>1, GotoFacts DEF JoinHolders, Reads, Places
<1>3. /\ UNCHANGED <<file, starters, servers, bound, abrupt>>
      /\ snap'[r] = ReadHolders
      /\ \A q \in Runs \ {r} : snap'[q] = snap[q]
  BY <1>1, ReadsFacts DEF JoinHolders, ghosts, Places
<1>4. /\ pc[r] = "adopt" => r \notin starters
      /\ pc[r] = "join" => r \in starters
  BY <1>1 DEF Fresh, CleanInv, LeaseInv, Spawned
<1>5. OneServer'
  <2>1. r \in starters => servers \subseteq {r}
    BY <1>1, <1>2, <1>4 DEF Clean, OneServer
  <2>2. \A q \in Runs \ {r} : q \in starters /\ pc[q] = "using" => servers \subseteq {q}
    BY <1>1 DEF Clean, OneServer
  <2>3. SUFFICES ASSUME NEW q \in Runs
                 PROVE  /\ pc'[q] \notin {"spawn", "stop", "stop now"}
                        /\ q \in starters /\ pc'[q] \in Owning => servers \subseteq {q}
    BY <1>3 DEF OneServer
  <2>4. CASE q = r
    BY <1>2, <2>1, <2>4
  <2>5. CASE q # r
    BY <1>1, <1>2, <2>2, <2>5
  <2>6. QED
    BY <2>4, <2>5
<1>6. Recorded'
  <2>1. r \notin starters => servers \subseteq {file.server}
    BY <1>1, <1>2, <1>4 DEF Clean, Recorded
  <2>2. r \notin starters => servers \subseteq {ReadHolders.server}
    BY <2>1 DEF ReadHolders
  <2>3. servers \subseteq {file.server} \/ r \in starters
    BY <2>1
  <2>4. QED
    BY <1>1, <1>2, <1>3, <2>2, <2>3 DEF Recorded
<1>7. Unbound'
  <2>1. SUFFICES ASSUME bound = None
                 PROVE  Unbound'
    BY <1>3 DEF Unbound
  <2>2. r \in starters
    BY <1>1, <1>2, <1>4, <2>1 DEF Quiet, Served, HasPages
  <2>3. \A q \in Runs : q \in file.holders => ~Alive(q)
    <3>1. r \notin file.holders
      BY <1>1, <1>2 DEF Fresh
    <3>2. QED
      BY <1>1, <2>1, <3>1 DEF Clean, Unbound
  <2>4. \A q \in Runs : q \in file.holders => q # r /\ ~Alive(q)'
    BY <1>1, <1>2, <2>3 DEF Fresh, Alive
  <2>5. \A q \in Runs : pc'[q] \notin Leaving
    BY <1>1, <1>2
  <2>6. QED
    BY <1>2, <1>3, <2>2, <2>4, <2>5 DEF Unbound
<1>8. ReadIsNew'
  <2>1. ReadHolders.holders \subseteq file.holders
    BY DEF ReadHolders
  <2>2. QED
    BY <1>1, <1>2, <1>3, <2>1 DEF ReadIsNew
<1>9. Answered'
  BY <1>1, <1>2, <1>3 DEF Answered, Held
<1>10. QED
  BY <1>5, <1>6, <1>7, <1>8, <1>9 DEF Clean

LEMMA CleanWriteJoined ==
  ASSUME CleanInv, NEW r \in Runs, WriteJoined(r), ~torn', ~cutShort'
  PROVE  Clean'
<1> USE DEF Read, Stopping, Leaving, Joining, Owning, Starting, Bookkeeping
<1>1. /\ TypeOK /\ Fresh /\ Quiet /\ Clean
      /\ \A q \in Runs \ {r} : pc[q] \notin Bookkeeping
  BY CleanKeepsBooks DEF WriteJoined, ghosts
<1>2. /\ pc' \in [Runs -> Places]
      /\ pc[r] = "join write" /\ pc'[r] = IF r \in starters THEN "waiting" ELSE "using"
      /\ \A q \in Runs \ {r} : pc'[q] = pc[q]
  BY <1>1, GotoFacts DEF WriteJoined, Places
<1>3. /\ UNCHANGED <<snap, starters, servers, bound, abrupt>>
      /\ file'.server = IF r \in starters THEN r ELSE snap[r].server
      /\ file'.holders = snap[r].holders \cup {r}
  BY DEF WriteJoined, ghosts
<1>4. OneServer'
  BY <1>1, <1>2, <1>3 DEF Clean, OneServer
<1>5. Recorded'
  <2>1. servers \subseteq {file'.server}
    BY <1>1, <1>2, <1>3 DEF Clean, OneServer, Recorded
  <2>2. QED
    BY <1>1, <1>2, <1>3, <2>1 DEF Recorded
<1>6. Unbound'
  <2>1. SUFFICES ASSUME bound = None
                 PROVE  Unbound'
    BY <1>3 DEF Unbound
  <2>2. r \in starters
    BY <1>1, <1>2, <2>1 DEF Quiet, Served, HasPages
  <2>3. \A q \in Runs \ {r} : q \in snap[r].holders => ~Alive(q)
    BY <1>1, <1>2, <2>1 DEF Clean, ReadIsNew, Unbound
  <2>4. QED
    BY <1>1, <1>2, <1>3, <2>2, <2>3 DEF Unbound, Alive
<1>7. ReadIsNew'
  BY <1>1, <1>2, <1>3 DEF ReadIsNew
<1>8. Answered'
  <2>1. Held'
    BY <1>2, <1>3 DEF Held, Alive
  <2>2. QED
    BY <1>1, <1>2, <1>3, <2>1 DEF Answered
<1>9. QED
  BY <1>4, <1>5, <1>6, <1>7, <1>8 DEF Clean

LEMMA CleanWaited ==
  ASSUME CleanInv, NEW r \in Runs, Serving(r) \/ NotServing(r), ~torn', ~cutShort'
  PROVE  Clean'
<1> USE DEF Read, Stopping, Leaving, Joining, Owning, Starting, Bookkeeping
<1>0. ~torn /\ ~cutShort /\ pc[r] \in Bookkeeping
  BY SteadyBefore DEF Joins, Serving, NotServing
<1>1. /\ TypeOK /\ Fresh /\ Quiet /\ Clean
      /\ \A q \in Runs \ {r} : pc[q] \notin Bookkeeping
  BY <1>0, CleanKeepsBooks
<1>2. PICK place \in {"using", "leave"} : Goto(r, place) /\ (place = "using" => bound # None)
  BY DEF Serving, NotServing
<1>3. /\ pc' \in [Runs -> Places] /\ pc[r] = "waiting" /\ pc'[r] = place
      /\ \A q \in Runs \ {r} : pc'[q] = pc[q]
  BY <1>1, <1>2, GotoFacts DEF Serving, NotServing, Places
<1>4. UNCHANGED <<file, snap, starters, servers, bound, abrupt>>
  BY DEF Serving, NotServing, ghosts
<1>5. r \in starters
  BY <1>1, <1>3 DEF TypeOK
<1>6. OneServer'
  BY <1>1, <1>3, <1>4, <1>5 DEF Clean, OneServer
<1>7. Recorded'
  BY <1>1, <1>3, <1>4 DEF Clean, Recorded
<1>8. Unbound'
  BY <1>1, <1>2, <1>3, <1>4, <1>5 DEF Clean, Unbound, Alive, Remaining
<1>9. ReadIsNew'
  BY <1>1, <1>3, <1>4 DEF Clean, ReadIsNew
<1>10. Answered'
  BY <1>1, <1>3, <1>4 DEF Clean, Answered, Held, Alive, Remaining
<1>11. QED
  BY <1>6, <1>7, <1>8, <1>9, <1>10 DEF Clean

(* Whoever reads the file in order to leave it reads the server, and every *)
(* other holder alive.                                                     *)
LEMMA CleanLeaveRead ==
  ASSUME CleanInv, NEW r \in Runs, Release(r) \/ Exit(r), ~torn', ~cutShort'
  PROVE  Clean'
<1> USE DEF Read, Stopping, Leaving, Joining, Owning, Starting, Bookkeeping
<1>1. /\ TypeOK /\ Fresh /\ Quiet /\ Clean
      /\ \A q \in Runs \ {r} : pc[q] \notin Bookkeeping
  BY BeginsAlone DEF CleanInv, LeaseInv, Begins, Release, Exit, Overlaps
<1>2. PICK place \in {"leave write", "exit write"} :
        Reads(r, place) /\ (place = "exit write" <=> pc[r] = "exit")
  BY DEF Release, Exit
<1>3. /\ pc' \in [Runs -> Places]
      /\ pc[r] \in {"using", "leave", "exit"} /\ pc'[r] = place
      /\ \A q \in Runs \ {r} : pc'[q] = pc[q]
  BY <1>1, <1>2, GotoFacts DEF Release, Exit, Reads, Places
<1>4. /\ UNCHANGED <<file, starters, servers, bound>>
      /\ abrupt' = (abrupt /\ OthersHold(r))
      /\ snap'[r] = ReadHolders
      /\ \A q \in Runs \ {r} : snap'[q] = snap[q]
  BY <1>1, <1>2, ReadsFacts DEF Release, Exit, Places
<1>5. ReadHolders.holders = {q \in file.holders : Alive(q)} /\ file.holders \subseteq Runs
  BY <1>1 DEF ReadHolders, TypeOK, Files
<1>6. OneServer'
  BY <1>1, <1>2, <1>3, <1>4 DEF Clean, OneServer
<1>7. Recorded'
  <2>1. servers \subseteq {file.server}
    BY <1>1, <1>3 DEF Clean, Recorded
  <2>2. servers \subseteq {ReadHolders.server}
    BY <2>1 DEF ReadHolders
  <2>3. QED
    BY <1>1, <1>3, <1>4, <2>1, <2>2 DEF Recorded
<1>8. Unbound'
  <2>1. SUFFICES ASSUME bound = None
                 PROVE  Unbound'
    BY <1>4 DEF Unbound
  <2>2. pc[r] # "using"
    BY <1>1, <2>1 DEF Quiet, Served, HasPages
  <2>3. \A q \in Runs \ {r} : q \in file.holders => ~Alive(q)
    BY <1>1, <2>1 DEF Clean, Unbound
  <2>4. Remaining(r)' = {}
    BY <1>4, <1>5, <2>3 DEF Remaining
  <2>5. \A q \in Runs \ {r} : Alive(q)' <=> Alive(q)
    BY <1>3 DEF Alive
  <2>6. pc[r] = "exit" => r \notin file.holders
    BY <2>1, <1>1 DEF Clean, Unbound, Alive
  <2>7. servers = {} \/ (r \in starters /\ pc[r] = "leave")
    BY <1>1, <1>3, <2>1 DEF Clean, Unbound, TypeOK
  <2>8. servers' = {} \/ \E q \in starters' : pc'[q] \in Starting
    BY <1>2, <1>3, <1>4, <2>7
  <2>9. \A q \in Runs : q \in file.holders /\ Alive(q)' =>
          pc'[q] \in {"waiting", "leave", "leave write"}
    BY <1>2, <1>3, <2>2, <2>3, <2>5, <2>6
  <2>10. \A q \in Runs : pc'[q] \in Leaving => Remaining(q)' = {}
    <3>1. \A q \in Runs : pc'[q] \in Leaving => q = r
      BY <1>1, <1>3
    <3>2. QED
      BY <2>4, <3>1
  <2>11. QED
    BY <1>4, <2>8, <2>9, <2>10 DEF Unbound
<1>9. ReadIsNew'
  BY <1>1, <1>3, <1>4, <1>5 DEF ReadIsNew
<1>10. Answered'
  <2>1. \A q \in Remaining(r)' : Alive(q)'
    BY <1>3, <1>4, <1>5 DEF Remaining, Alive
  <2>2. CASE OthersHold(r)
    <3>1. Held'
      BY <1>3, <1>4, <1>5, <2>2 DEF OthersHold, Held, Alive
    <3>2. QED
      BY <1>1, <1>3, <2>1, <3>1 DEF Answered
  <2>3. CASE ~OthersHold(r)
    <3>1. Remaining(r)' = {}
      BY <1>4, <1>5, <2>3 DEF OthersHold, Remaining
    <3>2. Held'
      BY <1>3, <3>1 DEF Held
    <3>3. QED
      BY <1>1, <1>3, <2>1, <3>2 DEF Answered
  <2>4. QED
    BY <2>2, <2>3
<1>11. QED
  BY <1>6, <1>7, <1>8, <1>9, <1>10 DEF Clean

(* It writes the others back, or goes on to stop the server.               *)
LEMMA CleanLeaveWrite ==
  ASSUME CleanInv, NEW r \in Runs, Leave(r) \/ LeaveAtExit(r), ~torn', ~cutShort'
  PROVE  Clean'
<1> USE DEF Read, Stopping, Leaving, Joining, Owning, Starting, Bookkeeping
<1>0. ~torn /\ ~cutShort /\ pc[r] \in Leaving
  BY SteadyBefore DEF Leaves, Leave, LeaveAtExit
<1>1. /\ TypeOK /\ Fresh /\ Quiet /\ Clean
      /\ \A q \in Runs \ {r} : pc[q] \notin Bookkeeping
  BY <1>0, CleanKeepsBooks
<1>2. PICK place \in {"stop", "exit", "stop now", "gone"} :
        /\ Goto(r, place)
        /\ place = "exit" => pc[r] = "leave write" /\ Remaining(r) # {}
        /\ place = "stop" => pc[r] = "leave write" /\ Remaining(r) = {}
        /\ place = "stop now" => pc[r] = "exit write" /\ Remaining(r) = {} /\ r \in starters
        /\ place = "gone" => pc[r] = "exit write" /\ (Remaining(r) # {} \/ r \notin starters)
  BY DEF Leave, LeaveAtExit
<1>3. /\ pc' \in [Runs -> Places] /\ pc'[r] = place
      /\ \A q \in Runs \ {r} : pc'[q] = pc[q]
  BY <1>1, <1>2, GotoFacts DEF Places
<1>4. /\ UNCHANGED <<snap, starters, servers, bound, abrupt>>
      /\ WriteLeft(r)
      /\ pc[r] = "exit write" => ~(Remaining(r) = {} /\ snap[r].server \notin {None, r})
  BY DEF Leave, LeaveAtExit, ghosts
<1>5. /\ Remaining(r) = {} => file' = NoFile
      /\ Remaining(r) # {} =>
           file'.server = snap[r].server /\ file'.holders = Remaining(r)
      /\ r \notin file'.holders /\ file'.holders \subseteq file.holders
  BY <1>0, <1>1, <1>4 DEF WriteLeft, Remaining, NoFile, Clean, ReadIsNew
<1>6. servers \subseteq {snap[r].server} /\ servers \subseteq starters /\ None \notin starters
  BY <1>0, <1>1, NoneAssumption DEF Clean, Recorded, TypeOK
<1>7. /\ place = "stop now" => servers \subseteq {r}
      /\ place = "gone" /\ Remaining(r) = {} => servers = {}
  BY <1>2, <1>4, <1>6
<1>8. OneServer'
  <2>1. place = "stop" =>
          servers \subseteq {IF r \in starters THEN r ELSE snap[r].server}
    BY <1>1, <1>2, <1>6 DEF Clean, OneServer
  <2>2. \A q \in Runs \ {r} : q \in starters /\ pc[q] = "using" => servers \subseteq {q}
    BY <1>1 DEF Clean, OneServer
  <2>3. QED
    BY <1>1, <1>3, <1>4, <1>7, <2>1, <2>2 DEF OneServer
<1>9. Recorded'
  <2>1. CASE Remaining(r) = {}
    <3>1. place \in Stopping \/ servers = {}
      BY <1>2, <1>7, <2>1
    <3>2. QED
      BY <1>1, <1>3, <1>4, <3>1 DEF Recorded
  <2>2. CASE Remaining(r) # {}
    BY <1>1, <1>2, <1>3, <1>4, <1>5, <1>6, <2>2 DEF Recorded
  <2>3. QED
    BY <2>1, <2>2
<1>10. Unbound'
  <2>1. SUFFICES ASSUME bound = None
                 PROVE  Unbound'
    BY <1>4 DEF Unbound
  <2>2. Remaining(r) = {}
    BY <1>0, <1>1, <2>1 DEF Clean, Unbound
  <2>3. servers = {} \/ (r \in starters /\ pc[r] = "leave write")
    BY <1>0, <1>1, <2>1 DEF Clean, Unbound, TypeOK
  <2>4. file'.holders = {}
    <3>1. file' = NoFile
      BY <1>5, <2>2
    <3>2. QED
      BY <3>1 DEF NoFile
  <2>5. QED
    BY <1>1, <1>2, <1>3, <1>4, <2>2, <2>3, <2>4 DEF Unbound
<1>11. ReadIsNew'
  BY <1>1, <1>2, <1>3, <1>4, <1>5 DEF ReadIsNew
<1>12. Answered'
  <2>1. SUFFICES ASSUME ~abrupt
                 PROVE  Answered'
    BY <1>4 DEF Answered
  <2>2. CASE Remaining(r) = {}
    <3>1. place \in Stopping \/ servers = {}
      BY <1>2, <1>7, <2>2
    <3>2. QED
      BY <1>1, <1>3, <1>4, <3>1 DEF Answered, Held
  <2>3. CASE Remaining(r) # {}
    <3>1. PICK q \in Remaining(r) : Alive(q)
      BY <1>0, <1>1, <2>1, <2>3 DEF Clean, Answered
    <3>2. q \in Runs \ {r}
      BY <1>1 DEF Remaining, TypeOK, Files
    <3>3. Held'
      BY <1>3, <1>5, <2>3, <3>1, <3>2 DEF Held, Alive
    <3>4. QED
      BY <1>1, <1>2, <1>3, <3>3 DEF Answered
  <2>4. QED
    BY <2>2, <2>3
<1>13. QED
  BY <1>8, <1>9, <1>10, <1>11, <1>12 DEF Clean

(* The one server there is is stopped.                                     *)
LEMMA CleanStop ==
  ASSUME CleanInv, NEW r \in Runs, Stop(r) \/ StopNow(r), ~torn', ~cutShort'
  PROVE  Clean'
<1> USE DEF Read, Stopping, Leaving, Joining, Owning, Starting, Bookkeeping
<1>0. ~torn /\ ~cutShort /\ pc[r] \in Stopping
  BY SteadyBefore DEF Leaves, Stop, StopNow
<1>1. /\ TypeOK /\ Fresh /\ Quiet /\ Clean
      /\ \A q \in Runs \ {r} : pc[q] \notin Bookkeeping
  BY <1>0, CleanKeepsBooks
<1>2. PICK place \in {"exit", "gone"} : Goto(r, place)
  BY DEF Stop, StopNow
<1>3. /\ pc' \in [Runs -> Places] /\ pc'[r] = place
      /\ \A q \in Runs \ {r} : pc'[q] = pc[q]
  BY <1>1, <1>2, GotoFacts DEF Places
<1>4. UNCHANGED <<file, snap, starters, abrupt>>
  BY DEF Stop, StopNow, ghosts
<1>5. servers' = {}
  <2>1. CASE Stop(r)
    BY <1>1, <2>1 DEF Stop, Killed, Clean, OneServer
  <2>2. CASE StopNow(r)
    BY <1>1, <2>2 DEF StopNow, Killed, Clean, OneServer
  <2>3. QED
    BY <2>1, <2>2
<1>6. file' = NoFile
  BY <1>0, <1>1, <1>4 DEF Clean, ReadIsNew
<1>7. OneServer' /\ Recorded'
  BY <1>1, <1>3, <1>5 DEF OneServer, Recorded
<1>8. Unbound'
  BY <1>1, <1>3, <1>5, <1>6 DEF Unbound, NoFile
<1>9. ReadIsNew'
  BY <1>1, <1>3 DEF ReadIsNew
<1>10. Answered'
  BY <1>1, <1>3, <1>5 DEF Answered
<1>11. QED
  BY <1>7, <1>8, <1>9, <1>10 DEF Clean

LEMMA CleanEnd ==
  ASSUME CleanInv, NEW r \in Runs, Throws(r) \/ Dies(r), ~torn', ~cutShort'
  PROVE  Clean'
<1> USE DEF Read, Stopping, Leaving, Joining, Owning, Starting
<1>0. ~torn /\ ~cutShort
  BY SteadyBefore DEF Leaves
<1>1. /\ TypeOK /\ Fresh /\ Quiet /\ Clean
      /\ pc[r] \notin Bookkeeping
  <2>1. CASE Throws(r)
    BY <1>0, <2>1 DEF CleanInv, LeaseInv, Throws, Bookkeeping
  <2>2. CASE Dies(r)
    <3>1. pc[r] \notin Bookkeeping
      BY <2>2, Zenon DEF Dies
    <3>2. QED
      BY <1>0, <3>1 DEF CleanInv, LeaseInv
  <2>3. QED
    BY <2>1, <2>2
<1>2. PICK place \in {"exit", "gone"} :
        Goto(r, place) /\ (place = "exit" => pc[r] = "using")
  BY DEF Throws, Dies
<1>3. /\ pc' \in [Runs -> Places] /\ pc'[r] = place
      /\ \A q \in Runs \ {r} : pc'[q] = pc[q]
  BY <1>1, <1>2, GotoFacts DEF Places
<1>4. /\ UNCHANGED <<file, snap, starters, servers, bound>>
      /\ ~abrupt' => ~abrupt
      /\ place = "gone" /\ ~abrupt' => r \notin file.holders
  <2>1. CASE Throws(r)
    BY <1>1, <1>2, <1>3, <2>1 DEF Throws, Goto, TypeOK, ghosts
  <2>2. CASE Dies(r)
    BY <2>2 DEF Dies
  <2>3. QED
    BY <2>1, <2>2
<1>5. OneServer'
  BY <1>1, <1>3, <1>4 DEF Clean, OneServer
<1>6. Recorded'
  BY <1>1, <1>3, <1>4 DEF Clean, Recorded, Bookkeeping
<1>7. Unbound'
  <2>1. SUFFICES ASSUME bound = None
                 PROVE  Unbound'
    BY <1>4 DEF Unbound
  <2>2. place = "gone"
    BY <1>1, <1>2, <2>1 DEF Quiet, Served, HasPages
  <2>3. /\ servers = {} \/ \E q \in starters : pc[q] \in Starting
        /\ \A q \in Runs : q \in file.holders /\ Alive(q) =>
             pc[q] \in {"waiting", "leave", "leave write"}
        /\ \A q \in Runs : pc[q] \in Leaving => Remaining(q) = {}
    BY <1>1, <2>1 DEF Clean, Unbound
  <2>4. starters \subseteq Runs /\ pc[r] \notin Starting
    BY <1>1 DEF TypeOK, Bookkeeping
  <2>5. servers' = {} \/ \E q \in starters' : pc'[q] \in Starting
    BY <1>3, <1>4, <2>3, <2>4
  <2>6. \A q \in Runs : q \in file'.holders /\ Alive(q)' =>
          pc'[q] \in {"waiting", "leave", "leave write"}
    BY <1>3, <1>4, <2>2, <2>3 DEF Alive
  <2>7. \A q \in Runs : pc'[q] \in Leaving => Remaining(q)' = {}
    BY <1>3, <1>4, <2>2, <2>3 DEF Remaining
  <2>8. QED
    BY <2>5, <2>6, <2>7 DEF Unbound
<1>8. ReadIsNew'
  BY <1>1, <1>3, <1>4 DEF Clean, ReadIsNew
<1>9. Answered'
  <2>1. SUFFICES ASSUME ~abrupt'
                 PROVE  Answered'
    BY DEF Answered
  <2>2. \A q \in file.holders \cap Runs : Alive(q) => Alive(q)'
    BY <1>1, <1>2, <1>3, <1>4, <2>1 DEF Alive
  <2>3. servers = {} \/ Held
    BY <1>1, <1>4, <2>1 DEF Clean, Answered
  <2>4. servers' = {} \/ Held'
    BY <1>1, <1>3, <1>4, <2>2, <2>3 DEF Held, Remaining, Bookkeeping
  <2>5. \A q \in Runs : pc'[q] \in Leaving => \A h \in Remaining(q)' : Alive(h)'
    <3>1. SUFFICES ASSUME NEW q \in Runs, pc'[q] \in Leaving, NEW h \in Remaining(q)'
                   PROVE  Alive(h)'
      OBVIOUS
    <3>2. pc[q] \in Leaving /\ h \in Remaining(q)
      BY <1>3, <1>4, <3>1 DEF Remaining
    <3>3. Alive(h)
      BY <1>1, <1>4, <2>1, <3>2 DEF Clean, Answered
    <3>4. h \in file.holders \cap Runs
      BY <1>1, <3>2 DEF Clean, ReadIsNew, Remaining, TypeOK, Files
    <3>5. QED
      BY <2>2, <3>3, <3>4
  <2>6. QED
    BY <2>4, <2>5 DEF Answered
<1>10. QED
  BY <1>5, <1>6, <1>7, <1>8, <1>9 DEF Clean

LEMMA CleanServer ==
  ASSUME CleanInv, NEW r \in Runs, Binds(r) \/ Ends(r), ~torn', ~cutShort'
  PROVE  Clean'
<1>1. /\ ~torn /\ ~cutShort /\ TypeOK /\ Clean
  BY DEF CleanInv, LeaseInv, Binds, Ends, ghosts
<1>2. /\ UNCHANGED <<file, pc, snap, starters, abrupt>>
      /\ servers' \subseteq servers /\ bound' # None
  BY NoneAssumption DEF Binds, Ends, ghosts
<1>3. OneServer'
  BY <1>1, <1>2 DEF Clean, OneServer
<1>4. Recorded'
  BY <1>1, <1>2 DEF Clean, Recorded
<1>5. Unbound' /\ ReadIsNew'
  BY <1>1, <1>2 DEF Clean, Unbound, ReadIsNew
<1>6. Answered'
  BY <1>1, <1>2 DEF Clean, Answered, Held, Alive, Remaining
<1>7. QED
  BY <1>3, <1>4, <1>5, <1>6 DEF Clean

LEMMA StepClean ==
  ASSUME CleanInv, [Next]_vars
  PROVE  CleanInv'
<1>1. LeaseInv' /\ Fresh'
  BY StepQuiet, FreshKept DEF CleanInv, LeaseInv
<1>2. CASE UNCHANGED vars
  BY <1>1, <1>2
  DEF CleanInv, Clean, OneServer, Recorded, Unbound, ReadIsNew, Answered, Held, Alive,
      Remaining, vars
<1>3. CASE Next
  <2>1. PICK r \in Runs : Joins(r) \/ Leaves(r) \/ Dies(r) \/ Binds(r) \/ Ends(r)
    BY <1>3 DEF Next
  <2>2. ASSUME ~torn', ~cutShort' PROVE Clean'
    BY <2>1, <2>2, CleanProbe, CleanSpawn, CleanJoinHolders, CleanWriteJoined, CleanWaited,
       CleanLeaveRead, CleanLeaveWrite, CleanStop, CleanEnd, CleanServer DEF Joins, Leaves
  <2>3. QED
    BY <1>1, <2>2 DEF CleanInv
<1>4. QED
  BY <1>2, <1>3

LEMMA InitClean == Init => CleanInv
<1> SUFFICES ASSUME Init PROVE CleanInv
  OBVIOUS
<1> USE DEF Init, Stopping, Joining, Leaving
<1>1. Fresh
  BY DEF Fresh, NoFile
<1>2. OneServer /\ Recorded /\ Unbound
  BY DEF OneServer, Owning, Recorded, Unbound, NoFile
<1>3. ReadIsNew /\ Answered
  BY DEF ReadIsNew, Read, Answered
<1>4. QED
  BY <1>1, <1>2, <1>3, InitQuiet DEF CleanInv, Clean

(* With no run left no server is, whoever the last one out was, unless     *)
(* bookkeeping overlapped or was cut short, an exit that stops no server   *)
(* found itself the last, or a killed holder was the last to go.           *)
THEOREM LeavesNoServer == Spec => []LeftClean
<1>1. ASSUME CleanInv PROVE LeftClean
  <2>1. SUFFICES ASSUME \A r \in Runs : pc[r] \in {"new", "gone"},
                        ~torn, ~cutShort, ~abrupt
                 PROVE  servers = {} /\ ReadHolders.holders = {}
    BY DEF LeftClean
  <2>2. file.holders \subseteq Runs
    BY <1>1 DEF CleanInv, LeaseInv, TypeOK, Files
  <2>3. \A q \in file.holders : ~Alive(q)
    BY <2>1, <2>2 DEF Alive
  <2>4. ~Held
    BY <2>1, <2>3 DEF Held, Joining, Stopping, Leaving
  <2>5. servers = {}
    BY <1>1, <2>1, <2>4 DEF CleanInv, Clean, Answered
  <2>6. QED
    BY <2>3, <2>5 DEF ReadHolders
<1>2. QED
  BY <1>1, InitClean, StepClean, PTL DEF Spec
-----------------------------------------------------------------------------
(* The lease of the local worker VM (VmLease).                             *)
(* Nobody else is at the VM, but for what `mixed' tells.                   *)
OneLease ==
  \A r, q \in VmRuns : at[r] \in Leasing /\ at[q] \in Leasing => r = q

(* A guest that goes down has the run that stopped it wait for it: so what *)
(* answers is up, and stays up for the run it answered.                    *)
UpForItsRun ==
  /\ vm = "going down" => \E r \in VmRuns : at[r] = "stopping"
  /\ \A r \in VmRuns : at[r] \in {"check", "using"} => vm = "up"

(* How the guest is to be left is how the run found it, and what became of *)
(* it since is what the run did.                                           *)
FoundBy(r) ==
  /\ at[r] \in {"up", "waiting", "check", "using"} => before[r] = State(home)
  /\ at[r] = "up" => vm = home /\ home # "up"
  /\ at[r] = "waiting" => vm \in {"booting", "up"}
  /\ at[r] \in {"look", "act"} => vm = "up"
  /\ at[r] \in {"look", "act", "stopping"} =>
       \/ Resolved(r) = "pause" /\ home = "paused" /\ at[r] # "stopping"
       \/ Resolved(r) = "stop" /\ home = "stopped"
  /\ at[r] = "stopping" => vm \in {"going down", "stopped"}
  /\ at[r] # "act unanswered"

AsFound ==
  /\ Nobody => vm = home
  /\ \A r \in VmRuns : FoundBy(r)

(* A capture is its run's, as long as no run is killed.                    *)
Owned == slot # NoRun => at[slot] = "using"

VmInv ==
  /\ VmTypeOK
  /\ misfortunes = 0 => Owned
  /\ misfortunes = 0 => ~leftToIt
  /\ ~mixed => OneLease
  /\ ~mixed /\ ~leftToIt => UpForItsRun
  /\ ~mixed /\ misfortunes = 0 => AsFound

(* A release that was answered looked when no capture was on: one that is  *)
(* on has begun since.                                                     *)
LookedBefore ==
  slot # NoRun => \A r \in VmRuns : at[r] \in {"act", "stopping"} => r \in raced

-----------------------------------------------------------------------------
Spots == {"new", "gone"} \cup Leasing

LEMMA VmLimits ==
  /\ AfterRuns \subseteq {"restore", "stop", "pause", "leave"}
  /\ Hands \subseteq {"stopped", "paused", "up"}
  /\ MaxMisfortunes \in Nat
BY AfterRunsAssumption, HandsAssumption, MisfortunesAssumption

LEMMA VmInitTyped ==
  ASSUME VmInit
  PROVE  VmTypeOK
<1>1. 0 \in 0 .. MaxMisfortunes
  BY VmLimits
<1>2. QED
  BY <1>1, NoRunAssumption DEF VmInit, VmTypeOK, Resting

(* Where a step of one run leads, and what it remembers of it.             *)
LEMMA VmGoto ==
  ASSUME VmTypeOK, NEW r \in VmRuns, NEW place \in Spots, GoesTo(r, place)
  PROVE  /\ at' \in [VmRuns -> Spots] /\ at'[r] = place
         /\ \A q \in VmRuns \ {r} : at'[q] = at[q]
         /\ \A q \in VmRuns \ {r} : before'[q] = before[q] /\ after'[q] = after[q]
         /\ before' \in [VmRuns -> {"stopped", "paused", "started", "unknown"}]
         /\ after' \in [VmRuns -> AfterRuns \cup {"restore"}]
         /\ place # "gone" => UNCHANGED <<before, after, raced>>
         /\ raced' \subseteq raced /\ raced \ {r} \subseteq raced'
         /\ place = "gone" => r \notin raced'
<1>1. at' \in [VmRuns -> Spots] /\ at'[r] = place /\ \A q \in VmRuns \ {r} : at'[q] = at[q]
  BY DEF GoesTo, VmTypeOK, Spots
<1>2. CASE place = "gone"
  BY <1>1, <1>2 DEF GoesTo, VmTypeOK
<1>3. CASE place # "gone"
  BY <1>1, <1>3 DEF GoesTo, VmTypeOK
<1>4. QED
  BY <1>2, <1>3

LEMMA VmGoesWrong ==
  ASSUME VmTypeOK, GoesWrong
  PROVE  misfortunes' \in 0 .. MaxMisfortunes /\ misfortunes' # 0
<1>1. misfortunes \in 0 .. MaxMisfortunes
  BY DEF VmTypeOK
<1>2. QED
  BY <1>1, VmLimits DEF GoesWrong

(* A run that is not capturing moves, and the guest goes where it sends it *)
(* or stays as it is.                                                      *)
LEMMA VmMoveTyped ==
  ASSUME VmTypeOK, NEW r \in VmRuns, NEW place \in Spots, GoesTo(r, place),
         slot # r,
         at[r] \in Acting => place \in Acting \cup {"gone"},
         UNCHANGED <<vm, slot>>
           \/ \E v \in Resting \cup {"booting", "going down"} : Becomes(v)
  PROVE  /\ vm' \in Resting \cup {"booting", "going down"}
         /\ slot' \in VmRuns \cup {NoRun}
         /\ slot' # NoRun => vm' = "up" /\ at'[slot'] \in {"using", "gone"}
         /\ raced' \subseteq {q \in VmRuns : at'[q] \in Acting}
         /\ slot' \in {slot, NoRun}
<1>1. /\ at'[r] = place /\ \A q \in VmRuns \ {r} : at'[q] = at[q]
      /\ raced' \subseteq raced /\ (place = "gone" => r \notin raced')
  BY VmGoto
<1>2. raced' \subseteq {q \in VmRuns : at'[q] \in Acting}
  BY <1>1 DEF VmTypeOK
<1>3. CASE UNCHANGED <<vm, slot>>
  BY <1>1, <1>2, <1>3 DEF VmTypeOK
<1>4. CASE \E v \in Resting \cup {"booting", "going down"} : Becomes(v)
  <2>1. PICK v \in Resting \cup {"booting", "going down"} : Becomes(v)
    BY <1>4
  <2>2. vm' = v /\ slot' = IF v = "up" THEN slot ELSE NoRun
    BY <2>1 DEF Becomes
  <2>3. slot' # NoRun => slot' = slot /\ vm' = "up" /\ slot \in VmRuns \ {r} /\ at[slot] \in {"using", "gone"}
    BY <2>2 DEF VmTypeOK
  <2>4. slot' # NoRun => at'[slot'] \in {"using", "gone"}
    BY <1>1, <2>3
  <2>5. QED
    BY <1>2, <2>2, <2>3, <2>4 DEF VmTypeOK
<1>5. QED
  BY <1>3, <1>4

LEMMA VmAcquiresTyped ==
  ASSUME VmTypeOK, NEW r \in VmRuns, Acquires(r)
  PROVE  VmTypeOK'
<1> USE DEF Spots, Leasing
<1>1. CASE FindLocalVm(r)
  <2>1. PICK state \in {State(vm), "unknown"}, healthy \in {FALSE, MayAnswer} :
          /\ before' = [before EXCEPT ![r] = state]
          /\ at' = [at EXCEPT ![r] = IF state = "started" /\ healthy THEN "check" ELSE "up"]
          /\ IF state = State(vm) /\ (vm = "up" => healthy)
               THEN UNCHANGED misfortunes ELSE GoesWrong
    BY <1>1 DEF FindLocalVm
  <2>2. state \in {"stopped", "paused", "started", "unknown"}
    BY DEF VmTypeOK, Resting, State
  <2>3. at[r] = "new" /\ UNCHANGED <<vm, slot, home, leftToIt, raced>>
    BY <1>1 DEF FindLocalVm
  <2>4. at' \in [VmRuns -> Spots] /\ \A q \in VmRuns \ {r} : at'[q] = at[q]
    BY <2>1 DEF VmTypeOK
  <2>5. before' \in [VmRuns -> {"stopped", "paused", "started", "unknown"}]
    BY <2>1, <2>2 DEF VmTypeOK
  <2>6. after' \in [VmRuns -> AfterRuns \cup {"restore"}]
    BY <1>1 DEF FindLocalVm, VmTypeOK
  <2>7. misfortunes' \in 0 .. MaxMisfortunes
    <3>1. misfortunes' = misfortunes \/ GoesWrong
      BY <2>1
    <3>2. QED
      BY <3>1, VmGoesWrong DEF VmTypeOK
  <2>8. mixed' \in BOOLEAN
    BY <1>1, Zenon DEF FindLocalVm
  <2>9. r \notin raced /\ slot # r
    BY <2>3, NoRunAssumption DEF VmTypeOK, Acting
  <2>10. raced' \subseteq {q \in VmRuns : at'[q] \in Acting}
    BY <2>3, <2>4, <2>9 DEF VmTypeOK
  <2>11. slot' # NoRun => vm' = "up" /\ at'[slot'] \in {"using", "gone"}
    BY <2>3, <2>4, <2>9 DEF VmTypeOK
  <2>12. leftToIt' \in BOOLEAN
    BY <2>3 DEF VmTypeOK
  <2>13. QED
    BY <2>3, <2>4, <2>5, <2>6, <2>7, <2>8, <2>10, <2>11, <2>12 DEF VmTypeOK
<1>2. ASSUME NEW place \in {"waiting", "check", "gone", "using"}, GoesTo(r, place),
             at[r] \in {"up", "waiting", "check"},
             UNCHANGED <<vm, slot>>
               \/ \E v \in Resting \cup {"booting", "going down"} : Becomes(v),
             misfortunes' = misfortunes \/ GoesWrong,
             UNCHANGED <<home, mixed, leftToIt>>
      PROVE  VmTypeOK'
  <2>1. slot # r /\ at[r] \notin Acting /\ place \in Spots
    BY <1>2, NoRunAssumption DEF VmTypeOK, Acting
  <2>2. misfortunes' \in 0 .. MaxMisfortunes
    BY <1>2, VmGoesWrong DEF VmTypeOK
  <2>3. /\ at' \in [VmRuns -> Spots]
        /\ before' \in [VmRuns -> {"stopped", "paused", "started", "unknown"}]
        /\ after' \in [VmRuns -> AfterRuns \cup {"restore"}]
    BY <1>2, <2>1, VmGoto
  <2>4. /\ vm' \in Resting \cup {"booting", "going down"}
        /\ slot' \in VmRuns \cup {NoRun}
        /\ slot' # NoRun => vm' = "up" /\ at'[slot'] \in {"using", "gone"}
        /\ raced' \subseteq {q \in VmRuns : at'[q] \in Acting}
    BY <1>2, <2>1, VmMoveTyped
  <2>5. home' \in Resting /\ mixed' \in BOOLEAN /\ leftToIt' \in BOOLEAN
    BY <1>2 DEF VmTypeOK
  <2>6. QED
    BY <2>2, <2>3, <2>4, <2>5 DEF VmTypeOK
<1>3. CASE BringUp(r)
  <2>1. UNCHANGED <<vm, slot>> \/ Becomes("booting") \/ Becomes("up")
    BY <1>3, Zenon DEF BringUp
  <2>2. QED
    BY <1>2, <1>3, <2>1 DEF BringUp, vmGhosts, Resting
<1>4. CASE WaitHealthy(r)
  BY <1>2, <1>4 DEF WaitHealthy, vmGhosts
<1>5. CASE NotHealthy(r)
  BY <1>2, <1>5 DEF NotHealthy, vmGhosts
<1>6. CASE Leased(r)
  BY <1>2, <1>6 DEF Leased, vmGhosts
<1>7. QED
  BY <1>1, <1>3, <1>4, <1>5, <1>6 DEF Acquires

LEMMA VmReleasesTyped ==
  ASSUME VmTypeOK, NEW r \in VmRuns, Releases(r)
  PROVE  VmTypeOK'
<1> USE DEF Spots, Leasing, Acting
<1>1. ASSUME NEW place \in {"gone", "look", "act", "act unanswered", "stopping"},
             GoesTo(r, place),
             slot # r,
             at[r] \in Acting => place \in Acting \cup {"gone"},
             UNCHANGED <<vm, slot>>
               \/ \E v \in Resting \cup {"booting", "going down"} : Becomes(v),
             misfortunes' = misfortunes \/ GoesWrong,
             home' \in Resting, mixed' \in BOOLEAN, leftToIt' \in BOOLEAN
      PROVE  VmTypeOK'
  <2>1. place \in Spots
    OBVIOUS
  <2>2. misfortunes' \in 0 .. MaxMisfortunes
    BY <1>1, VmGoesWrong DEF VmTypeOK
  <2>3. /\ at' \in [VmRuns -> Spots]
        /\ before' \in [VmRuns -> {"stopped", "paused", "started", "unknown"}]
        /\ after' \in [VmRuns -> AfterRuns \cup {"restore"}]
    BY <1>1, <2>1, VmGoto
  <2>4. /\ vm' \in Resting \cup {"booting", "going down"}
        /\ slot' \in VmRuns \cup {NoRun}
        /\ slot' # NoRun => vm' = "up" /\ at'[slot'] \in {"using", "gone"}
        /\ raced' \subseteq {q \in VmRuns : at'[q] \in Acting}
    BY <1>1, <2>1, VmMoveTyped
  <2>5. QED
    BY <1>1, <2>2, <2>3, <2>4 DEF VmTypeOK
<1>2. home \in Resting /\ mixed \in BOOLEAN /\ leftToIt \in BOOLEAN
  BY DEF VmTypeOK
<1>3. at[r] \notin {"using", "gone"} => slot # r
  BY NoRunAssumption DEF VmTypeOK
<1>4. CASE ReleaseVm(r)
  <2>1. after[r] \in {"restore", "leave", "pause", "stop"}
    BY VmLimits DEF VmTypeOK
  <2>2. home' = CASE after[r] = "restore" -> home
               [] after[r] = "leave"   -> "up"
               [] after[r] = "pause"   -> "paused"
               [] after[r] = "stop"    -> "stopped"
    BY <1>4 DEF ReleaseVm
  <2>3. home' \in {home, "up", "paused", "stopped"}
    BY <2>1, <2>2
  <2>4. home' \in Resting
    BY <1>2, <2>3 DEF Resting
  <2>5. PICK place \in {"gone", "look"} : GoesTo(r, place)
    BY <1>4 DEF ReleaseVm
  <2>6. QED
    BY <1>1, <1>2, <1>4, <2>4, <2>5 DEF ReleaseVm
<1>5. CASE LookBusy(r)
  <2>1. PICK place \in {"gone", "act", "act unanswered"} : GoesTo(r, place)
    BY <1>5 DEF LookBusy
  <2>2. at[r] = "look" /\ UNCHANGED <<vm, slot, home, mixed, leftToIt>>
    BY <1>5 DEF LookBusy, vmGhosts
  <2>3. misfortunes' = misfortunes \/ GoesWrong
    BY <1>5 DEF LookBusy
  <2>4. QED
    BY <1>1, <1>2, <1>3, <2>1, <2>2, <2>3
<1>6. CASE Pause(r)
  <2>1. UNCHANGED <<vm, slot>> \/ Becomes("paused")
    BY <1>6 DEF Pause
  <2>2. QED
    BY <1>1, <1>2, <1>3, <1>6, <2>1 DEF Pause, vmGhosts, Resting
<1>7. CASE StopVm(r)
  <2>1. UNCHANGED <<vm, slot>> \/ Becomes("going down")
    BY <1>7 DEF StopVm
  <2>2. PICK place \in {"gone", "stopping"} : GoesTo(r, place)
    BY <1>7 DEF StopVm
  <2>3. QED
    BY <1>1, <1>2, <1>3, <1>7, <2>1, <2>2 DEF StopVm, vmGhosts
<1>8. CASE Stopped(r)
  BY <1>1, <1>2, <1>3, <1>8 DEF Stopped, vmGhosts, Resting
<1>9. CASE ReleaseFails(r)
  <2>1. leftToIt' \in BOOLEAN
    BY <1>9, Zenon DEF ReleaseFails
  <2>2. at[r] \in Acting /\ GoesTo(r, "gone") /\ GoesWrong
        /\ UNCHANGED <<vm, slot, home, mixed>>
    BY <1>9 DEF ReleaseFails
  <2>3. QED
    BY <1>1, <1>2, <1>3, <2>1, <2>2
<1>10. QED
  BY <1>4, <1>5, <1>6, <1>7, <1>8, <1>9 DEF Releases

LEMMA VmOthersTyped ==
  ASSUME VmTypeOK,
         \/ \E r \in VmRuns : CaptureBegins(r) \/ VmRunKilled(r)
         \/ CaptureEnds \/ Booted \/ ShutDown
         \/ \E v \in Hands : ByHand(v)
  PROVE  VmTypeOK'
<1> USE DEF VmTypeOK, Resting
<1>1. ASSUME NEW r \in VmRuns, CaptureBegins(r) PROVE VmTypeOK'
  BY <1>1 DEF CaptureBegins, vmGhosts
<1>2. CASE CaptureEnds
  BY <1>2 DEF CaptureEnds, vmGhosts
<1>3. CASE Booted
  BY <1>3 DEF Booted, Becomes, vmGhosts
<1>4. CASE ShutDown
  BY <1>4 DEF ShutDown, Becomes, vmGhosts
<1>5. ASSUME NEW v \in Hands, ByHand(v) PROVE VmTypeOK'
  <2>1. mixed' \in BOOLEAN
    BY <1>5, Zenon DEF ByHand
  <2>2. v \in Resting
    BY VmLimits
  <2>3. QED
    BY <1>5, <2>1, <2>2 DEF ByHand, Becomes
<1>6. ASSUME NEW r \in VmRuns, VmRunKilled(r) PROVE VmTypeOK'
  <2>1. /\ at[r] \in {"using", "look"} /\ GoesWrong /\ GoesTo(r, "gone")
        /\ UNCHANGED <<vm, slot, home, mixed, leftToIt>>
    BY <1>6 DEF VmRunKilled, vmGhosts
  <2>2. "gone" \in Spots
    BY DEF Spots
  <2>3. /\ at' \in [VmRuns -> Spots] /\ at'[r] = "gone"
        /\ \A q \in VmRuns \ {r} : at'[q] = at[q]
        /\ before' \in [VmRuns -> {"stopped", "paused", "started", "unknown"}]
        /\ after' \in [VmRuns -> AfterRuns \cup {"restore"}]
        /\ raced' \subseteq raced /\ r \notin raced'
    BY <2>1, <2>2, VmGoto
  <2>4. misfortunes' \in 0 .. MaxMisfortunes
    BY <2>1, VmGoesWrong
  <2>5. slot' # NoRun => vm' = "up" /\ at'[slot'] \in {"using", "gone"}
    BY <2>1, <2>3
  <2>6. raced' \subseteq {q \in VmRuns : at'[q] \in Acting}
    BY <2>3
  <2>7. QED
    BY <2>1, <2>3, <2>4, <2>5, <2>6 DEF Spots
<1>7. QED
  BY <1>1, <1>2, <1>3, <1>4, <1>5, <1>6

LEMMA VmStepTyped ==
  ASSUME VmTypeOK, [VmNext]_vmVars
  PROVE  VmTypeOK'
<1>1. CASE UNCHANGED vmVars
  BY <1>1 DEF vmVars, VmTypeOK
<1>2. QED
  BY <1>1, VmAcquiresTyped, VmReleasesTyped, VmOthersTyped DEF VmNext

-----------------------------------------------------------------------------
(* No run is pulled, and the guest is left as found.                       *)

(* What was under way, and what went wrong, is not taken back.             *)
LEMMA VmHistory ==
  ASSUME VmTypeOK, VmNext
  PROVE  /\ mixed => mixed'
         /\ leftToIt => leftToIt'
         /\ misfortunes' = 0 => misfortunes = 0
         /\ misfortunes' = 0 => (leftToIt' => leftToIt)
<1>1. misfortunes' = misfortunes \/ GoesWrong
  <2>1. ASSUME NEW r \in VmRuns, Acquires(r)
        PROVE  misfortunes' = misfortunes \/ GoesWrong
    BY <2>1 DEF Acquires, FindLocalVm, BringUp, WaitHealthy, NotHealthy,
                Leased
  <2>2. ASSUME NEW r \in VmRuns, Releases(r)
        PROVE  misfortunes' = misfortunes \/ GoesWrong
    BY <2>2 DEF Releases, ReleaseVm, LookBusy, Pause, StopVm, Stopped,
                ReleaseFails
  <2>3. ASSUME NEW r \in VmRuns, CaptureBegins(r) \/ VmRunKilled(r)
        PROVE  misfortunes' = misfortunes \/ GoesWrong
    BY <2>3 DEF CaptureBegins, VmRunKilled
  <2>4. ASSUME NEW v \in Hands, ByHand(v)
        PROVE  misfortunes' = misfortunes
    BY <2>4 DEF ByHand
  <2>5. ASSUME CaptureEnds \/ Booted \/ ShutDown
        PROVE  misfortunes' = misfortunes
    BY <2>5 DEF CaptureEnds, Booted, ShutDown
  <2>6. QED
    BY <2>1, <2>2, <2>3, <2>4, <2>5 DEF VmNext
<1>2. misfortunes' = 0 => misfortunes = 0
  BY <1>1, VmGoesWrong
<1>3. mixed => mixed'
  <2>1. ASSUME mixed, NEW r \in VmRuns, FindLocalVm(r) PROVE mixed'
    BY <2>1, Zenon DEF FindLocalVm
  <2>2. ASSUME mixed, NEW v \in Hands, ByHand(v) PROVE mixed'
    BY <2>2, Zenon DEF ByHand
  <2>3. ASSUME NEW r \in VmRuns, Acquires(r), ~FindLocalVm(r) PROVE UNCHANGED mixed
    BY <2>3 DEF Acquires, BringUp, WaitHealthy, NotHealthy, Leased, vmGhosts
  <2>4. ASSUME NEW r \in VmRuns, Releases(r) PROVE UNCHANGED mixed
    BY <2>4 DEF Releases, ReleaseVm, LookBusy, Pause, StopVm, Stopped,
                ReleaseFails, vmGhosts
  <2>5. ASSUME NEW r \in VmRuns, CaptureBegins(r) \/ VmRunKilled(r)
        PROVE  UNCHANGED mixed
    BY <2>5 DEF CaptureBegins, VmRunKilled, vmGhosts
  <2>6. ASSUME CaptureEnds \/ Booted \/ ShutDown PROVE UNCHANGED mixed
    BY <2>6 DEF CaptureEnds, Booted, ShutDown, vmGhosts
  <2>7. QED
    BY <2>1, <2>2, <2>3, <2>4, <2>5, <2>6 DEF VmNext
<1>4. UNCHANGED leftToIt \/ \E r \in VmRuns : ReleaseFails(r)
  <2>1. ASSUME NEW r \in VmRuns, Acquires(r) PROVE UNCHANGED leftToIt
    BY <2>1 DEF Acquires, FindLocalVm, BringUp, WaitHealthy, NotHealthy,
                Leased, vmGhosts
  <2>2. ASSUME NEW r \in VmRuns, Releases(r), ~ReleaseFails(r) PROVE UNCHANGED leftToIt
    BY <2>2 DEF Releases, ReleaseVm, LookBusy, Pause, StopVm, Stopped,
                vmGhosts
  <2>3. ASSUME NEW r \in VmRuns, CaptureBegins(r) \/ VmRunKilled(r)
        PROVE  UNCHANGED leftToIt
    BY <2>3 DEF CaptureBegins, VmRunKilled, vmGhosts
  <2>4. ASSUME NEW v \in Hands, ByHand(v) PROVE UNCHANGED leftToIt
    BY <2>4 DEF ByHand
  <2>5. ASSUME CaptureEnds \/ Booted \/ ShutDown PROVE UNCHANGED leftToIt
    BY <2>5 DEF CaptureEnds, Booted, ShutDown, vmGhosts
  <2>6. QED
    BY <2>1, <2>2, <2>3, <2>4, <2>5 DEF VmNext
<1>5. ASSUME NEW r \in VmRuns, ReleaseFails(r)
      PROVE  (leftToIt => leftToIt') /\ misfortunes' # 0
  <2>1. misfortunes' # 0
    BY <1>5, VmGoesWrong DEF ReleaseFails
  <2>2. leftToIt => leftToIt'
    BY <1>5, Zenon DEF ReleaseFails
  <2>3. QED
    BY <2>1, <2>2
<1>6. QED
  BY <1>2, <1>3, <1>4, <1>5

(* A run comes to the VM alone, or `mixed' says so.                        *)
LEMMA VmOneLease ==
  ASSUME VmTypeOK, ~mixed => OneLease, VmNext, mixed => mixed', ~mixed'
  PROVE  OneLease'
<1> USE DEF Spots, Leasing, Acting
<1>1. OneLease
  OBVIOUS
<1>2. CASE \E r \in VmRuns : FindLocalVm(r)
  <2>1. PICK r \in VmRuns : FindLocalVm(r)
    BY <1>2
  <2>2. \A q \in VmRuns : at[q] \notin Leasing
    BY <2>1, Zenon DEF FindLocalVm
  <2>3. \A q \in VmRuns \ {r} : at'[q] = at[q]
    BY <2>1 DEF FindLocalVm, VmTypeOK
  <2>4. QED
    BY <2>2, <2>3 DEF OneLease
<1>3. ASSUME NEW r \in VmRuns, at[r] \in Leasing, \A q \in VmRuns \ {r} : at'[q] = at[q]
      PROVE  OneLease'
  BY <1>1, <1>3 DEF OneLease
<1>4. CASE UNCHANGED at
  BY <1>1, <1>4 DEF OneLease
<1>5. ASSUME NEW r \in VmRuns, at[r] \in Leasing, NEW place \in Spots, GoesTo(r, place)
      PROVE  OneLease'
  <2>1. \A q \in VmRuns \ {r} : at'[q] = at[q]
    BY <1>5, VmGoto
  <2>2. QED
    BY <1>3, <1>5, <2>1
<1>6. ASSUME NEW r \in VmRuns, Acquires(r), ~FindLocalVm(r)
      PROVE  OneLease'
  BY <1>5, <1>6 DEF Acquires, BringUp, WaitHealthy, NotHealthy, Leased
<1>7. ASSUME NEW r \in VmRuns, Releases(r)
      PROVE  OneLease'
  <2>1. at[r] \in Leasing
    BY <1>7 DEF Releases, ReleaseVm, LookBusy, Pause, StopVm, Stopped,
                ReleaseFails
  <2>2. \E place \in {"gone", "look", "act", "act unanswered", "stopping"} : GoesTo(r, place)
    BY <1>7 DEF Releases, ReleaseVm, LookBusy, Pause, StopVm, Stopped,
                ReleaseFails
  <2>3. QED
    BY <1>5, <2>1, <2>2
<1>8. ASSUME \/ \E r \in VmRuns : CaptureBegins(r)
             \/ CaptureEnds \/ Booted \/ ShutDown
             \/ \E v \in Hands : ByHand(v)
      PROVE  UNCHANGED at
  BY <1>8 DEF CaptureBegins, CaptureEnds, Booted, ShutDown, ByHand
<1>9. ASSUME NEW r \in VmRuns, VmRunKilled(r)
      PROVE  OneLease'
  BY <1>5, <1>9 DEF VmRunKilled
<1>10. QED
  BY <1>2, <1>4, <1>6, <1>7, <1>8, <1>9 DEF VmNext

LEMMA VmUp ==
  ASSUME VmTypeOK, ~mixed, ~leftToIt, OneLease, UpForItsRun,
         VmNext, ~mixed', ~leftToIt'
  PROVE  UpForItsRun'
<1> USE DEF Spots, Leasing, Acting
<1>1. CASE \E r \in VmRuns : FindLocalVm(r)
  <2>1. PICK r \in VmRuns : FindLocalVm(r)
    BY <1>1
  <2>2. \A q \in VmRuns : at[q] \notin Leasing
    BY <2>1, Zenon DEF FindLocalVm
  <2>3. vm # "going down" /\ vm' = vm
    BY <2>1, <2>2 DEF UpForItsRun, FindLocalVm
  <2>4. /\ \A q \in VmRuns \ {r} : at'[q] = at[q]
        /\ at'[r] = "check" => MayAnswer
    <3>1. PICK state \in {State(vm), "unknown"}, healthy \in {FALSE, MayAnswer} :
            at' = [at EXCEPT ![r] = IF state = "started" /\ healthy THEN "check" ELSE "up"]
      BY <2>1, Zenon DEF FindLocalVm
    <3>2. healthy => MayAnswer
      BY Zenon
    <3>3. QED
      BY <3>1, <3>2 DEF VmTypeOK
  <2>5. at'[r] \in {"check", "up"}
    BY <2>1 DEF FindLocalVm, VmTypeOK
  <2>6. QED
    BY <2>2, <2>3, <2>4, <2>5 DEF UpForItsRun, MayAnswer
<1>2. ASSUME NEW r \in VmRuns, at[r] \in Leasing \ {"stopping"},
             NEW place \in Spots, GoesTo(r, place),
             place \in {"check", "using"} => vm' = "up",
             vm' = "going down" => vm = "going down" \/ place = "stopping"
      PROVE  UpForItsRun'
  <2>1. at'[r] = place /\ \A q \in VmRuns \ {r} : at'[q] = at[q] /\ at[q] \notin Leasing
    BY <1>2, VmGoto DEF OneLease
  <2>2. vm # "going down"
    BY <1>2, <2>1 DEF UpForItsRun
  <2>3. QED
    BY <1>2, <2>1, <2>2 DEF UpForItsRun
<1>3. ASSUME NEW r \in VmRuns, at[r] \in Leasing \ {"stopping"}
      PROVE  vm # "going down"
  BY <1>3 DEF UpForItsRun, OneLease
<1>4. CASE \E r \in VmRuns : BringUp(r)
  <2>1. PICK r \in VmRuns : BringUp(r)
    BY <1>4
  <2>2. vm' \in {"booting", "up", vm}
    BY <2>1, Zenon DEF BringUp, Becomes
  <2>3. QED
    BY <1>2, <2>1, <2>2 DEF BringUp
<1>5. CASE \E r \in VmRuns : WaitHealthy(r)
  BY <1>2, <1>3, <1>5 DEF WaitHealthy, MayAnswer
<1>6. CASE \E r \in VmRuns : NotHealthy(r)
  BY <1>2, <1>6 DEF NotHealthy
<1>7. CASE \E r \in VmRuns : Leased(r)
  BY <1>2, <1>3, <1>7 DEF Leased, MayAnswer
<1>8. CASE \E r \in VmRuns : ReleaseVm(r)
  BY <1>2, <1>8 DEF ReleaseVm
<1>9. CASE \E r \in VmRuns : LookBusy(r)
  BY <1>2, <1>9 DEF LookBusy
<1>10. CASE \E r \in VmRuns : Pause(r)
  BY <1>2, <1>10 DEF Pause, Becomes
<1>11. CASE \E r \in VmRuns : StopVm(r)
  <2>1. PICK r \in VmRuns : StopVm(r)
    BY <1>11
  <2>2. \/ GoesTo(r, "gone") /\ vm' = vm
        \/ GoesTo(r, "stopping") /\ vm' = "going down"
    BY <2>1 DEF StopVm, Becomes
  <2>3. QED
    BY <1>2, <2>1, <2>2 DEF StopVm
<1>12. CASE \E r \in VmRuns : Stopped(r)
  <2>1. PICK r \in VmRuns : Stopped(r)
    BY <1>12
  <2>2. at[r] = "stopping" /\ GoesTo(r, "gone") /\ vm' = "stopped"
    BY <2>1 DEF Stopped, Becomes
  <2>3. at'[r] = "gone" /\ \A q \in VmRuns \ {r} : at'[q] = at[q] /\ at[q] \notin Leasing
    BY <2>2, VmGoto DEF OneLease
  <2>4. QED
    BY <2>2, <2>3 DEF UpForItsRun
<1>13. CASE \E r \in VmRuns : ReleaseFails(r)
  <2>1. PICK r \in VmRuns : ReleaseFails(r)
    BY <1>13
  <2>2. at[r] # "stopping"
    BY <2>1, Zenon DEF ReleaseFails
  <2>3. QED
    BY <1>2, <2>1, <2>2 DEF ReleaseFails
<1>14. CASE \E r \in VmRuns : CaptureBegins(r)
  BY <1>14 DEF CaptureBegins, UpForItsRun
<1>15. CASE CaptureEnds
  BY <1>15 DEF CaptureEnds, UpForItsRun
<1>16. CASE Booted
  BY <1>16 DEF Booted, Becomes, UpForItsRun
<1>17. CASE ShutDown
  BY <1>17 DEF ShutDown, Becomes, UpForItsRun, OneLease
<1>18. CASE \E v \in Hands : ByHand(v)
  <2>1. PICK v \in Hands : ByHand(v)
    BY <1>18
  <2>2. \A q \in VmRuns : at[q] \notin Leasing
    BY <2>1, Zenon DEF ByHand
  <2>3. at' = at /\ vm' = v /\ v # "going down"
    BY <2>1, VmLimits DEF ByHand, Becomes
  <2>4. QED
    BY <2>2, <2>3 DEF UpForItsRun
<1>19. CASE \E r \in VmRuns : VmRunKilled(r)
  BY <1>2, <1>19 DEF VmRunKilled
<1>20. QED
  BY <1>1, <1>4, <1>5, <1>6, <1>7, <1>8, <1>9, <1>10, <1>11, <1>12, <1>13, <1>14, <1>15,
     <1>16, <1>17, <1>18, <1>19 DEF VmNext, Acquires, Releases

(* It is enough to follow the one run that is at the VM.                   *)
LEMMA VmFoundAlone ==
  ASSUME NEW r \in VmRuns, \A q \in VmRuns \ {r} : at'[q] \notin Leasing,
         FoundBy(r)', at'[r] \in {"new", "gone"} => vm' = home',
         at' \in [VmRuns -> Spots]
  PROVE  AsFound'
BY DEF AsFound, FoundBy, Nobody, Leasing, Acting, Spots

LEMMA VmFound ==
  ASSUME VmTypeOK, ~mixed, ~leftToIt, OneLease, UpForItsRun, misfortunes = 0, Owned, AsFound,
         VmNext, ~mixed', misfortunes' = 0
  PROVE  AsFound'
<1> USE DEF Spots, Leasing, Acting
<1>1. ~GoesWrong
  BY VmGoesWrong
<1>2. CASE \E r \in VmRuns : FindLocalVm(r)
  <2>1. PICK r \in VmRuns : FindLocalVm(r)
    BY <1>2
  <2>2. \A q \in VmRuns : at[q] \notin Leasing
    BY <2>1, Zenon DEF FindLocalVm
  <2>3. PICK state \in {State(vm), "unknown"}, healthy \in {FALSE, MayAnswer} :
          /\ before' = [before EXCEPT ![r] = state]
          /\ at' = [at EXCEPT ![r] = IF state = "started" /\ healthy THEN "check" ELSE "up"]
          /\ state = State(vm) /\ (vm = "up" => healthy)
    BY <1>1, <2>1 DEF FindLocalVm
  <2>4. Nobody
    BY <2>2 DEF Nobody, VmTypeOK
  <2>5. vm = home /\ vm \in {"stopped", "paused", "up"} /\ UNCHANGED <<vm, home>>
    BY <2>1, <2>4 DEF AsFound, VmTypeOK, Resting, FindLocalVm
  <2>6. /\ at' \in [VmRuns -> Spots] /\ at'[r] = IF vm = "up" THEN "check" ELSE "up"
        /\ \A q \in VmRuns \ {r} : at'[q] = at[q]
        /\ before'[r] = State(vm)
    BY <2>3, <2>5 DEF VmTypeOK, State
  <2>7. FoundBy(r)'
    BY <2>5, <2>6 DEF FoundBy, State
  <2>8. QED
    BY <2>2, <2>6, <2>7, VmFoundAlone
(* Every other step of a run is of the one that is at the VM.              *)
<1>3. ASSUME NEW r \in VmRuns, at[r] \in Leasing, NEW place \in Spots, GoesTo(r, place),
             FoundBy(r)', place = "gone" => vm' = home', place # "new"
      PROVE  AsFound'
  <2>1. /\ at' \in [VmRuns -> Spots] /\ at'[r] = place
        /\ \A q \in VmRuns \ {r} : at'[q] = at[q] /\ at[q] \notin Leasing
    BY <1>3, VmGoto DEF OneLease
  <2>2. QED
    BY <1>3, <2>1, VmFoundAlone
<1>4. ASSUME NEW r \in VmRuns PROVE FoundBy(r)
  BY DEF AsFound
<1>5. CASE \E r \in VmRuns : BringUp(r)
  <2>1. PICK r \in VmRuns : BringUp(r)
    BY <1>5
  <2>2. vm = home /\ home \in {"stopped", "paused"} /\ before[r] = State(home)
    BY <1>4, <2>1 DEF FoundBy, BringUp, VmTypeOK, Resting
  <2>3. vm' \in {"booting", "up"}
    BY <2>1, <2>2, Zenon DEF BringUp, Becomes
  <2>4. at'[r] = "waiting" /\ before' = before /\ home' = home
    BY <2>1, VmGoto DEF BringUp, vmGhosts
  <2>5. FoundBy(r)'
    BY <2>2, <2>3, <2>4 DEF FoundBy, State
  <2>6. QED
    BY <1>3, <2>1, <2>5 DEF BringUp
<1>6. CASE \E r \in VmRuns : WaitHealthy(r)
  <2>1. PICK r \in VmRuns : WaitHealthy(r)
    BY <1>6
  <2>2. at'[r] = "check" /\ before' = before /\ home' = home /\ vm' = vm
    BY <2>1, VmGoto DEF WaitHealthy, vmGhosts
  <2>3. FoundBy(r)'
    BY <1>4, <2>1, <2>2 DEF FoundBy, WaitHealthy, State
  <2>4. QED
    BY <1>3, <2>1, <2>3 DEF WaitHealthy
<1>7. CASE \E r \in VmRuns : NotHealthy(r)
  <2>1. PICK r \in VmRuns : NotHealthy(r)
    BY <1>7
  <2>2. at[r] \in {"waiting", "check"} /\ vm \notin {"booting", "up"}
    BY <1>1, <2>1 DEF NotHealthy
  <2>3. QED
    BY <1>4, <2>2 DEF FoundBy, UpForItsRun
<1>8. CASE \E r \in VmRuns : Leased(r)
  <2>1. PICK r \in VmRuns : Leased(r)
    BY <1>8
  <2>2. at'[r] = "using" /\ before' = before /\ home' = home /\ vm' = vm
    BY <2>1, VmGoto DEF Leased, vmGhosts
  <2>3. FoundBy(r)'
    BY <1>4, <2>1, <2>2 DEF FoundBy, Leased, State
  <2>4. QED
    BY <1>3, <2>1, <2>3 DEF Leased
<1>9. CASE \E r \in VmRuns : ReleaseVm(r)
  <2>1. PICK r \in VmRuns : ReleaseVm(r)
    BY <1>9
  <2>2. at[r] = "using" /\ vm = "up" /\ vm' = vm /\ before[r] = State(home)
    BY <1>4, <2>1 DEF FoundBy, UpForItsRun, ReleaseVm
  <2>3. after[r] \in {"restore", "leave", "pause", "stop"} /\ home \in {"stopped", "paused", "up"}
    BY VmLimits DEF VmTypeOK, Resting
  <2>4. /\ after[r] = "restore" => home' = home
        /\ after[r] = "leave" => home' = "up"
        /\ after[r] = "pause" => home' = "paused"
        /\ after[r] = "stop" => home' = "stopped"
    BY <2>1, Zenon DEF ReleaseVm
  <2>5. /\ Resolved(r) = "leave" => home' = "up"
        /\ Resolved(r) = "pause" => home' = "paused"
        /\ Resolved(r) = "stop" => home' = "stopped"
        /\ Resolved(r) \in {"leave", "pause", "stop"}
    <3>1. CASE after[r] = "restore"
      <4>1. Resolved(r) = RestoreAction(State(home))
        BY <2>2, <3>1 DEF Resolved
      <4>2. CASE home = "up"
        <5>1. State(home) = "started"
          BY <4>2 DEF State
        <5>2. Resolved(r) = "leave"
          BY <4>1, <5>1 DEF RestoreAction
        <5>3. QED
          BY <2>4, <3>1, <4>2, <5>2
      <4>3. CASE home = "paused"
        <5>1. State(home) = "paused"
          BY <4>3 DEF State
        <5>2. Resolved(r) = "pause"
          BY <4>1, <5>1 DEF RestoreAction
        <5>3. QED
          BY <2>4, <3>1, <4>3, <5>2
      <4>4. CASE home = "stopped"
        <5>1. State(home) = "stopped"
          BY <4>4 DEF State
        <5>2. Resolved(r) = "stop"
          BY <4>1, <5>1 DEF RestoreAction
        <5>3. QED
          BY <2>4, <3>1, <4>4, <5>2
      <4>5. QED
        BY <2>3, <4>2, <4>3, <4>4
    <3>2. CASE after[r] # "restore"
      BY <2>3, <2>4, <3>2 DEF Resolved
    <3>3. QED
      BY <3>1, <3>2
  <2>6. CASE Resolved(r) = "leave"
    <3>1. GoesTo(r, "gone")
      BY <2>1, <2>6 DEF ReleaseVm
    <3>2. at'[r] = "gone"
      BY <3>1, VmGoto
    <3>3. FoundBy(r)'
      BY <3>2 DEF FoundBy
    <3>4. QED
      BY <1>3, <2>2, <2>5, <2>6, <3>1, <3>3
  <2>7. CASE Resolved(r) # "leave"
    <3>1. GoesTo(r, "look")
      BY <2>1, <2>7 DEF ReleaseVm
    <3>2. at'[r] = "look" /\ before' = before /\ after' = after
      <4>1. "look" \in Spots /\ "look" # "gone"
        OBVIOUS
      <4>2. QED
        BY <3>1, <4>1, VmGoto
    <3>3. Resolved(r)' = Resolved(r)
      BY <3>2 DEF Resolved
    <3>4. FoundBy(r)'
      BY <2>2, <2>5, <2>7, <3>2, <3>3 DEF FoundBy
    <3>5. QED
      BY <1>3, <2>2, <3>1, <3>4
  <2>8. QED
    BY <2>6, <2>7
<1>10. CASE \E r \in VmRuns : LookBusy(r)
  <2>1. PICK r \in VmRuns : LookBusy(r)
    BY <1>10
  <2>2. at[r] = "look" /\ vm' = vm /\ home' = home
    BY <2>1 DEF LookBusy, vmGhosts
  <2>3. slot = NoRun
    BY <2>2 DEF VmTypeOK, OneLease, Owned
  <2>4. GoesTo(r, "act")
    BY <1>1, <2>1, <2>3 DEF LookBusy
  <2>5. at'[r] = "act" /\ before' = before /\ after' = after
    <3>1. "act" \in Spots /\ "act" # "gone"
      OBVIOUS
    <3>2. QED
      BY <2>4, <3>1, VmGoto
  <2>6. Resolved(r)' = Resolved(r)
    BY <2>5 DEF Resolved
  <2>7. FoundBy(r)'
    BY <1>4, <2>2, <2>5, <2>6 DEF FoundBy
  <2>8. QED
    BY <1>3, <2>2, <2>4, <2>7
<1>11. CASE \E r \in VmRuns : Pause(r)
  <2>1. PICK r \in VmRuns : Pause(r)
    BY <1>11
  <2>2. at[r] = "act" /\ Resolved(r) = "pause" /\ GoesTo(r, "gone") /\ home' = home
    BY <1>4, <2>1 DEF FoundBy, Pause, vmGhosts
  <2>3. vm = "up" /\ home = "paused"
    BY <1>4, <2>2 DEF FoundBy
  <2>4. vm' = "paused"
    BY <2>1, <2>3 DEF Pause, State, Becomes
  <2>5. at'[r] = "gone"
    BY <2>2, VmGoto
  <2>6. FoundBy(r)'
    BY <2>5 DEF FoundBy
  <2>7. QED
    BY <1>3, <2>2, <2>3, <2>4, <2>6
<1>12. CASE \E r \in VmRuns : StopVm(r)
  <2>1. PICK r \in VmRuns : StopVm(r)
    BY <1>12
  <2>2. at[r] = "act" /\ Resolved(r) = "stop" /\ home' = home
    BY <1>4, <2>1 DEF FoundBy, StopVm, vmGhosts
  <2>3. vm = "up" /\ home = "stopped"
    BY <1>4, <2>2 DEF FoundBy
  <2>4. GoesTo(r, "stopping") /\ vm' = "going down"
    BY <2>1, <2>3 DEF StopVm, Becomes
  <2>5. at'[r] = "stopping" /\ before' = before /\ after' = after
    BY <2>4, VmGoto
  <2>6. Resolved(r)' = Resolved(r)
    BY <2>5 DEF Resolved
  <2>7. FoundBy(r)'
    BY <2>2, <2>3, <2>4, <2>5, <2>6 DEF FoundBy
  <2>8. QED
    BY <1>3, <2>2, <2>4, <2>7
<1>13. CASE \E r \in VmRuns : Stopped(r)
  <2>1. PICK r \in VmRuns : Stopped(r)
    BY <1>13
  <2>2. at[r] = "stopping" /\ GoesTo(r, "gone") /\ home' = home /\ vm' = "stopped"
    BY <2>1 DEF Stopped, Becomes, vmGhosts
  <2>3. home = "stopped"
    BY <1>4, <2>2 DEF FoundBy
  <2>4. at'[r] = "gone"
    BY <2>2, VmGoto
  <2>5. FoundBy(r)'
    BY <2>4 DEF FoundBy
  <2>6. QED
    BY <1>3, <2>2, <2>3, <2>5
<1>14. CASE \E r \in VmRuns : ReleaseFails(r)
  BY <1>1, <1>14 DEF ReleaseFails
<1>15. CASE \E r \in VmRuns : CaptureBegins(r)
  BY <1>15 DEF CaptureBegins, vmGhosts, AsFound, FoundBy, Nobody, Resolved
<1>16. CASE CaptureEnds
  BY <1>16 DEF CaptureEnds, vmGhosts, AsFound, FoundBy, Nobody, Resolved
<1>17. CASE Booted \/ ShutDown
  <2>1. UNCHANGED <<at, before, after, home>>
    BY <1>17 DEF Booted, ShutDown, vmGhosts
  <2>2. \/ vm = "booting" /\ vm' = "up"
        \/ vm = "going down" /\ vm' = "stopped"
    BY <1>17 DEF Booted, ShutDown, Becomes
  <2>3. home \in {"stopped", "paused", "up"}
    BY DEF VmTypeOK, Resting
  <2>4. ~Nobody
    BY <2>2, <2>3 DEF AsFound
  <2>5. ASSUME NEW r \in VmRuns PROVE FoundBy(r)'
    <3>1. FoundBy(r) /\ Resolved(r)' = Resolved(r)
      BY <1>4, <2>1 DEF Resolved
    <3>2. at[r] # "up"
      BY <2>2, <2>3, <3>1 DEF FoundBy
    <3>3. vm = "going down" => at[r] # "waiting"
      BY <3>1 DEF FoundBy
    <3>4. vm # "up"
      BY <2>2
    <3>5. QED
      BY <2>1, <2>2, <3>1, <3>2, <3>3, <3>4 DEF FoundBy
  <2>6. QED
    BY <2>1, <2>4, <2>5 DEF AsFound, Nobody
<1>18. CASE \E v \in Hands : ByHand(v)
  <2>1. PICK v \in Hands : ByHand(v)
    BY <1>18
  <2>2. \A q \in VmRuns : at[q] \notin Leasing
    BY <2>1, Zenon DEF ByHand
  <2>3. at' = at /\ vm' = v /\ home' = v
    BY <2>1 DEF ByHand, Becomes
  <2>4. QED
    BY <2>2, <2>3 DEF AsFound, FoundBy
<1>19. CASE \E r \in VmRuns : VmRunKilled(r)
  BY <1>1, <1>19 DEF VmRunKilled
<1>20. QED
  BY <1>2, <1>5, <1>6, <1>7, <1>8, <1>9, <1>10, <1>11, <1>12, <1>13, <1>14, <1>15,
     <1>16, <1>17, <1>18, <1>19 DEF VmNext, Acquires, Releases

LEMMA VmOwned ==
  ASSUME VmTypeOK, Owned, VmNext, misfortunes' = 0
  PROVE  Owned'
<1> USE DEF Spots, Leasing, Acting
<1>1. ~GoesWrong
  BY VmGoesWrong
<1>2. ASSUME NEW r \in VmRuns, slot # r, slot' = slot \/ slot' = NoRun,
             \A q \in VmRuns \ {r} : at'[q] = at[q]
      PROVE  Owned'
  BY <1>2 DEF Owned, VmTypeOK
<1>3. ASSUME NEW r \in VmRuns, slot # r, slot' = slot \/ slot' = NoRun,
             NEW place \in Spots, GoesTo(r, place)
      PROVE  Owned'
  BY <1>2, <1>3, VmGoto
<1>4. ASSUME NEW r \in VmRuns, at[r] # "using"
      PROVE  slot # r
  BY <1>4, NoRunAssumption DEF Owned
<1>5. ASSUME NEW r \in VmRuns, Acquires(r)
      PROVE  Owned'
  <2>1. CASE FindLocalVm(r)
    <3>1. at[r] = "new" /\ slot' = slot /\ \A q \in VmRuns \ {r} : at'[q] = at[q]
      BY <2>1 DEF FindLocalVm, VmTypeOK
    <3>2. QED
      BY <1>2, <1>4, <3>1
  <2>2. CASE BringUp(r)
    <3>1. slot' = slot \/ slot' = NoRun
      BY <2>2, Zenon DEF BringUp, Becomes
    <3>2. QED
      BY <1>3, <1>4, <2>2, <3>1 DEF BringUp
  <2>3. CASE WaitHealthy(r) \/ NotHealthy(r) \/ Leased(r)
    BY <1>3, <1>4, <2>3 DEF WaitHealthy, NotHealthy, Leased
  <2>4. QED
    BY <1>5, <2>1, <2>2, <2>3 DEF Acquires
<1>6. ASSUME NEW r \in VmRuns, Releases(r)
      PROVE  Owned'
  <2>1. CASE ReleaseVm(r)
    BY <1>3, <2>1 DEF ReleaseVm
  <2>2. CASE LookBusy(r) \/ ReleaseFails(r)
    BY <1>3, <1>4, <2>2 DEF LookBusy, ReleaseFails
  <2>3. CASE Pause(r) \/ StopVm(r) \/ Stopped(r)
    <3>1. slot' = slot \/ slot' = NoRun
      BY <2>3 DEF Pause, StopVm, Stopped, Becomes
    <3>2. QED
      BY <1>3, <1>4, <2>3, <3>1 DEF Pause, StopVm, Stopped
  <2>4. QED
    BY <1>6, <2>1, <2>2, <2>3 DEF Releases
<1>7. ASSUME NEW r \in VmRuns, CaptureBegins(r)
      PROVE  Owned'
  BY <1>7 DEF CaptureBegins, Owned
<1>8. ASSUME NEW r \in VmRuns, VmRunKilled(r)
      PROVE  Owned'
  BY <1>1, <1>8 DEF VmRunKilled
<1>9. ASSUME CaptureEnds \/ Booted \/ ShutDown \/ \E v \in Hands : ByHand(v)
      PROVE  Owned'
  BY <1>9 DEF CaptureEnds, Booted, ShutDown, ByHand, Becomes, Owned
<1>10. QED
  BY <1>5, <1>6, <1>7, <1>8, <1>9 DEF VmNext

LEMMA VmStep ==
  ASSUME VmInv, [VmNext]_vmVars
  PROVE  VmInv'
<1>1. VmTypeOK'
  BY VmStepTyped DEF VmInv
<1>2. CASE UNCHANGED vmVars
  <2>1. UNCHANGED <<vm, at, before, after, misfortunes, home, mixed, leftToIt>>
    BY <1>2 DEF vmVars
  <2>2. (misfortunes = 0)' = (misfortunes = 0) /\ mixed' = mixed /\ leftToIt' = leftToIt
    BY <2>1
  <2>3. OneLease' = OneLease /\ UpForItsRun' = UpForItsRun
    BY <2>1 DEF OneLease, UpForItsRun
  <2>4. AsFound => AsFound'
    BY <2>1 DEF AsFound, FoundBy, Nobody, Resolved
  <2>5. Owned => Owned'
    BY <1>2 DEF vmVars, Owned
  <2>6. QED
    BY <1>1, <2>2, <2>3, <2>4, <2>5, Zenon DEF VmInv
<1>3. CASE VmNext
  <2>1. /\ mixed => mixed'
        /\ leftToIt => leftToIt'
        /\ misfortunes' = 0 => misfortunes = 0
        /\ misfortunes' = 0 => (leftToIt' => leftToIt)
    BY <1>3, VmHistory DEF VmInv
  <2>2. misfortunes' = 0 => ~leftToIt'
    BY <2>1, Zenon DEF VmInv
  <2>3. ASSUME ~mixed' PROVE OneLease'
    BY <1>3, <2>1, <2>3, VmOneLease DEF VmInv
  <2>4. ASSUME ~mixed', ~leftToIt' PROVE UpForItsRun'
    <3>1. ~mixed /\ ~leftToIt
      BY <2>1, <2>4, Zenon
    <3>2. QED
      BY <1>3, <2>4, <3>1, VmUp DEF VmInv
  <2>5. ASSUME ~mixed', misfortunes' = 0 PROVE AsFound'
    <3>1. ~mixed /\ misfortunes = 0
      BY <2>1, <2>5, Zenon
    <3>2. ~leftToIt /\ Owned
      BY <3>1, Zenon DEF VmInv
    <3>3. QED
      BY <1>3, <2>5, <3>1, <3>2, VmFound DEF VmInv
  <2>6. ASSUME misfortunes' = 0 PROVE Owned'
    BY <1>3, <2>1, <2>6, VmOwned DEF VmInv
  <2>7. QED
    BY <1>1, <2>2, <2>3, <2>4, <2>5, <2>6, Zenon DEF VmInv
<1>4. QED
  BY <1>2, <1>3

LEMMA InitVm ==
  ASSUME VmInit
  PROVE  VmInv
<1> USE DEF VmInit, Leasing, Acting
<1>1. VmTypeOK
  BY VmInitTyped
<1>2. OneLease /\ UpForItsRun
  BY DEF OneLease, UpForItsRun, Resting
<1>3. AsFound
  BY DEF AsFound, FoundBy
<1>4. ~leftToIt /\ Owned
  BY DEF Owned
<1>5. QED
  BY <1>1, <1>2, <1>3, <1>4, Zenon DEF VmInv

(* The VM and its runs are of the declared types: what captures has the    *)
(* guest up and its run using it or killed.                                *)
THEOREM VmTypeCorrect == VmSpec => []VmTypeOK
<1>1. VmInit => VmTypeOK
  BY VmInitTyped
<1>2. VmTypeOK /\ [VmNext]_vmVars => VmTypeOK'
  BY VmStepTyped
<1>3. QED
  BY <1>1, <1>2, PTL DEF VmSpec

LEMMA VmInvariant == VmSpec => []VmInv
<1>1. VmInit => VmInv
  BY InitVm
<1>2. VmInv /\ [VmNext]_vmVars => VmInv'
  BY VmStep
<1>3. QED
  BY <1>1, <1>2, PTL DEF VmSpec

(* A run whose VM was said to be healthy has it, but for those at it at    *)
(* the same time and a stop nobody waited for (withLocalVm).               *)
THEOREM VmIsNotPulled == VmSpec => []NoVmIsPulled
<1>1. VmSpec => []VmInv
  BY VmInvariant
<1>2. VmInv => NoVmIsPulled
  BY DEF VmInv, UpForItsRun, NoVmIsPulled
<1>3. QED
  BY <1>1, <1>2, PTL

(* One run at a time, and nothing that fails: the VM is left as it was     *)
(* found, or as the run was told to leave it (restoreAction).              *)
THEOREM VmIsLeftAsFound == VmSpec => []LeftAsFound
<1>1. VmSpec => []VmInv
  BY VmInvariant
<1>2. VmInv => LeftAsFound
  BY DEF VmInv, AsFound, LeftAsFound
<1>3. QED
  BY <1>1, <1>2, PTL

-----------------------------------------------------------------------------
(* However many are at it at once: what a release takes the guest from.    *)
LEMMA VmLooked ==
  ASSUME VmTypeOK, LookedBefore, [VmNext]_vmVars
  PROVE  LookedBefore'
<1> USE DEF Spots, Leasing, Acting
<1>1. ASSUME NEW r \in VmRuns, NEW place \in Spots, GoesTo(r, place),
             slot' = slot \/ slot' = NoRun,
             slot # NoRun => place \notin {"act", "stopping"}
               \/ at[r] \in {"act", "stopping"} \/ slot' = NoRun
      PROVE  LookedBefore'
  <2>1. /\ at'[r] = place /\ \A q \in VmRuns \ {r} : at'[q] = at[q]
        /\ raced \ {r} \subseteq raced' /\ (place # "gone" => raced' = raced)
    BY <1>1, VmGoto
  <2>2. QED
    BY <1>1, <2>1 DEF LookedBefore
<1>2. ASSUME NEW r \in VmRuns, Acquires(r)
      PROVE  LookedBefore'
  <2>1. CASE FindLocalVm(r)
    <3>1. UNCHANGED <<slot, raced>> /\ \A q \in VmRuns \ {r} : at'[q] = at[q]
      BY <2>1 DEF FindLocalVm, VmTypeOK
    <3>2. at'[r] \in {"check", "up"}
      BY <2>1 DEF FindLocalVm, VmTypeOK
    <3>3. QED
      BY <3>1, <3>2 DEF LookedBefore
  <2>2. CASE BringUp(r)
    <3>1. slot' = slot \/ slot' = NoRun
      BY <2>2, Zenon DEF BringUp, Becomes
    <3>2. QED
      BY <1>1, <2>2, <3>1 DEF BringUp
  <2>3. CASE WaitHealthy(r) \/ NotHealthy(r) \/ Leased(r)
    BY <1>1, <2>3 DEF WaitHealthy, NotHealthy, Leased
  <2>4. QED
    BY <1>2, <2>1, <2>2, <2>3 DEF Acquires
<1>3. ASSUME NEW r \in VmRuns, Releases(r)
      PROVE  LookedBefore'
  <2>1. CASE ReleaseVm(r)
    BY <1>1, <2>1 DEF ReleaseVm
  <2>2. CASE LookBusy(r)
    <3>1. PICK place \in {"gone", "act", "act unanswered"} :
            GoesTo(r, place) /\ (slot # NoRun => place # "act")
      BY <2>2 DEF LookBusy
    <3>2. QED
      BY <1>1, <2>2, <3>1 DEF LookBusy
  <2>3. CASE Pause(r)
    BY <1>1, <2>3 DEF Pause, Becomes
  <2>4. CASE StopVm(r)
    <3>1. \/ GoesTo(r, "gone") /\ slot' = slot
          \/ GoesTo(r, "stopping") /\ slot' = NoRun
      BY <2>4 DEF StopVm, Becomes
    <3>2. QED
      BY <1>1, <3>1
  <2>5. CASE Stopped(r)
    BY <1>1, <2>5 DEF Stopped, Becomes
  <2>6. CASE ReleaseFails(r)
    BY <1>1, <2>6 DEF ReleaseFails
  <2>7. QED
    BY <1>3, <2>1, <2>2, <2>3, <2>4, <2>5, <2>6 DEF Releases
<1>4. ASSUME NEW r \in VmRuns, CaptureBegins(r)
      PROVE  LookedBefore'
  BY <1>4 DEF CaptureBegins, LookedBefore
<1>5. ASSUME CaptureEnds \/ Booted \/ ShutDown \/ \E v \in Hands : ByHand(v)
      PROVE  LookedBefore'
  <2>1. UNCHANGED <<at, raced>>
    BY <1>5 DEF CaptureEnds, Booted, ShutDown, ByHand
  <2>2. slot' = slot \/ slot' = NoRun
    BY <1>5 DEF CaptureEnds, Booted, ShutDown, ByHand, Becomes
  <2>3. QED
    BY <2>1, <2>2 DEF LookedBefore
<1>6. CASE UNCHANGED vmVars
  <2>1. UNCHANGED <<slot, at, raced>>
    BY <1>6 DEF vmVars
  <2>2. QED
    BY <2>1 DEF LookedBefore
<1>7. ASSUME NEW r \in VmRuns, VmRunKilled(r)
      PROVE  LookedBefore'
  BY <1>1, <1>7 DEF VmRunKilled
<1>8. QED
  BY <1>2, <1>3, <1>4, <1>5, <1>6, <1>7 DEF VmNext

(* What CutTakesARace says of one step.                                    *)
CutsARace ==
  slot # NoRun /\ vm' # "up" =>
    \/ \E r \in VmRuns : at[r] # at'[r] /\ (r \in raced \/ at[r] = "act unanswered")
    \/ at' = at

LEMMA VmCuts ==
  ASSUME VmTypeOK, LookedBefore, [VmNext]_vmVars
  PROVE  CutsARace
<1> USE DEF Spots, Leasing, Acting
<1> SUFFICES ASSUME slot # NoRun, vm' # "up"
             PROVE  \/ \E r \in VmRuns : at[r] # at'[r]
                                       /\ (r \in raced \/ at[r] = "act unanswered")
                    \/ at' = at
  BY DEF CutsARace
<1>1. vm = "up"
  BY DEF VmTypeOK
<1>2. ASSUME NEW r \in VmRuns, Acquires(r)
      PROVE  FALSE
  <2>1. CASE BringUp(r)
    BY <1>1, <2>1, Zenon DEF BringUp, Becomes
  <2>2. CASE FindLocalVm(r)
    BY <1>1, <2>2 DEF FindLocalVm
  <2>3. CASE WaitHealthy(r) \/ NotHealthy(r) \/ Leased(r)
    BY <1>1, <2>3 DEF WaitHealthy, NotHealthy, Leased
  <2>4. QED
    BY <1>2, <2>1, <2>2, <2>3 DEF Acquires
<1>3. ASSUME NEW r \in VmRuns, Releases(r)
      PROVE  at[r] # at'[r] /\ (r \in raced \/ at[r] = "act unanswered")
  <2>1. at[r] \in Acting
    BY <1>1, <1>3 DEF Releases, ReleaseVm, LookBusy, Pause, StopVm, Stopped,
                      ReleaseFails
  <2>2. r \in raced \/ at[r] = "act unanswered"
    BY <2>1 DEF LookedBefore
  <2>3. CASE Pause(r) \/ Stopped(r) \/ ReleaseFails(r)
    <3>1. GoesTo(r, "gone")
      BY <2>3 DEF Pause, Stopped, ReleaseFails
    <3>2. QED
      BY <2>1, <2>2, <3>1, VmGoto
  <2>4. CASE StopVm(r)
    <3>1. at[r] # "stopping" /\ (GoesTo(r, "gone") \/ GoesTo(r, "stopping"))
      BY <2>4 DEF StopVm
    <3>2. at'[r] \in {"gone", "stopping"}
      BY <3>1, VmGoto
    <3>3. QED
      BY <2>1, <2>2, <3>1, <3>2
  <2>5. CASE ReleaseVm(r) \/ LookBusy(r)
    BY <1>1, <2>5 DEF ReleaseVm, LookBusy
  <2>6. QED
    BY <1>3, <2>3, <2>4, <2>5 DEF Releases
<1>4. ASSUME \/ \E r \in VmRuns : CaptureBegins(r)
             \/ CaptureEnds \/ Booted \/ ShutDown
             \/ \E v \in Hands : ByHand(v)
             \/ UNCHANGED vmVars
      PROVE  at' = at
  BY <1>4 DEF CaptureBegins, CaptureEnds, Booted, ShutDown, ByHand, vmVars
<1>5. ASSUME NEW r \in VmRuns, VmRunKilled(r)
      PROVE  FALSE
  BY <1>1, <1>5 DEF VmRunKilled
<1>6. QED
  BY <1>2, <1>3, <1>4, <1>5 DEF VmNext

(* However many runs there are, a release that was answered takes the      *)
(* guest from no capture but one that began after it had looked.           *)
THEOREM VmCutTakesARace == VmSpec => CutTakesARace
<1>1. VmSpec => []VmTypeOK
  BY VmTypeCorrect
<1>2. VmInit => LookedBefore
  BY DEF VmInit, LookedBefore
<1>3. VmTypeOK /\ LookedBefore /\ [VmNext]_vmVars => LookedBefore'
  BY VmLooked
<1>4. VmTypeOK /\ LookedBefore /\ [VmNext]_vmVars => [CutsARace]_vmVars
  BY VmCuts
<1>5. VmSpec => [][CutsARace]_vmVars
  BY <1>1, <1>2, <1>3, <1>4, PTL DEF VmSpec
<1>6. QED
  BY <1>5 DEF CutTakesARace, CutsARace
=============================================================================
