-------------------------- MODULE PageServerLease --------------------------
(***************************************************************************)
(* One page server for several runs on one host (lab/src/training/         *)
(* page-server.mjs): whoever finds the port served adopts it, whoever does *)
(* not starts a server, and a file counts the runs that hold it, so that   *)
(* the last one out stops it.                                              *)
(*                                                                         *)
(* The runs are processes.  The file is read, and later replaced by a      *)
(* rename; what another process did in between is lost.  A run may be      *)
(* killed at any step, and may leave by an exception, when only its exit   *)
(* handler runs.  The file is a hint, the process table is the truth: what *)
(* is dead is not seen in it.                                              *)
(*                                                                         *)
(* A run is one process and its server the child it spawned, named by it.  *)
(* Pid reuse, a spawn that fails outright, a foreign server on the port, a *)
(* server that ends by itself and SIGTERM's grace are left out.            *)
(* (X_Slip: a fault seeded in X, see ResultStore.)                         *)
(***************************************************************************)
CONSTANTS Runs, None

ASSUME NoneAssumption == None \notin Runs

VARIABLES
  file,      \* the holders file
  pc,        \* where each run is
  snap,      \* what it read of the file
  starters,  \* the runs that spawned a server
  servers,   \* the servers alive, by the run that spawned them
  bound,     \* the one that has the port
  torn,      \* the bookkeeping of two runs has overlapped
  cutShort,  \* a run was killed in its bookkeeping, or an exit lost a server's record
  abrupt     \* a holder was killed, and nobody has been the last one out since

vars == <<file, pc, snap, starters, servers, bound, torn, cutShort, abrupt>>
ghosts == <<torn, cutShort, abrupt>>

Files == [server : Runs \cup {None}, holders : SUBSET Runs]
NoFile == [server |-> None, holders |-> {}]

(* From the probe until the pages are there, and from the read of a leave  *)
(* to what follows from it, a run keeps books.                             *)
Bookkeeping ==
  {"adopt", "spawn", "join", "join write", "waiting", "leave", "leave write", "stop",
   "exit write", "stop now"}
Places == {"new", "using", "exit", "gone"} \cup Bookkeeping

TypeOK ==
  /\ file \in Files
  /\ pc \in [Runs -> Places]
  /\ snap \in [Runs -> Files]
  /\ starters \subseteq Runs
  /\ servers \subseteq starters
  /\ bound \in servers \cup {None}
  /\ torn \in BOOLEAN /\ cutShort \in BOOLEAN /\ abrupt \in BOOLEAN
  /\ \A r \in Runs : pc[r] \in {"waiting", "leave", "stop now"} => r \in starters

Init ==
  /\ file = NoFile
  /\ pc = [r \in Runs |-> "new"]
  /\ snap = [r \in Runs |-> NoFile]
  /\ starters = {}
  /\ servers = {}
  /\ bound = None
  /\ torn = FALSE /\ cutShort = FALSE /\ abrupt = FALSE

Goto(r, place) == pc' = [pc EXCEPT ![r] = place]

Alive(r) == pc[r] \notin {"new", "gone"}

Overlaps(r) == torn' = (torn \/ \E q \in Runs \ {r} : pc[q] \in Bookkeeping)

(* readHolders: dead pids describe nothing.                                *)
ReadHolders ==
  [server |-> IF file.server \in servers THEN file.server ELSE None,
   holders |-> {r \in file.holders : Alive(r)}]

Reads(r, place) ==
  /\ snap' = [snap EXCEPT ![r] = ReadHolders]
  /\ Goto(r, place)

Killed(server) ==
  /\ servers' = servers \ {server}
  /\ bound' = IF bound = server THEN None ELSE bound

-----------------------------------------------------------------------------
(* Joining.                                                                *)

(* servesOurPages                                                          *)
Probe(r) ==
  /\ pc[r] = "new"
  /\ Goto(r, IF bound # None THEN "adopt" ELSE "spawn")
  /\ Overlaps(r)
  /\ UNCHANGED <<file, snap, starters, servers, bound, cutShort, abrupt>>

Spawn(r) ==
  /\ pc[r] = "spawn"
  /\ starters' = starters \cup {r}
  /\ servers' = servers \cup {r}
  /\ Goto(r, "join")
  /\ UNCHANGED <<file, snap, bound, ghosts>>

JoinHolders(r) ==
  /\ pc[r] \in {"adopt", "join"}
  /\ Reads(r, "join write")
  /\ UNCHANGED <<file, starters, servers, bound, ghosts>>

WriteJoined_Slip(r) ==
  /\ pc[r] = "join write"
  /\ file' = [server |-> IF r \in starters THEN r ELSE None,
              holders |-> snap[r].holders \cup {r}]
  /\ Goto(r, IF r \in starters THEN "waiting" ELSE "using")
  /\ UNCHANGED <<snap, starters, servers, bound, ghosts>>

(* An adopter has no server of its own to name.                            *)
WriteJoined(r) ==
  /\ pc[r] = "join write"
  /\ file' = [server |-> IF r \in starters THEN r ELSE snap[r].server,
              holders |-> snap[r].holders \cup {r}]
  /\ Goto(r, IF r \in starters THEN "waiting" ELSE "using")
  /\ UNCHANGED <<snap, starters, servers, bound, ghosts>>

(* Whoever serves: the port is probed, not the child.                      *)
Serving(r) ==
  /\ pc[r] = "waiting"
  /\ bound # None
  /\ Goto(r, "using")
  /\ UNCHANGED <<file, snap, starters, servers, bound, ghosts>>

NotServing(r) ==
  /\ pc[r] = "waiting"
  /\ Goto(r, "leave")
  /\ UNCHANGED <<file, snap, starters, servers, bound, ghosts>>

-----------------------------------------------------------------------------
(* Leaving.                                                                *)

(* What the process table says, whatever the file is taken to say.         *)
OthersHold(r) == \E q \in file.holders \ {r} : Alive(q)

(* release, the run's own or a signal's; leaveHolders reads.               *)
Release(r) ==
  /\ pc[r] \in {"using", "leave"}
  /\ Reads(r, "leave write")
  /\ Overlaps(r)
  /\ abrupt' = (abrupt /\ OthersHold(r))
  /\ UNCHANGED <<file, starters, servers, bound, cutShort>>

Remaining(r) == snap[r].holders \ {r}

WriteLeft(r) ==
  file' = IF Remaining(r) = {} THEN NoFile
          ELSE [server |-> snap[r].server, holders |-> Remaining(r)]

Leave_Slip(r) ==
  /\ pc[r] = "leave write"
  /\ WriteLeft(r)
  /\ Goto(r, IF Remaining(r) = {} \/ r \in starters THEN "stop" ELSE "exit")
  /\ UNCHANGED <<snap, starters, servers, bound, ghosts>>

(* lastOut: nobody remains, and the file goes.                             *)
Leave(r) ==
  /\ pc[r] = "leave write"
  /\ WriteLeft(r)
  /\ Goto(r, IF Remaining(r) = {} THEN "stop" ELSE "exit")
  /\ UNCHANGED <<snap, starters, servers, bound, ghosts>>

(* stopGroup, stopPid: a starter its own child, an adopter the recorded.   *)
Stop(r) ==
  /\ pc[r] = "stop"
  /\ Killed(IF r \in starters THEN r ELSE snap[r].server)
  /\ Goto(r, "exit")
  /\ UNCHANGED <<file, snap, starters, ghosts>>

(* A run ends without its release.                                         *)
Throws(r) ==
  /\ pc[r] = "using"
  /\ Goto(r, "exit")
  /\ UNCHANGED <<file, snap, starters, servers, bound, ghosts>>

(* The exit handler leaves, for the second time after a release.           *)
Exit(r) ==
  /\ pc[r] = "exit"
  /\ Reads(r, "exit write")
  /\ Overlaps(r)
  /\ abrupt' = (abrupt /\ OthersHold(r))
  /\ UNCHANGED <<file, starters, servers, bound, cutShort>>

(* Only a starter stops a server from there, and only its own: whoever     *)
(* finds itself last removes the record of any other, and leaves it.       *)
LeaveAtExit(r) ==
  /\ pc[r] = "exit write"
  /\ WriteLeft(r)
  /\ Goto(r, IF Remaining(r) = {} /\ r \in starters THEN "stop now" ELSE "gone")
  /\ cutShort' = (cutShort \/ (Remaining(r) = {} /\ snap[r].server \notin {None, r}))
  /\ UNCHANGED <<snap, starters, servers, bound, torn, abrupt>>

StopNow(r) ==
  /\ pc[r] = "stop now"
  /\ Killed(r)
  /\ Goto(r, "gone")
  /\ UNCHANGED <<file, snap, starters, ghosts>>

-----------------------------------------------------------------------------
(* SIGKILL; for an adopter, which handles no signal, any of them.          *)
Dies(r) ==
  /\ Alive(r)
  /\ Goto(r, "gone")
  /\ cutShort' = (cutShort \/ pc[r] \in Bookkeeping)
  /\ abrupt' = (abrupt \/ r \in file.holders)
  /\ UNCHANGED <<file, snap, starters, servers, bound, torn>>

(* `serve' takes the port; one that finds it taken moves to another port,  *)
(* or ends.                                                                *)
Binds(r) ==
  /\ r \in servers
  /\ bound = None
  /\ bound' = r
  /\ UNCHANGED <<file, pc, snap, starters, servers, ghosts>>

Ends(r) ==
  /\ r \in servers
  /\ bound \notin {None, r}
  /\ servers' = servers \ {r}
  /\ UNCHANGED <<file, pc, snap, starters, bound, ghosts>>

Joins(r) ==
  \/ Probe(r) \/ Spawn(r) \/ JoinHolders(r) \/ WriteJoined(r) \/ Serving(r) \/ NotServing(r)

Leaves(r) ==
  \/ Release(r) \/ Leave(r) \/ Stop(r) \/ Throws(r) \/ Exit(r) \/ LeaveAtExit(r) \/ StopNow(r)

Next == \E r \in Runs : Joins(r) \/ Leaves(r) \/ Dies(r) \/ Binds(r) \/ Ends(r)

Spec == Init /\ [][Next]_vars

-----------------------------------------------------------------------------
(* A long run must not shut down something another run is using: a run     *)
(* that was told its pages are served has them, whoever released, threw or *)
(* was killed before, unless the bookkeeping of two runs overlapped.       *)
NobodyIsPulled ==
  ~torn => \A r \in Runs : pc[r] = "using" => bound # None

(* The last one out turns the lights off, and a crashed holder cannot pin  *)
(* a server: with no run left, no server is, unless bookkeeping overlapped *)
(* or was cut short, an exit that stops no server found itself the last,   *)
(* or a holder was killed and nobody has been the last one out since.      *)
LeftClean ==
  (\A r \in Runs : pc[r] \in {"new", "gone"}) /\ ~torn /\ ~cutShort /\ ~abrupt
    => servers = {} /\ ReadHolders.holders = {}
=============================================================================
