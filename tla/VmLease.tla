------------------------------ MODULE VmLease ------------------------------
(***************************************************************************)
(* The local worker VM, started for a run and put back after it            *)
(* (worker-fleet/src/local-vm.ts, local-worker/worker-ctl.sh).             *)
(*                                                                         *)
(* Nobody counts who uses the VM.  A run remembers how it found it, and    *)
(* puts it back like that unless it hears of a capture.  Each call of      *)
(* worker-ctl.sh is a process: what it reads is true when it reads it; the *)
(* shutdown of a Windows takes time and goes on whether anybody waits.     *)
(*                                                                         *)
(* One VM.  In a pool each member is leased like this one, and the first   *)
(* that does not come up is left out where the single lease throws: either *)
(* way nothing puts it back.  A run that captures elsewhere (a named       *)
(* worker, a declared fleet, no VM, or no memory for it) is no VmRun.      *)
(* The idle watcher is a hand on the switch.                               *)
(* (X_Slip: a fault seeded in X, see ResultStore.)                         *)
(***************************************************************************)
EXTENDS Naturals

CONSTANTS VmRuns, NoRun,
          AfterRuns,       \* what a run may be told to do with the VM afterwards
          Hands,           \* the states a hand may put the VM in
          MaxMisfortunes   \* bound: calls that fail or find no answer

ASSUME NoRunAssumption == NoRun \notin VmRuns
ASSUME AfterRunsAssumption == AfterRuns \subseteq {"restore", "stop", "pause", "leave"}
ASSUME HandsAssumption == Hands \subseteq {"stopped", "paused", "up"}
ASSUME MisfortunesAssumption == MaxMisfortunes \in Nat

VARIABLES
  vm,           \* the guest
  slot,         \* the run whose capture its worker is at
  at,           \* where each run is
  before,       \* the state it found, in utmctl's words
  after,        \* what it was told to do afterwards
  misfortunes,  \* how much has gone wrong
  home,         \* history: how the guest is to be left
  mixed,        \* history: two runs, or a run and a hand, were at it at once
  leftToIt,     \* history: a stop was given up while it was under way
  raced         \* history: the runs about to act since whose look a capture has begun

vmGhosts == <<home, mixed, leftToIt>>
vmVars == <<vm, slot, at, before, after, misfortunes, home, mixed, leftToIt, raced>>

(* booting, going down: Windows is starting or shutting down, which utmctl *)
(* calls started.                                                          *)
Resting == {"stopped", "paused", "up"}
State(v) == IF v \in {"booting", "up", "going down"} THEN "started" ELSE v

Acting == {"act", "act unanswered", "stopping"}
Leasing == {"up", "waiting", "check", "using", "look"} \cup Acting

VmTypeOK ==
  /\ vm \in Resting \cup {"booting", "going down"}
  /\ slot \in VmRuns \cup {NoRun}
  /\ slot # NoRun => vm = "up" /\ at[slot] \in {"using", "gone"}
  /\ at \in [VmRuns -> {"new", "gone"} \cup Leasing]
  /\ before \in [VmRuns -> {"stopped", "paused", "started", "unknown"}]
  /\ after \in [VmRuns -> AfterRuns \cup {"restore"}]
  /\ misfortunes \in 0 .. MaxMisfortunes
  /\ home \in Resting
  /\ mixed \in BOOLEAN /\ leftToIt \in BOOLEAN
  /\ raced \subseteq {r \in VmRuns : at[r] \in Acting}

VmInit ==
  /\ vm \in Resting
  /\ slot = NoRun
  /\ at = [r \in VmRuns |-> "new"]
  /\ before = [r \in VmRuns |-> "unknown"]
  /\ after = [r \in VmRuns |-> "restore"]
  /\ misfortunes = 0
  /\ home = vm
  /\ mixed = FALSE /\ leftToIt = FALSE
  /\ raced = {}

(* A run that is over has forgotten what it remembered.                    *)
GoesTo(r, place) ==
  /\ at' = [at EXCEPT ![r] = place]
  /\ IF place = "gone"
       THEN /\ before' = [before EXCEPT ![r] = "unknown"]
            /\ after' = [after EXCEPT ![r] = "restore"]
            /\ raced' = raced \ {r}
       ELSE UNCHANGED <<before, after, raced>>

GoesWrong == misfortunes < MaxMisfortunes /\ misfortunes' = misfortunes + 1

(* The guest is up, or no longer: a capture ends with it.                  *)
Becomes(v) ==
  /\ vm' = v
  /\ slot' = IF v = "up" THEN slot ELSE NoRun

(* /health answers; in a guest that is going down it may still.            *)
MayAnswer == vm \in {"up", "going down"}

-----------------------------------------------------------------------------
(* The lease.  A state utmctl cannot tell is not `started'.                *)
FindLocalVm(r) ==
  /\ at[r] = "new"
  /\ \E state \in {State(vm), "unknown"}, healthy \in {FALSE, MayAnswer} :
       /\ before' = [before EXCEPT ![r] = state]
       /\ at' = [at EXCEPT ![r] = IF state = "started" /\ healthy THEN "check" ELSE "up"]
       /\ IF state = State(vm) /\ (vm = "up" => healthy)
            THEN UNCHANGED misfortunes ELSE GoesWrong
  /\ \E what \in AfterRuns : after' = [after EXCEPT ![r] = what]
  /\ mixed' = (mixed \/ \E q \in VmRuns : at[q] \in Leasing)
  /\ UNCHANGED <<vm, slot, home, leftToIt, raced>>

(* worker-ctl.sh up.                                                       *)
BringUp(r) ==
  /\ at[r] = "up"
  /\ CASE vm = "stopped" -> Becomes("booting")
       [] vm = "paused"  -> Becomes("up")
       [] OTHER          -> UNCHANGED <<vm, slot>>
  /\ GoesTo(r, "waiting")
  /\ UNCHANGED <<misfortunes, vmGhosts>>

WaitHealthy(r) ==
  /\ at[r] = "waiting"
  /\ MayAnswer
  /\ GoesTo(r, "check")
  /\ UNCHANGED <<vm, slot, misfortunes, vmGhosts>>

(* Not ready in time, or the call failed: no lease, and no release.        *)
NotHealthy(r) ==
  /\ at[r] \in {"up", "waiting", "check"}
  /\ GoesTo(r, "gone")
  /\ IF at[r] # "up" /\ vm \notin {"booting", "up"} THEN UNCHANGED misfortunes ELSE GoesWrong
  /\ UNCHANGED <<vm, slot, vmGhosts>>

Leased(r) ==
  /\ at[r] = "check"
  /\ MayAnswer
  /\ GoesTo(r, "using")
  /\ UNCHANGED <<vm, slot, misfortunes, vmGhosts>>

-----------------------------------------------------------------------------
CaptureBegins(r) ==
  /\ at[r] = "using" /\ vm = "up" /\ slot = NoRun
  /\ slot' = r
  /\ raced' = {q \in VmRuns : at[q] \in Acting}
  /\ UNCHANGED <<vm, at, before, after, misfortunes, vmGhosts>>

CaptureEnds ==
  /\ slot # NoRun
  /\ slot' = NoRun
  /\ UNCHANGED <<vm, at, before, after, misfortunes, vmGhosts, raced>>

-----------------------------------------------------------------------------
(* The release.                                                            *)
RestoreAction_Slip(state) == IF state = "started" THEN "leave" ELSE "stop"

RestoreAction(state) ==
  CASE state = "started" -> "leave"
    [] state = "paused"  -> "pause"
    [] OTHER             -> "stop"

Resolved(r) == IF after[r] = "restore" THEN RestoreAction(before[r]) ELSE after[r]

ReleaseVm(r) ==
  /\ at[r] = "using" /\ slot # r
  /\ GoesTo(r, IF Resolved(r) = "leave" THEN "gone" ELSE "look")
  /\ home' = CASE after[r] = "restore" -> home
               [] after[r] = "leave"   -> "up"
               [] after[r] = "pause"   -> "paused"
               [] after[r] = "stop"    -> "stopped"
  /\ UNCHANGED <<vm, slot, misfortunes, mixed, leftToIt>>

LookBusy_Slip(r) ==
  /\ at[r] = "look"
  /\ \/ GoesTo(r, "act") /\ UNCHANGED misfortunes
     \/ GoesTo(r, "act unanswered") /\ GoesWrong
  /\ UNCHANGED <<vm, slot, vmGhosts>>

(* Whoever cannot be asked is not busy.                                    *)
LookBusy(r) ==
  /\ at[r] = "look"
  /\ \/ GoesTo(r, IF slot # NoRun THEN "gone" ELSE "act") /\ UNCHANGED misfortunes
     \/ GoesTo(r, "act unanswered") /\ GoesWrong
  /\ UNCHANGED <<vm, slot, vmGhosts>>

(* worker-ctl.sh pause: of a guest that is started.                        *)
Pause(r) ==
  /\ at[r] \in Acting \ {"stopping"} /\ Resolved(r) = "pause"
  /\ IF State(vm) = "started" THEN Becomes("paused") ELSE UNCHANGED <<vm, slot>>
  /\ GoesTo(r, "gone")
  /\ UNCHANGED <<misfortunes, vmGhosts>>

StopVm_Slip(r) ==
  /\ at[r] \in Acting \ {"stopping"} /\ Resolved(r) = "stop"
  /\ GoesTo(r, "gone")
  /\ IF vm = "stopped" THEN UNCHANGED <<vm, slot>> ELSE Becomes("going down")
  /\ UNCHANGED <<misfortunes, vmGhosts>>

(* worker-ctl.sh stop: a paused guest is resumed first.                    *)
StopVm(r) ==
  /\ at[r] \in Acting \ {"stopping"} /\ Resolved(r) = "stop"
  /\ IF vm = "stopped" THEN GoesTo(r, "gone") /\ UNCHANGED <<vm, slot>>
                       ELSE GoesTo(r, "stopping") /\ Becomes("going down")
  /\ UNCHANGED <<misfortunes, vmGhosts>>

(* It waits until the guest's process is gone, and after SHUTDOWN_GRACE_S  *)
(* stops whatever process the guest then has.                              *)
Stopped(r) ==
  /\ at[r] = "stopping"
  /\ Becomes("stopped")
  /\ GoesTo(r, "gone")
  /\ UNCHANGED <<misfortunes, vmGhosts>>

(* The call fails, or runs into its timeout: a warning.                    *)
ReleaseFails(r) ==
  /\ at[r] \in Acting
  /\ GoesWrong
  /\ GoesTo(r, "gone")
  /\ leftToIt' = (leftToIt \/ at[r] = "stopping")
  /\ UNCHANGED <<vm, slot, home, mixed>>

(* A run is killed between its lease and its release: the guest stays as   *)
(* it is, and a capture goes on.  (Before and after that, a call fails.)   *)
VmRunKilled(r) ==
  /\ at[r] \in {"using", "look"}
  /\ GoesWrong
  /\ GoesTo(r, "gone")
  /\ UNCHANGED <<vm, slot, vmGhosts>>

-----------------------------------------------------------------------------
Booted ==
  /\ vm = "booting"
  /\ Becomes("up")
  /\ UNCHANGED <<at, before, after, misfortunes, vmGhosts, raced>>

ShutDown ==
  /\ vm = "going down"
  /\ Becomes("stopped")
  /\ UNCHANGED <<at, before, after, misfortunes, vmGhosts, raced>>

(* Somebody starts, pauses or stops it by hand.                            *)
ByHand(v) ==
  /\ vm \in Resting \ {v}
  /\ Becomes(v)
  /\ home' = v
  /\ mixed' = (mixed \/ \E r \in VmRuns : at[r] \in Leasing)
  /\ UNCHANGED <<at, before, after, misfortunes, leftToIt, raced>>

Acquires(r) == FindLocalVm(r) \/ BringUp(r) \/ WaitHealthy(r) \/ NotHealthy(r) \/ Leased(r)

Releases(r) ==
  \/ ReleaseVm(r) \/ LookBusy(r) \/ Pause(r) \/ StopVm(r) \/ Stopped(r) \/ ReleaseFails(r)

VmNext ==
  \/ \E r \in VmRuns :
       Acquires(r) \/ CaptureBegins(r) \/ Releases(r) \/ VmRunKilled(r)
  \/ CaptureEnds \/ Booted \/ ShutDown
  \/ \E v \in Hands : ByHand(v)

VmSpec == VmInit /\ [][VmNext]_vmVars

-----------------------------------------------------------------------------
Nobody == \A r \in VmRuns : at[r] \in {"new", "gone"}

(* A run whose VM was said to be healthy has it, whatever the runs before  *)
(* it did, found and failed at: but for those that were at it at the same  *)
(* time, and for a stop nobody waited for.                                 *)
NoVmIsPulled ==
  ~mixed /\ ~leftToIt => \A r \in VmRuns : at[r] = "using" => vm = "up"

(* The VM is left as found: a stopped one stopped, a paused one paused,    *)
(* one that was started left alone; or as a run was told to leave it.      *)
LeftAsFound ==
  Nobody /\ ~mixed /\ misfortunes = 0 => vm = home

(* A release that was answered takes the guest from no capture but one     *)
(* that began after it had looked, however many runs there are; so does    *)
(* nothing else but a hand (which moves no run).                           *)
CutTakesARace ==
  [][slot # NoRun /\ vm' # "up" =>
       \/ \E r \in VmRuns : at[r] # at'[r] /\ (r \in raced \/ at[r] = "act unanswered")
       \/ at' = at]_vmVars

(* Another run may have started a capture: stand down instead              *)
(* (local-vm.ts:141).  False: a release that cannot ask takes the guest    *)
(* from a capture that was under way.                                      *)
StandsDown ==
  [][slot # NoRun /\ vm' # "up" =>
       \/ \E r \in VmRuns : at[r] # at'[r] /\ r \in raced
       \/ at' = at]_vmVars

(* A VM that was stopped gets stopped again (local-vm.ts:10).  False of    *)
(* two runs: the one that stands down for the other leaves the VM to one   *)
(* that found it started.                                                  *)
StoppedAgain ==
  Nobody /\ misfortunes = 0 /\ home = "stopped" => vm # "up"
=============================================================================
