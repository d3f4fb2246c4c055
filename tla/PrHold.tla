------------------------------- MODULE PrHold -------------------------------
(***************************************************************************)
(* A hold on a pull request (agent-org/src/pr-hold.mjs,                    *)
(* pr-hold-state.mjs) among those who would merge it: the sweep            *)
(* (auto-arm-sweep.mjs) and the per-PR job (arm-pr.mjs), which turn        *)
(* GitHub's auto-merge on, and GitHub, which then merges when it likes.    *)
(*                                                                         *)
(* A hold is a label and nothing enforces it: taking one turns auto-merge  *)
(* off, releasing one puts it back if the hold took it away, and the       *)
(* armers look for the label first.  Every call to gh is an action.  A     *)
(* command may end at any of them (Ends): a call throws, a read-back is    *)
(* unreadable, or the process is killed.                                   *)
(*                                                                         *)
(* One pull request.  Wording, exit codes beyond success or not, checks,   *)
(* drafts and the `blocked' label are left out: the last three only make   *)
(* an armer refuse, which Passes allows at any time.  (X_Slip: a fault     *)
(* seeded in X, see ResultStore.)                                          *)
(***************************************************************************)
CONSTANTS Sessions, Sweep, ArmJob

Armers == {Sweep, ArmJob}

ASSUME ArmersAssumption == Sweep # ArmJob /\ Armers \cap Sessions = {}

VARIABLES
  pr,         \* open, armed (autoMergeRequest set), queued, merged
  holders,    \* the sessions whose hold: label it carries
  rearm,      \* it carries rearm-on-release
  at,         \* the call each process makes next
  displaces,  \* whose labels a take has still to remove
  wasArmed,   \* what a take read before it disarmed
  told,       \* what a session's last take reported
  blind,      \* who may arm it without having seen the session's label
  wanted      \* an armer has armed it, ever

vars == <<pr, holders, rearm, at, displaces, wasArmed, told, blind, wanted>>

Processes == Sessions \cup Armers

Taking == {"displace", "add", "land", "was armed", "disarm", "read back", "mark", "done"}
Releasing == {"take off", "see", "arm", "verdict", "unmark"}

TypeOK ==
  /\ pr \in {"open", "armed", "queued", "merged"}
  /\ holders \subseteq Sessions
  /\ rearm \in BOOLEAN
  /\ at \in [Processes -> {"idle", "listed"} \cup Taking \cup Releasing]
  /\ \A a \in Armers : at[a] \in {"idle", "listed", "arm"}
  /\ displaces \in [Sessions -> SUBSET Sessions]
  /\ \A s \in Sessions : at[s] = "displace" <=> displaces[s] # {}
  /\ wasArmed \in [Sessions -> BOOLEAN]
  /\ told \in [Sessions -> {"nothing", "held", "already held"}]
  /\ blind \in [Sessions -> SUBSET Processes]
  /\ wanted \in BOOLEAN

Init ==
  /\ pr = "open"
  /\ holders = {}
  /\ rearm = FALSE
  /\ at = [p \in Processes |-> "idle"]
  /\ displaces = [s \in Sessions |-> {}]
  /\ wasArmed = [s \in Sessions |-> FALSE]
  /\ told = [s \in Sessions |-> "nothing"]
  /\ blind = [s \in Sessions |-> {}]
  /\ wanted = FALSE

Goto(p, place) == at' = [at EXCEPT ![p] = place]

(* gh pr merge --auto and --disable-auto: each may change nothing, and     *)
(* neither touches a PR that is queued or merged.                          *)
Armed == IF pr = "open" THEN {"armed", "open"} ELSE {pr}
Disarmed == IF pr = "armed" THEN {"open", "armed"} ELSE {pr}

(* What autoMergeRequest reads as: null, on a queued or merged PR too.     *)
AutoMergeRequested == pr = "armed"

-----------------------------------------------------------------------------
(* Taking a hold.                                                          *)

(* holdDecision: refused while another holds it, unless told to steal;     *)
(* nothing to do for who holds it alone.                                   *)
TakeHold(s) ==
  /\ at[s] = "idle"
  /\ LET others == holders \ {s} IN
     \/ /\ others # {}
        /\ displaces' = [displaces EXCEPT ![s] = others]
        /\ Goto(s, "displace")
        /\ told' = [told EXCEPT ![s] = "nothing"]
     \/ /\ holders = {}
        /\ Goto(s, "add")
        /\ told' = [told EXCEPT ![s] = "nothing"]
        /\ UNCHANGED displaces
     \/ /\ holders = {s}
        /\ told' = [told EXCEPT ![s] = IF @ = "held" THEN @ ELSE "already held"]
        /\ UNCHANGED <<at, displaces>>
  /\ UNCHANGED <<pr, holders, rearm, wasArmed, blind, wanted>>

(* Displace first, then take: a half-failed write leaves the PR unheld.    *)
Displace(s) ==
  /\ at[s] = "displace"
  /\ \E t \in displaces[s] :
       /\ holders' = holders \ {t}
       /\ displaces' = [displaces EXCEPT ![s] = @ \ {t}]
       /\ Goto(s, IF displaces[s] = {t} THEN "add" ELSE "displace")
  /\ UNCHANGED <<pr, rearm, wasArmed, told, blind, wanted>>

AddLabel(s) ==
  /\ at[s] = "add"
  /\ holders' = holders \cup {s}
  /\ Goto(s, "land")
  /\ UNCHANGED <<pr, rearm, displaces, wasArmed, told, blind, wanted>>

HoldLanded_Slip(s) ==
  /\ at[s] = "land"
  /\ s \in holders
  /\ Goto(s, "was armed")
  /\ UNCHANGED <<pr, holders, rearm, displaces, wasArmed, told, blind, wanted>>

(* The labels are read back and must name s alone; if not, Ends.           *)
HoldLanded(s) ==
  /\ at[s] = "land"
  /\ holders = {s}
  /\ Goto(s, "was armed")
  /\ UNCHANGED <<pr, holders, rearm, displaces, wasArmed, told, blind, wanted>>

(* A read that fails counts as not armed.                                  *)
ReadWasArmed(s) ==
  /\ at[s] = "was armed"
  /\ \E answer \in {AutoMergeRequested, FALSE} :
       wasArmed' = [wasArmed EXCEPT ![s] = answer]
  /\ Goto(s, "disarm")
  /\ UNCHANGED <<pr, holders, rearm, displaces, told, blind, wanted>>

Disarm(s) ==
  /\ at[s] = "disarm"
  /\ pr' \in Disarmed
  /\ Goto(s, "read back")
  /\ UNCHANGED <<holders, rearm, displaces, wasArmed, told, blind, wanted>>

(* Those whose next arming call asks no more for labels.  A PR already on  *)
(* its way reads as disarmed; the session is blind to that itself.         *)
Unseeing(s) ==
  {p \in Processes \ {s} : at[p] \in {"see", "arm"}}
    \cup {p \in {s} : pr \in {"queued", "merged"}}

(* The disarm is read back as autoMergeRequest alone; still there, Ends.   *)
DisarmVerdict(s) ==
  /\ at[s] = "read back"
  /\ ~AutoMergeRequested
  /\ blind' = [blind EXCEPT ![s] = Unseeing(s)]
  /\ Goto(s, IF wasArmed[s] THEN "mark" ELSE "done")
  /\ UNCHANGED <<pr, holders, rearm, displaces, wasArmed, told, wanted>>

(* The label is written and read back.                                     *)
MarkForRearm(s) ==
  /\ at[s] = "mark"
  /\ rearm' = TRUE
  /\ Goto(s, "done")
  /\ UNCHANGED <<pr, holders, displaces, wasArmed, told, blind, wanted>>

NowHeld(s) ==
  /\ at[s] = "done"
  /\ told' = [told EXCEPT ![s] = "held"]
  /\ Goto(s, "idle")
  /\ wasArmed' = [wasArmed EXCEPT ![s] = FALSE]
  /\ UNCHANGED <<pr, holders, rearm, displaces, blind, wanted>>

-----------------------------------------------------------------------------
(* Releasing one.                                                          *)

ReleaseHold(s) ==
  /\ at[s] = "idle"
  /\ s \in holders
  /\ Goto(s, "take off")
  /\ told' = [told EXCEPT ![s] = "nothing"]
  /\ UNCHANGED <<pr, holders, rearm, displaces, wasArmed, blind, wanted>>

(* From here s arms without asking whether anybody else holds the PR.      *)
TakeOffLabel(s) ==
  /\ at[s] = "take off"
  /\ holders' = holders \ {s}
  /\ blind' = [t \in Sessions |-> IF t = s THEN blind[t] ELSE blind[t] \cup {s}]
  /\ Goto(s, "see")
  /\ UNCHANGED <<pr, rearm, displaces, wasArmed, told, wanted>>

SeeRearm_Slip(s) ==
  /\ at[s] = "see"
  /\ Goto(s, "arm")
  /\ UNCHANGED <<pr, holders, rearm, displaces, wasArmed, told, blind, wanted>>

SeeRearm(s) ==
  /\ at[s] = "see"
  /\ Goto(s, IF rearm THEN "arm" ELSE "idle")
  /\ UNCHANGED <<pr, holders, rearm, displaces, wasArmed, told, blind, wanted>>

RearmAfterRelease(s) ==
  /\ at[s] = "arm"
  /\ pr' \in Armed
  /\ Goto(s, "verdict")
  /\ UNCHANGED <<holders, rearm, displaces, wasArmed, told, blind, wanted>>

(* armVerdict: a merged PR counts as armed; an unarmed one Ends.           *)
ArmVerdict(s) ==
  /\ at[s] = "verdict"
  /\ AutoMergeRequested \/ pr = "merged"
  /\ Goto(s, "unmark")
  /\ UNCHANGED <<pr, holders, rearm, displaces, wasArmed, told, blind, wanted>>

UnmarkRearm(s) ==
  /\ at[s] = "unmark"
  /\ rearm' = FALSE
  /\ Goto(s, "idle")
  /\ UNCHANGED <<pr, holders, displaces, wasArmed, told, blind, wanted>>

(* A command of s ends short of its success, and says so if it can.        *)
Ends(s) ==
  /\ at[s] # "idle"
  /\ Goto(s, "idle")
  /\ displaces' = [displaces EXCEPT ![s] = {}]
  /\ wasArmed' = [wasArmed EXCEPT ![s] = FALSE]
  /\ UNCHANGED <<pr, holders, rearm, told, blind, wanted>>

-----------------------------------------------------------------------------
(* The armers.                                                             *)

(* The sweep lists the PRs that are not armed; a queued one is listed too. *)
ListCandidates ==
  /\ at[Sweep] = "idle"
  /\ pr # "merged" /\ ~AutoMergeRequested
  /\ Goto(Sweep, "listed")
  /\ UNCHANGED <<pr, holders, rearm, displaces, wasArmed, told, blind, wanted>>

ReadLabels_Slip(a) ==
  /\ \/ a = Sweep /\ at[a] = "listed" /\ holders = {}
     \/ a = ArmJob /\ at[a] = "idle" /\ pr # "merged"
  /\ Goto(a, "arm")
  /\ UNCHANGED <<pr, holders, rearm, displaces, wasArmed, told, blind, wanted>>

(* armabilityOf, for both: not while anybody holds it.  The per-PR job     *)
(* reads the state with the labels.                                        *)
ReadLabels(a) ==
  /\ \/ a = Sweep /\ at[a] = "listed"
     \/ a = ArmJob /\ at[a] = "idle" /\ pr # "merged"
  /\ holders = {}
  /\ Goto(a, "arm")
  /\ UNCHANGED <<pr, holders, rearm, displaces, wasArmed, told, blind, wanted>>

(* It is held, or blocked, or could not be asked about; or the run ends.   *)
Passes(a) ==
  /\ at[a] \in {"listed", "arm"}
  /\ Goto(a, "idle")
  /\ UNCHANGED <<pr, holders, rearm, displaces, wasArmed, told, blind, wanted>>

ArmMerge(a) ==
  /\ at[a] = "arm"
  /\ pr' \in Armed
  /\ wanted' = (wanted \/ (pr = "open" /\ pr' = "armed"))
  /\ Goto(a, "idle")
  /\ UNCHANGED <<holders, rearm, displaces, wasArmed, told, blind>>

(* GitHub: the checks are green; the queue's turn comes.                   *)
EnterQueue ==
  /\ pr = "armed"
  /\ pr' = "queued"
  /\ UNCHANGED <<holders, rearm, at, displaces, wasArmed, told, blind, wanted>>

Merge ==
  /\ pr = "queued"
  /\ pr' = "merged"
  /\ UNCHANGED <<holders, rearm, at, displaces, wasArmed, told, blind, wanted>>

Take(s) ==
  \/ TakeHold(s) \/ Displace(s) \/ AddLabel(s) \/ HoldLanded(s) \/ ReadWasArmed(s)
  \/ Disarm(s) \/ DisarmVerdict(s) \/ MarkForRearm(s) \/ NowHeld(s)

Release(s) ==
  \/ ReleaseHold(s) \/ TakeOffLabel(s) \/ SeeRearm(s) \/ RearmAfterRelease(s)
  \/ ArmVerdict(s) \/ UnmarkRearm(s)

Next ==
  \/ \E s \in Sessions : Take(s) \/ Release(s) \/ Ends(s)
  \/ ListCandidates
  \/ \E a \in Armers : ReadLabels(a) \/ Passes(a) \/ ArmMerge(a)
  \/ EnterQueue \/ Merge

Spec == Init /\ [][Next]_vars

-----------------------------------------------------------------------------
Holds(s) == told[s] = "held" /\ s \in holders

(* Two sessions that were told they hold the PR, and whose labels it still *)
(* carries, are one: however takes, steals and releases interleave.        *)
OneHolder == \A s, t \in Sessions : Holds(s) /\ Holds(t) => s = t

(* A hold means cannot merge (#645), as far as it goes: the PR of a        *)
(* session that was told so is not armed, queued or merged, unless the     *)
(* disarm was read back over a PR already queued, or somebody who had      *)
(* looked before the label, or who looks for no label, arms it after.      *)
HoldStopsMerge == \A s \in Sessions : Holds(s) /\ blind[s] = {} => pr = "open"

(* A release arms nothing that nobody armed: what it puts back, an armer   *)
(* had put there, however many takes and releases ago.                     *)
OnlyArmedIsRearmed == pr # "open" => wanted
=============================================================================
