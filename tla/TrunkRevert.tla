----------------------------- MODULE TrunkRevert -----------------------------
(***************************************************************************)
(* What follows a push to main: trunk.yml's run of two jobs on the new     *)
(* commit, trunkGate (was work silently deleted, trunk-revert-guard.mjs)   *)
(* and trunkBuildTest (lint, types, the whole suite, Python), and, when    *)
(* one of them fails, the decision to propose a revert (trunk-revert.mjs): *)
(* is the failure this push's own, inherited from the commit before, or    *)
(* the world's?                                                            *)
(*                                                                         *)
(* Several runs, of one commit or of several, go on at once, each call to  *)
(* git or GitHub a step.  The world is the set of tests that fail on any   *)
(* tree for now: a wall clock, an outage, a dependency.  Humans close      *)
(* reverts and delete branches; merging one is a push like any other.      *)
(***************************************************************************)
EXTENDS Naturals, FiniteSets

CONSTANTS Runs, None,
          Tests,                \* what trunkBuildTest runs
          Suite,                \* those that `npm run test:all` runs
          Rechecked,            \* those that `npm test` runs at the parent
          MaxCommit, MaxFlakes  \* bounds: pushes, and tests the world fails

ASSUME BoundsAssumption == MaxCommit \in Nat /\ MaxFlakes \in Nat

(* The parent is re-checked with the product's packages of the suite; lint *)
(* and types are not in `npm test`, and its Python tests are skipped in    *)
(* the job, that has no .venv.                                             *)
ASSUME RecheckedAssumption == Rechecked \subseteq Suite /\ Suite \subseteq Tests

Commits == 0..MaxCommit

VARIABLES
    tip,       \* the newest commit of main
    defects,   \* commit -> the tests its tree fails
    deletes,   \* the commits that lost work main had
    world,     \* the tests that fail whatever the tree
    recovered, \* those that once did and passed again
    record,    \* commit -> job -> newest completed conclusion, or None
    run,       \* run -> what it has found so far
    branches,  \* the commits with a revert branch on the remote
    cut,       \* the commits whose revert branch a human deleted
    reverts,   \* the commits with an open revert PR
    opened,    \* commit -> how many revert PRs it ever had
    reported,  \* the commits whose branch was reported to have no PR
    untold     \* those a run pushed the branch of, and died

trunkVars == <<tip, defects, deletes, world, recovered, record, run,
               branches, cut, reverts, opened, reported, untold>>

Unused == [step |-> "unused", sha |-> 0, failing |-> {}, gateBroke |-> FALSE,
           buildBroke |-> FALSE, parents |-> {}, opened |-> FALSE]

(* The steps of a run, each set one of what is left from there.            *)
Decided == {"tip", "search", "push", "create"}
Weighing == {"before"} \union Decided
Judging == {"recheck"} \union Weighing
Started == {"gate", "build"} \union Judging

RunRecords ==
    [step : {"unused", "over"} \union Started, sha : Commits,
     failing : SUBSET Tests, gateBroke : BOOLEAN, buildBroke : BOOLEAN,
     parents : SUBSET Tests, opened : BOOLEAN]

TrunkTypeOK ==
    /\ tip \in Commits
    /\ defects \in [Commits -> SUBSET Tests]
    /\ deletes \subseteq Commits
    /\ world \subseteq Tests /\ recovered \subseteq Tests
    /\ record \in [Commits -> [gate : {None, "success", "failure"},
                              build : {None, "success", "failure", "skipped"}]]
    /\ run \in [Runs -> RunRecords]
    /\ branches \subseteq Commits /\ cut \subseteq Commits
    /\ reverts \subseteq Commits
    /\ reported \subseteq Commits /\ untold \subseteq Commits
    /\ opened \in [Commits -> Nat]

TrunkInit ==
    /\ tip = 0
    /\ defects = [c \in Commits |-> {}]
    /\ deletes = {}
    /\ world = {} /\ recovered = {}
    /\ record = [c \in Commits |->
         IF c = 0 THEN [gate |-> "success", build |-> "success"]
         ELSE [gate |-> None, build |-> None]]
    /\ run = [r \in Runs |-> Unused]
    /\ branches = {} /\ cut = {} /\ reverts = {}
    /\ reported = {} /\ untold = {}
    /\ opened = [c \in Commits |-> 0]

-----------------------------------------------------------------------------
(* Around the runs: merges, the world, re-runs and humans.                 *)
Begin(r, c) ==
    /\ run[r].step = "unused"
    /\ run' = [run EXCEPT ![r].step = "gate", ![r].sha = c]

(* A merge, of any effect, and the run its push starts.                    *)
Land(r) ==
    /\ tip < MaxCommit
    /\ tip' = tip + 1
    /\ \E d \in SUBSET Tests : defects' = [defects EXCEPT ![tip + 1] = d]
    /\ \E lost \in BOOLEAN :
         deletes' = IF lost THEN deletes \union {tip + 1} ELSE deletes
    /\ Begin(r, tip + 1)
    /\ UNCHANGED <<world, recovered, record, branches, cut, reverts,
                   opened, reported, untold>>

(* trunk.yml dispatched on main's tip, or the run of a commit made again.  *)
Dispatch(r) ==
    /\ \E c \in 1..tip : Begin(r, c)
    /\ UNCHANGED <<tip, defects, deletes, world, recovered, record, branches,
                   cut, reverts, opened, reported, untold>>

WorldMoves ==
    /\ \E t \in Tests :
         \/ /\ t \notin world \union recovered
            /\ Cardinality(world \union recovered) < MaxFlakes
            /\ world' = world \union {t}
            /\ UNCHANGED recovered
         \/ /\ t \in world
            /\ world' = world \ {t}
            /\ recovered' = recovered \union {t}
    /\ UNCHANGED <<tip, defects, deletes, record, run, branches, cut, reverts,
                   opened, reported, untold>>

(* A human rejects the revert of c, or deletes its branch, which closes    *)
(* the PR as well.                                                         *)
Close(c) ==
    /\ \/ /\ c \in reverts
          /\ UNCHANGED <<branches, cut>>
       \/ /\ c \in branches
          /\ branches' = branches \ {c}
          /\ cut' = cut \union {c}
    /\ reverts' = reverts \ {c}
    /\ UNCHANGED <<tip, defects, deletes, world, recovered, record, run,
                   opened, reported, untold>>

-----------------------------------------------------------------------------
(* The jobs.  As each of a run's jobs completes, its conclusion is the     *)
(* newest of the commit.                                                   *)
Goes(r, step) == run' = [run EXCEPT ![r].step = step]

End(r) == run' = [run EXCEPT ![r] = [Unused EXCEPT !.step = "over"]]

Elsewhere == UNCHANGED <<tip, defects, deletes, world, recovered>>

Undecided == UNCHANGED <<record, branches, cut, reverts, opened, reported, untold>>

(* The guard refuses a merge that lost work, and fails as well when git    *)
(* cannot be asked; either way trunkBuildTest is skipped.                  *)
TrunkGate(r) ==
    LET c == run[r].sha IN
    /\ run[r].step = "gate"
    /\ \E broke \in BOOLEAN :
         IF broke \/ c \in deletes
         THEN /\ run' = [run EXCEPT ![r].step = "recheck",
                                    ![r].gateBroke = broke]
              /\ record' = [record EXCEPT ![c] =
                              [gate |-> "failure", build |-> "skipped"]]
         ELSE /\ Goes(r, "build")
              /\ record' = [record EXCEPT ![c].gate = "success"]
    /\ Elsewhere /\ UNCHANGED <<branches, cut, reverts, opened, reported, untold>>

(* The job fails on what the tree or the world fails, or does not run.  It *)
(* stops at the first of its steps that fails: lint or types before the    *)
(* suite, Python after it.                                                 *)
TrunkBuildTest(r) ==
    LET c == run[r].sha
        F == defects[c] \union world IN
    /\ run[r].step = "build"
    /\ \/ /\ F = {}
          /\ End(r)
          /\ record' = [record EXCEPT ![c].build = "success"]
       \/ /\ \E G \in {F \intersect Suite, F \ Suite} \ {{}} :
               run' = [run EXCEPT ![r].step = "recheck", ![r].failing = G]
          /\ record' = [record EXCEPT ![c].build = "failure"]
       \/ /\ run' = [run EXCEPT ![r].step = "recheck", ![r].buildBroke = TRUE]
          /\ record' = [record EXCEPT ![c].build = "failure"]
    /\ Elsewhere /\ UNCHANGED <<branches, cut, reverts, opened, reported, untold>>

Recheck_Slip(r) ==
    /\ run[r].step = "recheck"
    /\ Goes(r, "before")
    /\ Elsewhere /\ Undecided

(* `npm test` at the parent, now; `pass` unasked when only trunkGate       *)
(* failed, unknown when it cannot be run or what it fails not be named.    *)
Recheck(r) ==
    LET W == (defects[run[r].sha - 1] \union world) \intersect Rechecked
        suiteFailed == run[r].failing # {} \/ run[r].buildBroke IN
    /\ run[r].step = "recheck"
    /\ \/ /\ ~suiteFailed \/ W = {}
          /\ Goes(r, "before")
       \/ /\ suiteFailed /\ W # {}
          /\ run' = [run EXCEPT ![r].step = "before", ![r].parents = W]
       \/ /\ suiteFailed
          /\ End(r)
    /\ Elsewhere /\ Undecided

-----------------------------------------------------------------------------
(* The decision, trunk-revert.mjs.  A lookup that fails ends it.           *)

(* parentReCheckFailureVerdict: the parent's failure now is of other       *)
(* tests; both sides' names must be known, and only the suite names them.  *)
Disjoint(r) ==
    /\ run[r].failing # {}
    /\ run[r].failing \subseteq Suite
    /\ run[r].failing \intersect run[r].parents = {}

(* The commit before was green on every job, and passes or fails otherwise *)
(* now.                                                                    *)
BeforeWasGreen(r) ==
    /\ record[run[r].sha - 1] = [gate |-> "success", build |-> "success"]
    /\ run[r].parents = {} \/ Disjoint(r)

LookAtBefore(r) ==
    /\ run[r].step = "before"
    /\ \/ BeforeWasGreen(r) /\ Goes(r, "tip")
       \/ End(r)
    /\ Elsewhere /\ Undecided

LookAtTip(r) ==
    /\ run[r].step = "tip"
    /\ \/ tip = run[r].sha /\ Goes(r, "search")
       \/ End(r)
    /\ Elsewhere /\ Undecided

(* lookupExistingRevertPr, open or closed: a search that fails finds none. *)
Search(r) ==
    /\ run[r].step = "search"
    /\ \/ opened[run[r].sha] > 0 /\ End(r)
       \/ Goes(r, "push")
    /\ Elsewhere /\ Undecided

Push_Slip(r) ==
    /\ run[r].step = "push"
    /\ Goes(r, "create")
    /\ branches' = branches \union {run[r].sha}
    /\ Elsewhere /\ UNCHANGED <<record, cut, reverts, opened, reported, untold>>

(* git push, without force: onto a branch that exists it is refused, and   *)
(* the run throws.                                                         *)
Push(r) ==
    /\ run[r].step = "push"
    /\ \/ /\ run[r].sha \notin branches
          /\ Goes(r, "create")
          /\ branches' = branches \union {run[r].sha}
       \/ /\ End(r)
          /\ UNCHANGED branches
    /\ Elsewhere /\ UNCHANGED <<record, cut, reverts, opened, reported, untold>>

Opens(r, c) ==
    /\ c \in branches \ reverts
    /\ run' = [run EXCEPT ![r].step = "over", ![r].opened = TRUE,
                       ![r].parents = {}]
    /\ reverts' = reverts \union {c}
    /\ opened' = [opened EXCEPT ![c] = @ + 1]

Create_Slip(r) ==
    LET c == run[r].sha IN
    /\ run[r].step = "create"
    /\ \/ Opens(r, c)
       \/ End(r) /\ UNCHANGED <<reverts, opened>>
    /\ Elsewhere /\ UNCHANGED <<record, branches, cut, reported, untold>>

(* gh pr create, as a draft, of a branch that has no open PR; one that     *)
(* could not be opened, or whose answer is lost, is reported, with the     *)
(* branch's name.                                                          *)
Create(r) ==
    LET c == run[r].sha IN
    /\ run[r].step = "create"
    /\ \/ Opens(r, c) /\ UNCHANGED reported
       \/ /\ Opens(r, c) \/ (End(r) /\ UNCHANGED <<reverts, opened>>)
          /\ reported' = reported \union {c}
    /\ Elsewhere /\ UNCHANGED <<record, branches, cut, untold>>

(* The branch is pushed and the answer lost, which the run throws of, or   *)
(* its runner is: nobody is told.                                          *)
Dies(r) ==
    /\ run[r].step = "create"
    /\ End(r)
    /\ untold' = untold \union {run[r].sha}
    /\ Elsewhere /\ UNCHANGED <<record, branches, cut, reverts, opened, reported>>

TrunkNext ==
    \/ WorldMoves
    \/ \E c \in Commits : Close(c)
    \/ \E r \in Runs :
         \/ Land(r) \/ Dispatch(r)
         \/ TrunkGate(r) \/ TrunkBuildTest(r) \/ Recheck(r)
         \/ LookAtBefore(r) \/ LookAtTip(r) \/ Search(r)
         \/ Push(r) \/ Create(r) \/ Dies(r)

TrunkSpec == TrunkInit /\ [][TrunkNext]_trunkVars

-----------------------------------------------------------------------------
(* What a push did itself: it lost work, or its tree fails a test that the *)
(* tree before it passes.                                                  *)
Own(c) == c \in deletes \/ ~(defects[c] \subseteq defects[c - 1])

(* A revert is proposed of a push that broke something itself, of one that *)
(* failed on nothing but the world, where what it failed of either passed  *)
(* again before the parent was tried or is not tried there, or of one      *)
(* whose jobs did not run at all.                                          *)
OnlyTheGuilty ==
    \A r \in Runs : run[r].opened =>
        \/ Own(run[r].sha)
        \/ /\ run[r].failing # {}
           /\ run[r].failing \intersect Rechecked \subseteq recovered
        \/ run[r].gateBroke \/ run[r].buildBroke

(* What trunk-revert.mjs says when it proposes a revert: that the commit   *)
(* before still passes, now, what this push failed.  So what fails on any  *)
(* tree, and still does, is never held against a push.                     *)
StillPassesBefore ==
    \A r \in Runs : (run[r].opened /\ run[r].failing # {}) =>
        \/ Own(run[r].sha)
        \/ run[r].failing \subseteq recovered

(* However many runs decide on a push, and whatever their searches find, a *)
(* revert that a human closed is not proposed again until its branch is    *)
(* deleted too: the branch is the lock.                                    *)
OneRevertPerBranch == \A c \in Commits : opened[c] > 1 => c \in cut

(* A revert branch without a PR is one that a run is about to open, that   *)
(* was reported, whose PR a human closed, or that a run left in dying.     *)
StrandedIsTold ==
    \A c \in branches :
        \/ c \in reverts \union reported \union untold
        \/ opened[c] > 0
        \/ \E r \in Runs : run[r].sha = c /\ run[r].step = "create"

(* What trunk.yml says of a failure of trunkGate alone: that it cannot be  *)
(* caused by the world, so a revert for it is of a merge that lost work.   *)
GateFailureIsOwn ==
    \A r \in Runs :
        (run[r].opened /\ run[r].failing = {} /\ ~run[r].buildBroke)
            => run[r].sha \in deletes
=============================================================================
