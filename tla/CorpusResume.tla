---------------------------- MODULE CorpusResume ----------------------------
(***************************************************************************)
(* What a corpus run leaves on disk, and what the next one makes of it:    *)
(* lab/src/training/capture-screenreader-dataset.mjs (main, the handling   *)
(* of a case, captureCase), capture-resume.mjs, the decision of            *)
(* capture-cache.mjs, and the progress file of capture-progress.mjs.       *)
(*                                                                         *)
(* A case is a good and a bad page, read one after the other by one worker *)
(* and written to a file each as they come.  A run may be killed at any    *)
(* step, also while it writes: a progress file is renamed into place, a    *)
(* capture is not.  The next run, of all cases or of some, skips what a    *)
(* cache key or the progress file and the page's hash say is there.        *)
(*                                                                         *)
(* A case is keyed by its page's hash and by what the worker that takes it *)
(* said at the start of the run that it reads with (screen reader,         *)
(* browser, protocol, settings): workers differ, change from run to run    *)
(* and back again, and one that gives no answer is keyed by {}, a value    *)
(* like the others.  A page changes between runs, and back again.          *)
(* Captures from before hashes were recorded, and files deleted by hand,   *)
(* are left out; how a worker is evicted and what it hands back is in      *)
(* WorkerPool, here a failed case may be handed back or not.               *)
(* (X_Slip: a fault seeded in X, see ResultStore.)                         *)
(***************************************************************************)
EXTENDS Naturals

CONSTANTS
  Cases, Workers, Pages, Environments, None,
  Unknown,         \* the environment of a worker whose /health did not answer: {}
  Absent, Torn,    \* no file; a file that is not the JSON of a capture
  MaxTakes         \* bound on the readings of all cases, over all runs

ASSUME BoundsAssumption == MaxTakes \in Nat
ASSUME NoneAssumption == None \notin Cases \cup Environments

Variants == {"good", "bad"}
Keys == [page : Pages, env : Environments]
Captures == [page : Pages, env : Environments, take : 1 .. MaxTakes]

ASSUME FilesAssumption == Absent \notin Captures /\ Torn \notin Captures

VARIABLES
  page,      \* each case's page, as its hash
  known,     \* what each worker said it reads with, at its start in this run
  files,     \* the captures on disk; `take' tells which reading of the case wrote them
  progress,  \* the progress file's status of a case
  run,       \* the run: whether it is one, its cache flag, cases and what it resumes over
  queue,     \* the cases nobody has taken
  hand,      \* what each worker reads
  failures,  \* the cases that failed and were not handed back
  takes,     \* the readings so far
  begun,     \* of each case: the keys it was begun to be read by, since it was read to the end
  forced     \* the cases a run without the cache began to read, and none read to the end since

vars == <<page, known, files, progress, run, queue, hand, failures, takes, begun, forced>>
readings == <<takes, begun, forced>>

Idle == [case |-> None, variant |-> "good", take |-> 0]
Hands == [case : Cases \cup {None}, variant : Variants, take : 0 .. MaxTakes]
NoRun == [outcome |-> "none", cache |-> FALSE, cases |-> {}, done |-> {}]
Runs ==
  [outcome : {"none", "running", "killed", "complete", "incomplete"},
   cache : BOOLEAN, cases : SUBSET Cases, done : SUBSET Cases]

(* refused: failed, for a reason that quotes a worker's HTTP 429.          *)
Statuses == {"none", "pending", "capturing", "captured", "skipped", "failed", "refused"}

TypeOK ==
  /\ page \in [Cases -> Pages]
  /\ known \in [Workers -> Environments \cup {None}]
  /\ files \in [Cases -> [Variants -> Captures \cup {Absent, Torn}]]
  /\ progress \in [Cases -> Statuses]
  /\ run \in Runs
  /\ queue \subseteq run.cases
  /\ hand \in [Workers -> Hands]
  /\ \A w \in Workers : hand[w].case # None =>
       /\ run.outcome = "running"
       /\ hand[w].case \in run.cases \ queue
       /\ hand[w].take > 0
       /\ known[w] # None
  /\ \A w, x \in Workers : hand[w].case = hand[x].case /\ w # x => hand[w].case = None
  /\ failures \subseteq Cases
  /\ takes \in 0 .. MaxTakes
  /\ begun \in [Cases -> SUBSET Keys]
  /\ forced \subseteq Cases

Init ==
  /\ page \in [Cases -> Pages]
  /\ known = [w \in Workers |-> None]
  /\ files = [c \in Cases |-> [v \in Variants |-> Absent]]
  /\ progress = [c \in Cases |-> "none"]
  /\ run = NoRun
  /\ queue = {}
  /\ hand = [w \in Workers |-> Idle]
  /\ failures = {}
  /\ takes = 0
  /\ begun = [c \in Cases |-> {}]
  /\ forced = {}

-----------------------------------------------------------------------------
Usable(file) == file \notin {Absent, Torn}

HasUsableCaptureFiles_Slip(c) ==
  \A v \in Variants : Usable(files[c][v])

HasUsableCaptureFiles(c) ==
  \A v \in Variants : Usable(files[c][v]) /\ files[c][v].page = page[c]

(* The key of both halves, or none is reused: whether the pair is of one   *)
(* reading is not asked.                                                   *)
CacheDecision(w, c) ==
  \A v \in Variants :
    /\ Usable(files[c][v])
    /\ files[c][v].page = page[c]
    /\ files[c][v].env = known[w]

PreviouslyCaptured(cases, resume, cache) ==
  IF ~resume \/ cache THEN {}
  ELSE {c \in cases : /\ progress[c] \in {"captured", "skipped", "refused"}
                      /\ HasUsableCaptureFiles(c)}

(* main: what a resume skips is read before beginRun replaces the file.    *)
Start(resume, cache, cases) ==
  /\ run.outcome # "running"
  /\ run' = [outcome |-> "running", cache |-> cache, cases |-> cases,
             done |-> PreviouslyCaptured(cases, resume, cache)]
  /\ progress' = [c \in Cases |-> IF c \in cases THEN "pending" ELSE "none"]
  /\ queue' = cases
  /\ UNCHANGED <<page, known, files, hand, failures, readings>>

(* prepare, once for every worker that is ready in time.                   *)
WorkerEnvironment(w, environment) ==
  /\ run.outcome = "running"
  /\ known[w] = None
  /\ known' = [known EXCEPT ![w] = environment]
  /\ UNCHANGED <<page, files, progress, run, queue, hand, failures, readings>>

Takes(w, c) ==
  /\ run.outcome = "running"
  /\ known[w] # None
  /\ hand[w].case = None
  /\ c \in queue
  /\ queue' = queue \ {c}

Skipped(w, c) == c \in run.done \/ (run.cache /\ CacheDecision(w, c))

Skip(w, c) ==
  /\ Takes(w, c)
  /\ Skipped(w, c)
  /\ progress' = [progress EXCEPT ![c] = "skipped"]
  /\ UNCHANGED <<page, known, files, run, hand, failures, readings>>

(* provenanceFor.                                                          *)
Key(w, c) == [page |-> page[c], env |-> known[w]]

Reads(w, c, variant) ==
  /\ takes < MaxTakes
  /\ takes' = takes + 1
  /\ hand' = [hand EXCEPT ![w] = [case |-> c, variant |-> variant, take |-> takes + 1]]
  /\ begun' = [begun EXCEPT ![c] = @ \cup {Key(w, c)}]
  /\ forced' = IF run.cache THEN forced ELSE forced \cup {c}

CaptureCase_Slip(w, c) ==
  /\ Takes(w, c)
  /\ ~Skipped(w, c)
  /\ Reads(w, c, IF Usable(files[c]["good"]) /\ files[c]["good"].page = page[c]
                    /\ files[c]["good"].env = known[w] THEN "bad" ELSE "good")
  /\ progress' = [progress EXCEPT ![c] = "capturing"]
  /\ UNCHANGED <<page, known, files, run, failures>>

(* captureCase: always the pair.                                           *)
CaptureCase(w, c) ==
  /\ Takes(w, c)
  /\ ~Skipped(w, c)
  /\ Reads(w, c, "good")
  /\ progress' = [progress EXCEPT ![c] = "capturing"]
  /\ UNCHANGED <<page, known, files, run, failures>>

(* writeCapture, of a capture captureVerified took for evidence.           *)
WriteCapture(w, file) ==
  files' = [files EXCEPT ![hand[w].case][hand[w].variant] = file]

Capture(w) == [page |-> page[hand[w].case], env |-> known[w], take |-> hand[w].take]

GoodCaptured(w) ==
  /\ hand[w].case # None
  /\ hand[w].variant = "good"
  /\ WriteCapture(w, Capture(w))
  /\ hand' = [hand EXCEPT ![w].variant = "bad"]
  /\ UNCHANGED <<page, known, progress, run, queue, failures, readings>>

BadCaptured(w) ==
  /\ hand[w].case # None
  /\ hand[w].variant = "bad"
  /\ WriteCapture(w, Capture(w))
  /\ progress' = [progress EXCEPT ![hand[w].case] = "captured"]
  /\ hand' = [hand EXCEPT ![w] = Idle]
  /\ begun' = [begun EXCEPT ![hand[w].case] = {}]
  /\ forced' = forced \ {hand[w].case}
  /\ UNCHANGED <<page, known, run, queue, failures, takes>>

(* onItemFailed; the pool may hand the case back.                          *)
Fails(w, status) ==
  /\ hand[w].case # None
  /\ progress' = [progress EXCEPT ![hand[w].case] = status]
  /\ \/ queue' = queue \cup {hand[w].case} /\ UNCHANGED failures
     \/ failures' = failures \cup {hand[w].case} /\ UNCHANGED queue
  /\ hand' = [hand EXCEPT ![w] = Idle]
  /\ UNCHANGED <<page, known, files, run, readings>>

(* What a run knew and held goes with it.                                  *)
Ends(outcome) ==
  /\ run.outcome = "running"
  /\ run' = [NoRun EXCEPT !.outcome = outcome]
  /\ known' = [w \in Workers |-> None]
  /\ hand' = [w \in Workers |-> Idle]
  /\ queue' = {}
  /\ failures' = {}
  /\ UNCHANGED <<page, progress, readings>>

(* runOutcome and progress.finish, when every worker has left.  The queue  *)
(* may not be empty: all were unusable, or one was evicted after the rest  *)
(* had drained it (WorkerPool).  Such a case is no failure, and "captured" *)
(* is what neither failed nor was skipped.                                 *)
Finish ==
  /\ \A w \in Workers : hand[w].case = None
  /\ Ends(IF failures = {} THEN "complete" ELSE "incomplete")
  /\ UNCHANGED files

-----------------------------------------------------------------------------
(* The run is killed: between two steps, or in a write of a capture.       *)
Killed == Ends("killed") /\ UNCHANGED files

KilledWriting(w) ==
  /\ hand[w].case # None
  /\ WriteCapture(w, Torn)
  /\ Ends("killed")

PageChanges(c, hash) ==
  /\ run.outcome # "running"
  /\ page' = [page EXCEPT ![c] = hash]
  /\ UNCHANGED <<known, files, progress, run, queue, hand, failures, readings>>

Next ==
  \/ \E resume, cache \in BOOLEAN, cases \in SUBSET Cases \ {{}} : Start(resume, cache, cases)
  \/ \E w \in Workers, environment \in Environments : WorkerEnvironment(w, environment)
  \/ \E w \in Workers, c \in Cases : Skip(w, c) \/ CaptureCase(w, c)
  \/ \E w \in Workers :
       \/ GoodCaptured(w) \/ BadCaptured(w) \/ KilledWriting(w)
       \/ \E status \in {"failed", "refused"} : Fails(w, status)
  \/ Finish \/ Killed
  \/ \E c \in Cases, hash \in Pages : PageChanges(c, hash)

Spec == Init /\ [][Next]_vars

-----------------------------------------------------------------------------
(* What is on disk of a case, against what it should be.                   *)
OfThePage(c) ==
  \A v \in Variants : files[c][v] \in Captures /\ files[c][v].page = page[c]

OfTheKey(c, environment) ==
  OfThePage(c) /\ \A v \in Variants : files[c][v].env = environment

OfOneReading(c) == files[c]["good"].take = files[c]["bad"].take

(* A run that reports itself complete, whatever it skipped, reused, took   *)
(* again or was handed back, has for each of its cases a usable pair of    *)
(* captures of the page as it is; with the cache, of one environment,      *)
(* which is that of one of the run's workers.  A case its workers left in  *)
(* the queue is the exception.                                             *)
CompleteMeansCurrent ==
  [][run.outcome = "running" /\ run'.outcome = "complete" =>
       \A c \in run.cases \ queue :
         /\ OfThePage(c)
         /\ run.cache => \E w \in Workers : known[w] # None /\ OfTheKey(c, known[w])]_vars

(* A pair is only comparable if one worker took both halves, one after the *)
(* other: a pair the cache would reuse, for a worker of any environment,   *)
(* is of one reading, however many runs were killed and readings failed in *)
(* between, as long as they were all begun by one key, with the cache,     *)
(* since the case was last read to the end: a reading that was broken off  *)
(* is never completed by another, and what it left is not taken for whole. *)
PairIsOneCapture ==
  \A c \in Cases \ forced, environment \in Environments :
    (\A k, l \in begun[c] : k = l) /\ OfTheKey(c, environment) => OfOneReading(c)

-----------------------------------------------------------------------------
(* What the comments say, and the code does not do.                        *)

(* The cache's own claim, "all-or-nothing across both variants": with the  *)
(* cache on, every pair it would reuse is of one reading.  It is not, once *)
(* a reading by a second key was broken off after its good half and one by *)
(* the first key after it (capture-cache.mjs:219-222).                     *)
ReusedIsOneReading ==
  \A c \in Cases \ forced, environment \in Environments :
    OfTheKey(c, environment) => OfOneReading(c)

(* A worker that did not say what it reads with reuses nothing: keyed on   *)
(* {}, "its captures will not match cached ones, which is the safe         *)
(* direction".  They match those of another that did not say               *)
(* (capture-screenreader-dataset.mjs:535-536).                             *)
UnansweredReusesNothing ==
  [][\A w \in Workers, c \in Cases :
       run.cache /\ known[w] = Unknown => ~Skip(w, c)]_vars
=============================================================================
