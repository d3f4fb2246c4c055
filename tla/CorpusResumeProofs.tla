------------------------- MODULE CorpusResumeProofs -------------------------
(***************************************************************************)
(* What a corpus run may rely on after any number of killed ones.          *)
(*                                                                         *)
(* While it runs, a case is still queued, in a worker's hands, failed, or  *)
(* current (Accounted): the pages stand still, and files change only in    *)
(* the hands of a worker.  And as long as a case is begun, with the cache, *)
(* by one key only since it was last read to the end, its bad half is not  *)
(* of that key, and its good half is, or is the one it was read with       *)
(* (Paired): the key would have found the pair otherwise.                  *)
(***************************************************************************)
EXTENDS CorpusResume, TLAPS

Running == run.outcome = "running"

CurrentByKey(c) == \E w \in Workers : known[w] # None /\ CacheDecision(w, c)

Current(c) == HasUsableCaptureFiles(c) /\ (run.cache => CurrentByKey(c))

InHand(c) == \E w \in Workers : hand[w].case = c

Accounted ==
  Running => \A c \in run.cases : c \in queue \/ c \in failures \/ InHand(c) \/ Current(c)

(* Nothing that is resumed over is touched.                                *)
DoneStands ==
  Running =>
    /\ run.done # {} => ~run.cache
    /\ \A c \in run.done : HasUsableCaptureFiles(c) /\ ~InHand(c)

(* The good half in a worker's hands is on disk before the bad one.        *)
GoodFirst ==
  \A w \in Workers :
    hand[w].case # None /\ hand[w].variant = "bad" =>
      files[hand[w].case]["good"] = Capture(w)

KeyBegun ==
  \A w \in Workers :
    hand[w].case # None => Key(w, hand[w].case) \in begun[hand[w].case]

FileKey(file) == [page |-> file.page, env |-> file.env]

OneKey(c) == \A k, l \in begun[c] : k = l

(* A case as readings by one key leave it.                                 *)
LeftBy(k, c) ==
  /\ Usable(files[c]["bad"]) => FileKey(files[c]["bad"]) # k
  /\ Usable(files[c]["good"]) =>
       FileKey(files[c]["good"]) = k \/ files[c]["good"] = files[c]["bad"]

Paired ==
  \A c \in Cases \ forced :
    /\ begun[c] = {} => files[c]["good"] = files[c]["bad"]
    /\ OneKey(c) => \A k \in begun[c] : LeftBy(k, c)

ResumeInv ==
  TypeOK /\ Accounted /\ DoneStands /\ GoodFirst /\ KeyBegun /\ Paired

-----------------------------------------------------------------------------
LEMMA VariantFacts == Variants = {"good", "bad"}
BY DEF Variants

LEMMA HandFacts ==
  ASSUME TypeOK, NEW w \in Workers, hand[w].case # None
  PROVE  /\ hand[w].case \in Cases /\ hand[w].variant \in Variants
         /\ hand[w].take \in 1 .. MaxTakes
         /\ Running /\ hand[w].case \in run.cases \ queue
         /\ known[w] \in Environments
         /\ \A x \in Workers \ {w} : hand[x].case # hand[w].case
<1>1. hand[w] \in Hands
  BY DEF TypeOK
<1>2. hand[w].case \in Cases /\ hand[w].variant \in Variants /\ hand[w].take \in 0 .. MaxTakes
  BY <1>1 DEF Hands
<1>3. /\ hand[w].take > 0 /\ Running /\ hand[w].case \in run.cases \ queue
      /\ known[w] \in Environments
  BY DEF TypeOK, Running
<1>4. hand[w].take \in 1 .. MaxTakes
  BY <1>2, <1>3, BoundsAssumption
<1>5. \A x \in Workers \ {w} : hand[x].case # hand[w].case
  BY DEF TypeOK
<1>6. QED
  BY <1>2, <1>3, <1>4, <1>5

LEMMA CaptureTyped ==
  ASSUME TypeOK, NEW w \in Workers, hand[w].case # None
  PROVE  /\ Capture(w) \in Captures
         /\ Capture(w).page = page[hand[w].case] /\ Capture(w).env = known[w]
         /\ FileKey(Capture(w)) = Key(w, hand[w].case)
         /\ Usable(Capture(w))
<1>1. Capture(w) \in Captures
  BY HandFacts DEF TypeOK, Capture, Captures
<1>2. QED
  BY <1>1, FilesAssumption DEF Capture, Usable, FileKey, Key

(* A write changes one half of the case in hand.                           *)
LEMMA WriteFacts ==
  ASSUME TypeOK, NEW w \in Workers, hand[w].case # None,
         NEW file \in Captures \cup {Absent, Torn}, WriteCapture(w, file)
  PROVE  /\ files' \in [Cases -> [Variants -> Captures \cup {Absent, Torn}]]
         /\ files'[hand[w].case][hand[w].variant] = file
         /\ \A v \in Variants \ {hand[w].variant} :
              files'[hand[w].case][v] = files[hand[w].case][v]
         /\ \A c \in Cases \ {hand[w].case} : files'[c] = files[c]
<1> DEFINE c == hand[w].case
           v == hand[w].variant
<1>1. c \in Cases /\ v \in Variants
  BY HandFacts
<1>2. files \in [Cases -> [Variants -> Captures \cup {Absent, Torn}]]
  BY DEF TypeOK
<1>3. files' = [files EXCEPT ![c] = [files[c] EXCEPT ![v] = file]]
  BY <1>1, <1>2 DEF WriteCapture
<1>4. [files[c] EXCEPT ![v] = file] \in [Variants -> Captures \cup {Absent, Torn}]
  BY <1>1, <1>2
<1> HIDE DEF c, v
<1>5. /\ files' \in [Cases -> [Variants -> Captures \cup {Absent, Torn}]]
      /\ files'[c][v] = file
      /\ \A u \in Variants \ {v} : files'[c][u] = files[c][u]
      /\ \A d \in Cases \ {c} : files'[d] = files[d]
  BY <1>1, <1>2, <1>3, <1>4
<1>6. QED
  BY <1>5 DEF c, v

LEMMA RunTyped ==
  ASSUME TypeOK
  PROVE  /\ run.cases \subseteq Cases /\ run.done \subseteq Cases /\ run.cache \in BOOLEAN
         /\ run.outcome \in {"none", "running", "killed", "complete", "incomplete"}
BY DEF TypeOK, Runs

LEMMA IdleFacts == Idle \in Hands /\ Idle.case = None
BY BoundsAssumption DEF Idle, Hands, Variants

-----------------------------------------------------------------------------
(* Type correctness.                                                       *)
LEMMA InitTyped == Init => TypeOK
<1> SUFFICES ASSUME Init PROVE TypeOK
  OBVIOUS
<1>1. run \in Runs /\ run.outcome = "none" /\ queue \subseteq run.cases
  BY DEF Init, NoRun, Runs
<1>2. hand \in [Workers -> Hands] /\ \A w \in Workers : hand[w].case = None
  BY IdleFacts DEF Init
<1>3. /\ page \in [Cases -> Pages] /\ known \in [Workers -> Environments \cup {None}]
      /\ begun \in [Cases -> SUBSET Keys] /\ takes \in 0 .. MaxTakes
  BY BoundsAssumption DEF Init
<1>4. /\ files \in [Cases -> [Variants -> Captures \cup {Absent, Torn}]]
      /\ progress \in [Cases -> Statuses]
      /\ failures \subseteq Cases /\ forced \subseteq Cases
  BY DEF Init, Statuses
<1>5. QED
  BY <1>1, <1>2, <1>3, <1>4 DEF TypeOK

(* What a run that is not running may have in hand: nothing.               *)
LEMMA IdleHands ==
  ASSUME TypeOK, ~Running
  PROVE  \A w \in Workers : hand[w].case = None
BY DEF TypeOK, Running

LEMMA StartTyped ==
  ASSUME TypeOK, NEW resume \in BOOLEAN, NEW cache \in BOOLEAN,
         NEW cases \in SUBSET Cases, Start(resume, cache, cases)
  PROVE  TypeOK'
<1>1. \A w \in Workers : hand[w].case = None
  BY IdleHands DEF Start, Running
<1>2. PreviouslyCaptured(cases, resume, cache) \in SUBSET Cases
  BY DEF PreviouslyCaptured
<1>3. run' \in Runs /\ run'.cases = cases
  BY <1>2 DEF Start, Runs
<1>4. progress' \in [Cases -> Statuses]
  BY DEF Start, Statuses
<1>5. queue' \subseteq run'.cases
  BY <1>3 DEF Start
<1>6. UNCHANGED <<page, known, files, hand, failures, takes, begun, forced>>
  BY DEF Start, readings
<1>7. QED
  BY <1>1, <1>3, <1>4, <1>5, <1>6 DEF TypeOK

LEMMA EnvironmentTyped ==
  ASSUME TypeOK, NEW w \in Workers, NEW environment \in Environments,
         WorkerEnvironment(w, environment)
  PROVE  TypeOK'
<1>1. /\ known' \in [Workers -> Environments \cup {None}]
      /\ \A x \in Workers : known[x] # None => known'[x] # None
  BY NoneAssumption DEF WorkerEnvironment, TypeOK
<1>2. UNCHANGED <<page, files, progress, run, queue, hand, failures, takes, begun, forced>>
  BY DEF WorkerEnvironment, readings
<1>3. QED
  BY <1>1, <1>2 DEF TypeOK

LEMMA SkipTyped ==
  ASSUME TypeOK, NEW w \in Workers, NEW c \in Cases, Skip(w, c)
  PROVE  TypeOK'
<1>1. queue' = queue \ {c} /\ progress' \in [Cases -> Statuses]
  BY DEF TypeOK, Skip, Takes, Statuses
<1>2. UNCHANGED <<page, known, files, run, hand, failures, takes, begun, forced>>
  BY DEF Skip, readings
<1>3. QED
  BY <1>1, <1>2 DEF TypeOK

LEMMA CaptureCaseFacts ==
  ASSUME TypeOK, NEW w \in Workers, NEW c \in Cases, CaptureCase(w, c)
  PROVE  /\ Running /\ hand[w].case = None /\ c \in queue /\ ~Skipped(w, c)
         /\ known[w] \in Environments
         /\ queue' = queue \ {c}
         /\ hand' \in [Workers -> Hands]
         /\ hand'[w].case = c /\ hand'[w].variant = "good" /\ hand'[w].take > 0
         /\ \A x \in Workers \ {w} : hand'[x] = hand[x]
         /\ takes' \in 0 .. MaxTakes
<1>1. takes \in Nat /\ takes < MaxTakes /\ takes' = takes + 1
  BY BoundsAssumption DEF CaptureCase, Reads, TypeOK
<1>2. takes + 1 \in 0 .. MaxTakes /\ takes + 1 > 0
  BY <1>1, BoundsAssumption
<1> DEFINE h == [case |-> c, variant |-> "good", take |-> takes + 1]
<1>3. h \in Hands
  BY <1>2 DEF Hands, Variants
<1>4. hand' = [hand EXCEPT ![w] = h]
  BY DEF CaptureCase, Reads
<1>5. h.case = c /\ h.variant = "good" /\ h.take > 0
  BY <1>2
<1> HIDE DEF h
<1>6. /\ hand' \in [Workers -> Hands] /\ hand'[w] = h
      /\ \A x \in Workers \ {w} : hand'[x] = hand[x]
  BY <1>3, <1>4 DEF TypeOK
<1>7. QED
  BY <1>1, <1>2, <1>5, <1>6 DEF CaptureCase, Takes, Running, TypeOK

LEMMA CaptureCaseTyped ==
  ASSUME TypeOK, NEW w \in Workers, NEW c \in Cases, CaptureCase(w, c)
  PROVE  TypeOK'
<1>1. c # None /\ c \in run.cases /\ \A x \in Workers : hand[x].case # c
  BY CaptureCaseFacts, HandFacts, NoneAssumption DEF TypeOK
<1>2. progress' \in [Cases -> Statuses] /\ forced' \subseteq Cases
  BY DEF TypeOK, CaptureCase, Reads, Statuses
<1>3. UNCHANGED <<page, known, files, run, failures>>
  BY DEF CaptureCase
<1>7. begun' \in [Cases -> SUBSET Keys]
  <2>1. Key(w, c) \in Keys
    BY CaptureCaseFacts DEF TypeOK, Key, Keys
  <2>2. QED
    BY <2>1 DEF TypeOK, CaptureCase, Reads
<1>4. \A x \in Workers : hand'[x].case # None =>
        /\ run'.outcome = "running"
        /\ hand'[x].case \in run'.cases \ queue'
        /\ hand'[x].take > 0
        /\ known'[x] # None
  BY <1>1, <1>3, CaptureCaseFacts, NoneAssumption DEF TypeOK, Running
<1>5. \A x, y \in Workers : hand'[x].case = hand'[y].case /\ x # y => hand'[x].case = None
  BY <1>1, CaptureCaseFacts DEF TypeOK
<1>6. QED
  BY <1>2, <1>3, <1>4, <1>5, <1>7, CaptureCaseFacts DEF TypeOK

LEMMA IdleAfter ==
  ASSUME TypeOK, NEW w \in Workers, hand' = [hand EXCEPT ![w] = Idle]
  PROVE  /\ hand' \in [Workers -> Hands]
         /\ hand'[w].case = None
         /\ \A x \in Workers \ {w} : hand'[x] = hand[x]
BY IdleFacts DEF TypeOK

LEMMA GoodCapturedFacts ==
  ASSUME TypeOK, NEW w \in Workers, GoodCaptured(w)
  PROVE  /\ hand' \in [Workers -> Hands]
         /\ hand'[w].case = hand[w].case /\ hand'[w].variant = "bad"
         /\ hand'[w].take = hand[w].take
         /\ \A x \in Workers \ {w} : hand'[x] = hand[x]
<1>1. hand \in [Workers -> Hands]
  BY DEF TypeOK
<1>2. hand' = [hand EXCEPT ![w] = [hand[w] EXCEPT !.variant = "bad"]]
  BY <1>1 DEF GoodCaptured
<1> DEFINE h == [hand[w] EXCEPT !.variant = "bad"]
<1>3. h \in Hands /\ h.case = hand[w].case /\ h.variant = "bad" /\ h.take = hand[w].take
  BY <1>1 DEF Hands, Variants
<1> HIDE DEF h
<1>4. hand' = [hand EXCEPT ![w] = h]
  BY <1>2 DEF h
<1>5. QED
  BY <1>1, <1>3, <1>4

LEMMA GoodCapturedTyped ==
  ASSUME TypeOK, NEW w \in Workers, GoodCaptured(w)
  PROVE  TypeOK'
<1>1. files' \in [Cases -> [Variants -> Captures \cup {Absent, Torn}]]
  BY CaptureTyped, WriteFacts DEF GoodCaptured
<1>2. UNCHANGED <<page, known, progress, run, queue, failures, takes, begun, forced>>
  BY DEF GoodCaptured, readings
<1>3. \A x \in Workers : hand'[x].case = hand[x].case /\ hand'[x].take = hand[x].take
  BY GoodCapturedFacts
<1>4. \A x \in Workers : hand'[x].case # None =>
        /\ run'.outcome = "running"
        /\ hand'[x].case \in run'.cases \ queue'
        /\ hand'[x].take > 0
        /\ known'[x] # None
  BY <1>2, <1>3 DEF TypeOK
<1>5. \A x, y \in Workers : hand'[x].case = hand'[y].case /\ x # y => hand'[x].case = None
  BY <1>3 DEF TypeOK
<1>6. hand' \in [Workers -> Hands]
  BY GoodCapturedFacts
<1>7. QED
  BY <1>1, <1>2, <1>4, <1>5, <1>6 DEF TypeOK

(* A worker that is done with its case, one way or the other.              *)
LEMMA DoneTyped ==
  ASSUME TypeOK, NEW w \in Workers, hand[w].case # None,
         hand' = [hand EXCEPT ![w] = Idle],
         NEW status \in Statuses, progress' = [progress EXCEPT ![hand[w].case] = status],
         queue' = queue \/ queue' = queue \cup {hand[w].case},
         failures' = failures \/ failures' = failures \cup {hand[w].case},
         forced' \subseteq forced, begun' \in [Cases -> SUBSET Keys],
         files' \in [Cases -> [Variants -> Captures \cup {Absent, Torn}]],
         UNCHANGED <<page, known, run, takes>>
  PROVE  TypeOK'
<1>1. /\ hand[w].case \in Cases /\ hand[w].case \in run.cases
      /\ \A x \in Workers \ {w} : hand[x].case # hand[w].case
  BY HandFacts
<1>2. progress' \in [Cases -> Statuses]
  BY <1>1 DEF TypeOK
<1>3. queue' \subseteq run'.cases /\ failures' \subseteq Cases /\ forced' \subseteq Cases
  BY <1>1 DEF TypeOK
<1>4. \A x \in Workers : hand'[x].case # None =>
        /\ run'.outcome = "running"
        /\ hand'[x].case \in run'.cases \ queue'
        /\ hand'[x].take > 0
        /\ known'[x] # None
  BY <1>1, IdleAfter DEF TypeOK
<1>5. \A x, y \in Workers : hand'[x].case = hand'[y].case /\ x # y => hand'[x].case = None
  BY IdleAfter DEF TypeOK
<1>6. QED
  BY <1>2, <1>3, <1>4, <1>5, IdleAfter DEF TypeOK

LEMMA BadCapturedTyped ==
  ASSUME TypeOK, NEW w \in Workers, BadCaptured(w)
  PROVE  TypeOK'
<1>1. files' \in [Cases -> [Variants -> Captures \cup {Absent, Torn}]]
  BY CaptureTyped, WriteFacts DEF BadCaptured
<1>2. /\ "captured" \in Statuses /\ forced' \subseteq forced
      /\ begun' \in [Cases -> SUBSET Keys]
  BY DEF BadCaptured, Statuses, TypeOK
<1>3. QED
  BY <1>1, <1>2, DoneTyped DEF BadCaptured

LEMMA FailsTyped ==
  ASSUME TypeOK, NEW w \in Workers, NEW status \in {"failed", "refused"}, Fails(w, status)
  PROVE  TypeOK'
<1>1. status \in Statuses /\ files' \in [Cases -> [Variants -> Captures \cup {Absent, Torn}]]
  BY DEF Fails, Statuses, TypeOK
<1>2. begun' \in [Cases -> SUBSET Keys] /\ forced' \subseteq forced /\ UNCHANGED takes
  BY DEF Fails, readings, TypeOK
<1>3. QED
  BY <1>1, <1>2, DoneTyped DEF Fails

LEMMA EndsTyped ==
  ASSUME TypeOK, NEW outcome \in {"killed", "complete", "incomplete"}, Ends(outcome),
         files' \in [Cases -> [Variants -> Captures \cup {Absent, Torn}]]
  PROVE  TypeOK'
<1>1. run' \in Runs
  BY DEF Ends, Runs, NoRun
<1>2. hand' \in [Workers -> Hands] /\ \A w \in Workers : hand'[w].case = None
  BY IdleFacts DEF Ends
<1>3. /\ queue' \subseteq run'.cases /\ failures' \subseteq Cases
      /\ known' \in [Workers -> Environments \cup {None}]
  BY DEF Ends
<1>4. UNCHANGED <<page, progress, takes, begun, forced>>
  BY DEF Ends, readings
<1>5. QED
  BY <1>1, <1>2, <1>3, <1>4 DEF TypeOK

LEMMA KilledTyped ==
  ASSUME TypeOK, Killed \/ \E w \in Workers : KilledWriting(w)
  PROVE  TypeOK'
<1>1. CASE Killed
  BY <1>1, EndsTyped DEF Killed, TypeOK
<1>2. ASSUME NEW w \in Workers, KilledWriting(w) PROVE TypeOK'
  <2>1. files' \in [Cases -> [Variants -> Captures \cup {Absent, Torn}]]
    BY <1>2, WriteFacts DEF KilledWriting
  <2>2. QED
    BY <1>2, <2>1, EndsTyped DEF KilledWriting
<1>3. QED
  BY <1>1, <1>2

LEMMA FinishTyped ==
  ASSUME TypeOK, Finish
  PROVE  TypeOK'
BY EndsTyped DEF Finish, TypeOK

LEMMA ChangesTyped ==
  ASSUME TypeOK, NEW c \in Cases, NEW hash \in Pages, PageChanges(c, hash)
  PROVE  TypeOK'
<1>1. page' \in [Cases -> Pages]
  BY DEF PageChanges, TypeOK
<1>2. UNCHANGED <<known, files, progress, run, queue, hand, failures, takes, begun, forced>>
  BY DEF PageChanges, readings
<1>3. QED
  BY <1>1, <1>2 DEF TypeOK

LEMMA StepTyped == TypeOK /\ [Next]_vars => TypeOK'
<1> SUFFICES ASSUME TypeOK, [Next]_vars PROVE TypeOK'
  OBVIOUS
<1>1. CASE UNCHANGED vars
  BY <1>1 DEF TypeOK, vars
<1>2. CASE Next
  BY <1>2, StartTyped, EnvironmentTyped, SkipTyped, CaptureCaseTyped, GoodCapturedTyped,
     BadCapturedTyped,
     FailsTyped, KilledTyped, FinishTyped, ChangesTyped DEF Next
<1>3. QED
  BY <1>1, <1>2

(* Every reachable state of the files, the runs and the workers' hands is  *)
(* of the declared types: no case is in two hands, or in one and queued.   *)
THEOREM ResumeTypeCorrect == Spec => []TypeOK
BY InitTyped, StepTyped, PTL DEF Spec

-----------------------------------------------------------------------------
(* What is on disk, from one step to the next.                             *)
LEMMA CurrentSame ==
  ASSUME UNCHANGED <<page, known, files>>, run'.cache = run.cache, NEW c \in Cases
  PROVE  /\ HasUsableCaptureFiles(c)' <=> HasUsableCaptureFiles(c)
         /\ Current(c)' <=> Current(c)
BY DEF HasUsableCaptureFiles, CacheDecision, CurrentByKey, Current, Usable

LEMMA PairedSame ==
  ASSUME Paired, UNCHANGED <<files, begun, forced>>
  PROVE  Paired'
BY DEF Paired, OneKey, LeftBy, Usable, FileKey

LEMMA StartSafe ==
  ASSUME ResumeInv, NEW resume \in BOOLEAN, NEW cache \in BOOLEAN,
         NEW cases \in SUBSET Cases, Start(resume, cache, cases)
  PROVE  ResumeInv'
<1>1. TypeOK'
  BY StartTyped DEF ResumeInv
<1>2. /\ UNCHANGED <<page, known, files, hand, begun, forced>>
      /\ queue' = cases /\ run'.cases = cases /\ run'.cache = cache
      /\ run'.done = PreviouslyCaptured(cases, resume, cache)
  BY DEF Start, readings
<1>3. \A w \in Workers : hand[w].case = None
  BY IdleHands DEF ResumeInv, Start, Running
<1>4. Accounted'
  BY <1>2 DEF Accounted
<1>5. \A c \in Cases : HasUsableCaptureFiles(c) => HasUsableCaptureFiles(c)'
  BY <1>2 DEF HasUsableCaptureFiles, Usable
<1>6. DoneStands'
  <2>1. run'.done # {} => ~run'.cache
    BY <1>2 DEF PreviouslyCaptured
  <2>2. \A c \in run'.done : c \in Cases /\ HasUsableCaptureFiles(c)
    BY <1>2 DEF PreviouslyCaptured
  <2>3. \A c \in Cases : ~InHand(c)'
    BY <1>2, <1>3, NoneAssumption DEF InHand
  <2>4. QED
    BY <1>5, <2>1, <2>2, <2>3 DEF DoneStands
<1>7. GoodFirst' /\ KeyBegun'
  BY <1>2, <1>3 DEF GoodFirst, KeyBegun
<1>8. Paired'
  BY <1>2, PairedSame DEF ResumeInv
<1>9. QED
  BY <1>1, <1>4, <1>6, <1>7, <1>8 DEF ResumeInv

LEMMA EnvironmentSafe ==
  ASSUME ResumeInv, NEW w \in Workers, NEW environment \in Environments,
         WorkerEnvironment(w, environment)
  PROVE  ResumeInv'
<1>0. TypeOK
  BY DEF ResumeInv
<1>1. TypeOK'
  BY <1>0, EnvironmentTyped
<1>2. /\ UNCHANGED <<page, files, run, queue, hand, failures, begun, forced>>
      /\ known[w] = None /\ \A x \in Workers \ {w} : known'[x] = known[x]
  BY <1>0 DEF WorkerEnvironment, readings, TypeOK
<1>3. \A x \in Workers : known[x] # None => known'[x] = known[x]
  BY <1>2
<1>4. \A c \in Cases : /\ HasUsableCaptureFiles(c)' <=> HasUsableCaptureFiles(c)
                       /\ Current(c) => Current(c)'
                       /\ InHand(c)' <=> InHand(c)
  BY <1>2, <1>3
     DEF HasUsableCaptureFiles, CacheDecision, CurrentByKey, Current, Usable, InHand
<1>5. Accounted' /\ DoneStands'
  BY <1>0, <1>2, <1>4, RunTyped DEF ResumeInv, Accounted, DoneStands, Running
<1>6. \A x \in Workers : hand[x].case # None => known'[x] = known[x]
  BY <1>0, <1>3 DEF TypeOK
<1>7. GoodFirst' /\ KeyBegun'
  BY <1>2, <1>6 DEF ResumeInv, GoodFirst, KeyBegun, Capture, Key
<1>8. QED
  BY <1>1, <1>2, <1>5, <1>7, PairedSame DEF ResumeInv

LEMMA SkipSafe ==
  ASSUME ResumeInv, NEW w \in Workers, NEW c \in Cases, Skip(w, c)
  PROVE  ResumeInv'
<1>1. TypeOK'
  BY SkipTyped DEF ResumeInv
<1>2. /\ UNCHANGED <<page, known, files, run, hand, failures, begun, forced>>
      /\ queue' = queue \ {c} /\ Running /\ Skipped(w, c) /\ known[w] # None
  BY DEF Skip, Takes, readings, Running
<1>3. Current(c)
  <2>1. CASE c \in run.done
    BY <1>2, <2>1 DEF ResumeInv, DoneStands, Current
  <2>2. CASE run.cache /\ CacheDecision(w, c)
    BY <1>2, <2>2 DEF Current, CurrentByKey, CacheDecision, HasUsableCaptureFiles
  <2>3. QED
    BY <1>2, <2>1, <2>2 DEF Skipped
<1>4. \A d \in Cases : InHand(d)' <=> InHand(d)
  BY <1>2 DEF InHand
<1>5. Accounted'
  BY <1>2, <1>3, <1>4, CurrentSame, RunTyped DEF ResumeInv, Accounted, Running
<1>6. DoneStands'
  BY <1>2, <1>4, CurrentSame, RunTyped DEF ResumeInv, DoneStands, Running
<1>7. GoodFirst' /\ KeyBegun'
  BY <1>2 DEF ResumeInv, GoodFirst, KeyBegun, Capture, Key
<1>8. Paired'
  BY <1>2, PairedSame DEF ResumeInv
<1>9. QED
  BY <1>1, <1>5, <1>6, <1>7, <1>8 DEF ResumeInv

(* A pair of one reading that is read anew is not of the key it is read by.*)
LEMMA ReadAnew ==
  ASSUME NEW w \in Workers, NEW c \in Cases, ~CacheDecision(w, c),
         files[c]["good"] = files[c]["bad"]
  PROVE  LeftBy(Key(w, c), c)
<1>1. SUFFICES ASSUME Usable(files[c]["bad"]), FileKey(files[c]["bad"]) = Key(w, c)
               PROVE  FALSE
  BY DEF LeftBy
<1>2. files[c]["bad"].page = page[c] /\ files[c]["bad"].env = known[w]
  BY <1>1 DEF FileKey, Key
<1>3. QED
  BY <1>1, <1>2, VariantFacts DEF CacheDecision

LEMMA CaptureCaseSafe ==
  ASSUME ResumeInv, NEW w \in Workers, NEW c \in Cases, CaptureCase(w, c)
  PROVE  ResumeInv'
<1>0. TypeOK
  BY DEF ResumeInv
<1>1. TypeOK'
  BY <1>0, CaptureCaseTyped
<1>2. /\ UNCHANGED <<page, known, files, run, failures>>
      /\ forced' = IF run.cache THEN forced ELSE forced \cup {c}
      /\ begun'[c] = begun[c] \cup {Key(w, c)}
      /\ \A d \in Cases \ {c} : begun'[d] = begun[d]
  BY <1>0 DEF CaptureCase, Reads, TypeOK
<1>3. /\ hand[w].case = None /\ queue' = queue \ {c} /\ ~Skipped(w, c) /\ c \in queue
      /\ hand'[w].case = c /\ hand'[w].variant = "good"
      /\ \A x \in Workers \ {w} : hand'[x] = hand[x]
  BY <1>0, CaptureCaseFacts
<1>4. ~InHand(c)
  BY <1>0, <1>3, HandFacts, NoneAssumption DEF InHand
<1>5. \A d \in Cases : InHand(d)' <=> InHand(d) \/ d = c
  BY <1>3, NoneAssumption DEF InHand
<1>6. Accounted'
  BY <1>0, <1>2, <1>3, <1>5, CurrentSame, RunTyped DEF ResumeInv, Accounted, Running
<1>7. DoneStands'
  <2>1. c \notin run.done
    BY <1>3 DEF Skipped
  <2>2. QED
    BY <1>0, <1>2, <1>5, <2>1, CurrentSame, RunTyped DEF ResumeInv, DoneStands, Running
<1>8. GoodFirst'
  BY <1>2, <1>3 DEF ResumeInv, GoodFirst, Capture
<1>9. Paired'
  <2>1. SUFFICES ASSUME NEW d \in Cases \ forced'
                 PROVE  /\ begun'[d] = {} => files[d]["good"] = files[d]["bad"]
                        /\ OneKey(d)' => \A k \in begun'[d] : LeftBy(k, d)
    BY <1>2 DEF Paired, LeftBy, Usable, FileKey
  <2>2. d \in Cases \ forced
    BY <1>2, <2>1
  <2>3. /\ begun[d] = {} => files[d]["good"] = files[d]["bad"]
        /\ OneKey(d) => \A k \in begun[d] : LeftBy(k, d)
    BY <2>2 DEF ResumeInv, Paired
  <2>4. CASE d # c
    BY <1>2, <2>3, <2>4 DEF OneKey
  <2>5. CASE d = c
    <3>1. ~CacheDecision(w, c)
      BY <1>2, <1>3, <2>1, <2>5 DEF Skipped
    <3>2. CASE begun[c] = {}
      BY <1>2, <2>3, <2>5, <3>1, <3>2, ReadAnew
    <3>3. CASE begun[c] # {}
      <4>1. SUFFICES ASSUME OneKey(c)', NEW k \in begun'[c] PROVE LeftBy(k, c)
        BY <1>2, <2>5
      <4>2. OneKey(c) /\ k \in begun[c]
        BY <1>2, <3>3, <4>1 DEF OneKey
      <4>3. QED
        BY <2>3, <2>5, <4>2
    <3>4. QED
      BY <3>2, <3>3
  <2>6. QED
    BY <2>4, <2>5
<1>11. KeyBegun'
  <2>1. SUFFICES ASSUME NEW x \in Workers, hand'[x].case # None
                 PROVE  Key(x, hand'[x].case) \in begun'[hand'[x].case]
    BY <1>2 DEF KeyBegun, Key
  <2>2. CASE x = w
    BY <1>2, <1>3, <2>2
  <2>3. CASE x # w
    <3>1. hand'[x] = hand[x] /\ hand[x].case \in Cases
      BY <1>0, <1>3, <2>1, <2>3, HandFacts
    <3>2. QED
      BY <1>2, <2>1, <3>1 DEF ResumeInv, KeyBegun
  <2>4. QED
    BY <2>2, <2>3
<1>10. QED
  BY <1>1, <1>6, <1>7, <1>8, <1>9, <1>11 DEF ResumeInv

(* A half that is written leaves every other case as it was.               *)
LEMMA OthersSame ==
  ASSUME ResumeInv, NEW w \in Workers, hand[w].case # None,
         NEW file \in Captures \cup {Absent, Torn}, WriteCapture(w, file),
         UNCHANGED <<page, known>>, run'.cache = run.cache
  PROVE  \A c \in Cases \ {hand[w].case} :
           /\ files'[c] = files[c]
           /\ HasUsableCaptureFiles(c)' <=> HasUsableCaptureFiles(c)
           /\ Current(c)' <=> Current(c)
           /\ \A k : LeftBy(k, c)' <=> LeftBy(k, c)
<1>1. \A c \in Cases \ {hand[w].case} : files'[c] = files[c]
  BY WriteFacts DEF ResumeInv
<1>2. QED
  BY <1>1
     DEF HasUsableCaptureFiles, CacheDecision, CurrentByKey, Current, Usable, LeftBy, FileKey

(* The halves of a pair that is not written, and of one that is.           *)
LEMMA PairedAfter ==
  ASSUME ResumeInv, NEW h \in Cases, \A c \in Cases \ {h} : files'[c] = files[c],
         \A c \in Cases \ {h} : begun'[c] = begun[c],
         \A c \in Cases \ {h} : c \notin forced' => c \notin forced,
         h \notin forced' =>
           /\ begun'[h] = {} => files'[h]["good"] = files'[h]["bad"]
           /\ OneKey(h)' => \A k \in begun'[h] : LeftBy(k, h)'
  PROVE  Paired'
<1>1. SUFFICES ASSUME NEW d \in Cases \ forced'
               PROVE  /\ begun'[d] = {} => files'[d]["good"] = files'[d]["bad"]
                      /\ OneKey(d)' => \A k \in begun'[d] : LeftBy(k, d)'
  BY DEF Paired
<1>2. CASE d = h
  BY <1>2
<1>3. CASE d # h
  <2>1. /\ begun[d] = {} => files[d]["good"] = files[d]["bad"]
        /\ OneKey(d) => \A k \in begun[d] : LeftBy(k, d)
    BY <1>1, <1>3 DEF ResumeInv, Paired
  <2>2. QED
    BY <1>3, <2>1 DEF OneKey, LeftBy, Usable, FileKey
<1>4. QED
  BY <1>2, <1>3

LEMMA GoodCapturedSafe ==
  ASSUME ResumeInv, NEW w \in Workers, GoodCaptured(w)
  PROVE  ResumeInv'
<1>0. TypeOK
  BY DEF ResumeInv
<1> PICK h \in Cases : h = hand[w].case
  BY <1>0, HandFacts DEF GoodCaptured
<1>1. TypeOK'
  BY <1>0, GoodCapturedTyped
<1>2. /\ UNCHANGED <<page, known, run, queue, failures, begun, forced>>
      /\ h # None /\ hand[w].variant = "good"
      /\ WriteCapture(w, Capture(w))
  BY DEF GoodCaptured, readings
<1>3. Capture(w) \in Captures \cup {Absent, Torn}
  BY <1>0, <1>2, CaptureTyped
<1>4. h \in Cases
  BY <1>0, <1>2, HandFacts
<1>5. /\ files'[h]["good"] = Capture(w) /\ files'[h]["bad"] = files[h]["bad"]
  BY <1>0, <1>2, <1>3, WriteFacts, VariantFacts
<1>6. /\ hand'[w].case = h /\ hand'[w].take = hand[w].take
      /\ \A x \in Workers : hand'[x].case = hand[x].case
      /\ \A x \in Workers \ {w} : hand'[x] = hand[x]
  BY <1>0, GoodCapturedFacts
<1>7. \A c \in Cases : InHand(c)' <=> InHand(c)
  BY <1>6 DEF InHand
<1>8. InHand(h)
  BY DEF InHand
<1>9. /\ \A c \in Cases \ {h} : HasUsableCaptureFiles(c)' <=> HasUsableCaptureFiles(c)
      /\ \A c \in Cases \ {h} : Current(c)' <=> Current(c)
      /\ \A c \in Cases \ {h} : files'[c] = files[c]
  BY <1>2, <1>3, OthersSame
<1>10. KeyBegun'
  BY <1>2, <1>6 DEF ResumeInv, KeyBegun, Key
<1>11. Accounted'
  BY <1>0, <1>2, <1>7, <1>8, <1>9, RunTyped DEF ResumeInv, Accounted, Running
<1>12. DoneStands'
  BY <1>0, <1>2, <1>7, <1>8, <1>9, RunTyped DEF ResumeInv, DoneStands, Running
<1>13. GoodFirst'
  <2>1. SUFFICES ASSUME NEW x \in Workers, hand'[x].case # None, hand'[x].variant = "bad"
                 PROVE  files'[hand'[x].case]["good"] = Capture(x)'
    BY DEF GoodFirst
  <2>2. CASE x = w
    BY <1>2, <1>5, <1>6, <2>2 DEF Capture
  <2>3. CASE x # w
    <3>1. hand[x].case \in Cases \ {h} /\ hand'[x] = hand[x]
      BY <1>0, <1>2, <1>6, <2>1, <2>3, HandFacts
    <3>2. files[hand[x].case]["good"] = Capture(x)
      BY <2>1, <3>1 DEF ResumeInv, GoodFirst
    <3>3. QED
      BY <1>2, <1>9, <3>1, <3>2 DEF Capture
  <2>4. QED
    BY <2>2, <2>3
<1>14. Paired'
  <2>1. SUFFICES ASSUME h \notin forced, OneKey(h), NEW k \in begun[h]
                 PROVE  LeftBy(k, h)'
    <3>1. begun[h] # {}
      BY <1>0, <1>2 DEF ResumeInv, KeyBegun
    <3>2. OneKey(h)' <=> OneKey(h)
      BY <1>2 DEF OneKey
    <3>3. QED
      BY <1>2, <1>9, <3>1, <3>2, PairedAfter
  <2>2. LeftBy(k, h)
    BY <2>1 DEF ResumeInv, Paired
  <2>3. k = Key(w, h)
    BY <1>2, <2>1 DEF ResumeInv, KeyBegun, OneKey
  <2>4. FileKey(Capture(w)) = k
    BY <1>0, <1>2, <2>3, CaptureTyped
  <2>5. QED
    BY <1>5, <2>2, <2>4 DEF LeftBy, Usable, FileKey
<1>15. QED
  BY <1>1, <1>10, <1>11, <1>12, <1>13, <1>14 DEF ResumeInv

LEMMA BadCapturedSafe ==
  ASSUME ResumeInv, NEW w \in Workers, BadCaptured(w)
  PROVE  ResumeInv'
<1>0. TypeOK
  BY DEF ResumeInv
<1> PICK h \in Cases : h = hand[w].case
  BY <1>0, HandFacts DEF BadCaptured
<1>1. TypeOK'
  BY <1>0, BadCapturedTyped
<1>2. /\ UNCHANGED <<page, known, run, queue, failures>> /\ forced' = forced \ {h}
      /\ h # None /\ hand[w].variant = "bad"
      /\ WriteCapture(w, Capture(w))
      /\ hand' = [hand EXCEPT ![w] = Idle]
      /\ begun'[h] = {} /\ \A c \in Cases \ {h} : begun'[c] = begun[c]
  BY <1>0 DEF BadCaptured, TypeOK
<1>3. Capture(w) \in Captures \cup {Absent, Torn} /\ Usable(Capture(w))
      /\ Capture(w).page = page[h] /\ Capture(w).env = known[w]
  BY <1>0, <1>2, CaptureTyped
<1>4. h \in Cases /\ \A x \in Workers \ {w} : hand[x].case # h
  BY <1>0, <1>2, HandFacts
<1>5. files'[h]["good"] = Capture(w) /\ files'[h]["bad"] = Capture(w)
  <2>1. files[h]["good"] = Capture(w)
    BY <1>2 DEF ResumeInv, GoodFirst
  <2>2. QED
    BY <1>0, <1>2, <1>3, <2>1, WriteFacts, VariantFacts
<1>6. hand'[w].case = None /\ \A x \in Workers \ {w} : hand'[x] = hand[x]
  BY <1>0, <1>2, IdleAfter
<1>7. /\ ~InHand(h)'
      /\ \A c \in Cases \ {h} : InHand(c)' <=> InHand(c)
  BY <1>2, <1>4, <1>6, NoneAssumption DEF InHand
<1>8. InHand(h)
  BY DEF InHand
<1>9. /\ \A c \in Cases \ {h} : HasUsableCaptureFiles(c)' <=> HasUsableCaptureFiles(c)
      /\ \A c \in Cases \ {h} : Current(c)' <=> Current(c)
      /\ \A c \in Cases \ {h} : files'[c] = files[c]
  BY <1>2, <1>3, OthersSame
<1>10. KeyBegun'
  <2>1. SUFFICES ASSUME NEW x \in Workers, hand'[x].case # None
                 PROVE  Key(x, hand'[x].case) \in begun'[hand'[x].case]
    BY <1>2 DEF KeyBegun, Key
  <2>2. x # w /\ hand'[x] = hand[x]
    BY <1>6, <2>1
  <2>3. hand[x].case \in Cases \ {h}
    BY <1>0, <1>4, <2>1, <2>2, HandFacts
  <2>4. QED
    BY <1>2, <2>1, <2>2, <2>3 DEF ResumeInv, KeyBegun
<1>11. Current(h)'
  <2>1. \A v \in Variants : files'[h][v] = Capture(w)
    BY <1>5, VariantFacts
  <2>2. page'[h] = page[h] /\ known' = known /\ known[w] # None
    BY <1>0, <1>2 DEF TypeOK
  <2>3. HasUsableCaptureFiles(h)'
    BY <1>3, <2>1, <2>2 DEF HasUsableCaptureFiles, Usable
  <2>4. CacheDecision(w, h)'
    BY <1>3, <2>1, <2>2 DEF CacheDecision, Usable
  <2>5. QED
    BY <2>2, <2>3, <2>4 DEF Current, CurrentByKey
<1>12. Accounted'
  BY <1>0, <1>2, <1>7, <1>9, <1>11, RunTyped DEF ResumeInv, Accounted, Running
<1>13. DoneStands'
  BY <1>0, <1>2, <1>7, <1>8, <1>9, RunTyped DEF ResumeInv, DoneStands, Running
<1>14. GoodFirst'
  <2>1. SUFFICES ASSUME NEW x \in Workers, hand'[x].case # None, hand'[x].variant = "bad"
                 PROVE  files'[hand'[x].case]["good"] = Capture(x)'
    BY DEF GoodFirst
  <2>2. x # w
    BY <1>6, <2>1
  <2>3. hand[x].case \in Cases \ {h} /\ hand'[x] = hand[x]
    BY <1>0, <1>4, <1>6, <2>1, <2>2, HandFacts
  <2>4. files[hand[x].case]["good"] = Capture(x)
    BY <2>1, <2>3 DEF ResumeInv, GoodFirst
  <2>5. QED
    BY <1>2, <1>9, <2>3, <2>4 DEF Capture
<1>15. Paired'
  BY <1>2, <1>5, <1>9, PairedAfter
<1>16. QED
  BY <1>1, <1>10, <1>12, <1>13, <1>14, <1>15 DEF ResumeInv

LEMMA FailsSafe ==
  ASSUME ResumeInv, NEW w \in Workers, NEW status \in {"failed", "refused"}, Fails(w, status)
  PROVE  ResumeInv'
<1>0. TypeOK
  BY DEF ResumeInv
<1> PICK h \in Cases : h = hand[w].case
  BY <1>0, HandFacts DEF Fails
<1>1. TypeOK'
  BY <1>0, FailsTyped
<1>2. /\ UNCHANGED <<page, known, files, run, begun, forced>>
      /\ queue \subseteq queue' /\ failures \subseteq failures' /\ h \in queue' \cup failures'
      /\ h # None /\ hand' = [hand EXCEPT ![w] = Idle]
  BY DEF Fails, readings
<1>3. \A x \in Workers \ {w} : hand[x].case # h
  BY <1>0, <1>2, HandFacts
<1>4. hand'[w].case = None /\ \A x \in Workers \ {w} : hand'[x] = hand[x]
  BY <1>0, <1>2, IdleAfter
<1>5. /\ ~InHand(h)'
      /\ \A c \in Cases \ {h} : InHand(c)' <=> InHand(c)
  BY <1>2, <1>3, <1>4, NoneAssumption DEF InHand
<1>6. InHand(h)
  BY DEF InHand
<1>7. Accounted'
  BY <1>0, <1>2, <1>5, CurrentSame, RunTyped DEF ResumeInv, Accounted, Running
<1>8. DoneStands'
  BY <1>0, <1>2, <1>5, <1>6, CurrentSame, RunTyped DEF ResumeInv, DoneStands, Running
<1>9. GoodFirst' /\ KeyBegun'
  BY <1>2, <1>4 DEF ResumeInv, GoodFirst, KeyBegun, Capture, Key
<1>10. Paired'
  BY <1>2, PairedSame DEF ResumeInv
<1>11. QED
  BY <1>1, <1>7, <1>8, <1>9, <1>10 DEF ResumeInv

(* A run that ended, whatever it ended as, has nothing in hand; only the   *)
(* files bear witness of it.                                               *)
LEMMA EndedSafe ==
  ASSUME ResumeInv, TypeOK', ~Running', Paired'
  PROVE  ResumeInv'
<1>1. \A w \in Workers : hand'[w].case = None
  BY DEF TypeOK, Running
<1>2. QED
  BY <1>1 DEF ResumeInv, Accounted, DoneStands, GoodFirst, KeyBegun

LEMMA KilledSafe ==
  ASSUME ResumeInv, Killed \/ \E w \in Workers : KilledWriting(w)
  PROVE  ResumeInv'
<1>0. TypeOK
  BY DEF ResumeInv
<1>1. TypeOK'
  BY <1>0, KilledTyped
<1>2. UNCHANGED <<page, begun, forced>> /\ ~Running'
  BY DEF Killed, KilledWriting, Ends, readings, Running, NoRun
<1>3. CASE Killed
  <2>1. UNCHANGED files
    BY <1>3 DEF Killed
  <2>2. Paired'
    BY <1>2, <2>1, PairedSame DEF ResumeInv
  <2>3. QED
    BY <1>1, <1>2, <2>2, EndedSafe
<1>4. ASSUME NEW w \in Workers, KilledWriting(w) PROVE ResumeInv'
  <2> PICK h \in Cases : h = hand[w].case
    BY <1>0, <1>4, HandFacts DEF KilledWriting
  <2>1. h # None /\ WriteCapture(w, Torn)
    BY <1>4 DEF KilledWriting
  <2>2. \A c \in Cases \ {h} : files'[c] = files[c]
    BY <1>0, <2>1, WriteFacts
  <2>3. begun[h] # {} /\ Key(w, h) \in begun[h]
    BY <2>1 DEF ResumeInv, KeyBegun
  <2>4. ASSUME h \notin forced, OneKey(h), NEW k \in begun[h]
        PROVE  LeftBy(k, h)'
    <3>1. LeftBy(k, h) /\ k = Key(w, h)
      BY <2>3, <2>4 DEF ResumeInv, Paired, OneKey
    <3>2. CASE hand[w].variant = "good"
      <4>1. files'[h]["good"] = Torn /\ files'[h]["bad"] = files[h]["bad"]
        BY <1>0, <2>1, <3>2, WriteFacts, VariantFacts
      <4>2. QED
        BY <3>1, <4>1 DEF LeftBy, Usable, FileKey
    <3>3. CASE hand[w].variant = "bad"
      <4>1. files'[h]["bad"] = Torn /\ files'[h]["good"] = files[h]["good"]
        BY <1>0, <2>1, <3>3, WriteFacts, VariantFacts
      <4>2. files[h]["good"] = Capture(w)
        BY <2>1, <3>3 DEF ResumeInv, GoodFirst
      <4>3. FileKey(Capture(w)) = k
        BY <1>0, <2>1, <3>1, CaptureTyped
      <4>4. QED
        BY <4>1, <4>2, <4>3 DEF LeftBy, Usable, FileKey
    <3>4. QED
      BY <1>0, <2>1, <3>2, <3>3, HandFacts, VariantFacts
  <2>5. OneKey(h)' <=> OneKey(h)
    BY <1>2 DEF OneKey
  <2>6. Paired'
    BY <1>2, <2>2, <2>3, <2>4, <2>5, PairedAfter
  <2>7. QED
    BY <1>1, <1>2, <2>6, EndedSafe
<1>5. QED
  BY <1>3, <1>4

LEMMA FinishSafe ==
  ASSUME ResumeInv, Finish
  PROVE  ResumeInv'
<1>1. TypeOK'
  BY FinishTyped DEF ResumeInv
<1>2. ~Running' /\ UNCHANGED <<files, begun, forced>>
  BY DEF Finish, Ends, NoRun, Running, readings
<1>3. QED
  BY <1>1, <1>2, PairedSame, EndedSafe DEF ResumeInv

LEMMA ChangesSafe ==
  ASSUME ResumeInv, NEW c \in Cases, NEW hash \in Pages, PageChanges(c, hash)
  PROVE  ResumeInv'
<1>1. TypeOK'
  BY ChangesTyped DEF ResumeInv
<1>2. ~Running' /\ UNCHANGED <<files, begun, forced>>
  BY DEF PageChanges, Running, readings
<1>3. QED
  BY <1>1, <1>2, PairedSame, EndedSafe DEF ResumeInv

LEMMA StepSafe == ResumeInv /\ [Next]_vars => ResumeInv'
<1> SUFFICES ASSUME ResumeInv, [Next]_vars PROVE ResumeInv'
  OBVIOUS
<1>1. CASE UNCHANGED vars
  <2>1. TypeOK'
    BY <1>1, StepTyped DEF ResumeInv
  <2>2. \A c \in Cases : InHand(c)' <=> InHand(c)
    BY <1>1 DEF vars, InHand
  <2>3. UNCHANGED <<page, known, files, run, queue, hand, failures, begun, forced>>
    BY <1>1 DEF vars
  <2>4. Accounted' /\ DoneStands'
    BY <2>2, <2>3, CurrentSame, RunTyped DEF ResumeInv, Accounted, DoneStands, Running
  <2>5. GoodFirst' /\ KeyBegun' /\ Paired'
    BY <2>3, PairedSame DEF ResumeInv, GoodFirst, KeyBegun, Capture, Key
  <2>6. QED
    BY <2>1, <2>4, <2>5 DEF ResumeInv
<1>2. CASE Next
  BY <1>2, StartSafe, EnvironmentSafe, SkipSafe, CaptureCaseSafe, GoodCapturedSafe,
     BadCapturedSafe,
     FailsSafe, KilledSafe, FinishSafe, ChangesSafe DEF Next
<1>3. QED
  BY <1>1, <1>2

LEMMA InitSafe == Init => ResumeInv
<1> SUFFICES ASSUME Init PROVE ResumeInv
  OBVIOUS
<1>1. ~Running /\ \A w \in Workers : hand[w].case = None
  BY IdleFacts DEF Init, Running, NoRun
<1>2. \A c \in Cases : files[c]["good"] = files[c]["bad"] /\ begun[c] = {}
  BY VariantFacts DEF Init
<1>3. QED
  BY <1>1, <1>2, InitTyped
     DEF ResumeInv, Accounted, DoneStands, GoodFirst, KeyBegun, Paired

(* A run that reports itself complete has a current pair of every case     *)
(* that a worker took: of the page, and by the key of one of its workers.  *)
THEOREM CompleteRunsAreCurrent == Spec => CompleteMeansCurrent
<1>1. ResumeInv /\ [Next]_vars =>
        [run.outcome = "running" /\ run'.outcome = "complete" =>
           \A c \in run.cases \ queue :
             /\ OfThePage(c)
             /\ run.cache =>
                  \E w \in Workers : known[w] # None /\ OfTheKey(c, known[w])]_vars
  <2>1. SUFFICES ASSUME ResumeInv, Next, run.outcome = "running", run'.outcome = "complete",
                        NEW c \in run.cases \ queue
                 PROVE  /\ OfThePage(c)
                        /\ run.cache =>
                             \E w \in Workers : known[w] # None /\ OfTheKey(c, known[w])
    OBVIOUS
  <2>2. Finish
    BY <2>1 DEF Next, Start, WorkerEnvironment, Skip, CaptureCase, GoodCaptured, BadCaptured,
       KilledWriting, Killed, Ends, NoRun, Fails, PageChanges
  <2>3. failures = {} /\ \A w \in Workers : hand[w].case = None
    BY <2>1, <2>2 DEF Finish, Ends, NoRun
  <2>4. c \in Cases /\ c # None
    BY <2>1, NoneAssumption, RunTyped DEF ResumeInv
  <2>5. Current(c)
    BY <2>1, <2>3, <2>4 DEF ResumeInv, Accounted, Running, InHand
  <2>6. \A v \in Variants : Usable(files[c][v]) => files[c][v] \in Captures
    BY <2>1, <2>4 DEF ResumeInv, TypeOK, Usable
  <2>7. OfThePage(c)
    BY <2>5, <2>6 DEF Current, HasUsableCaptureFiles, OfThePage
  <2>8. QED
    BY <2>5, <2>7 DEF Current, CurrentByKey, CacheDecision, OfTheKey
<1>2. QED
  BY <1>1, InitSafe, StepSafe, PTL DEF Spec, CompleteMeansCurrent

(* A pair the cache would reuse, for a worker of any environment, is of    *)
(* one reading of the case, as long as readings were begun by one key.     *)
THEOREM ReusedPairsAreOfOneReading == Spec => []PairIsOneCapture
<1>1. ResumeInv => PairIsOneCapture
  <2>1. SUFFICES ASSUME ResumeInv, NEW c \in Cases \ forced, NEW environment \in Environments,
                        OneKey(c), OfTheKey(c, environment)
                 PROVE  OfOneReading(c)
    BY DEF PairIsOneCapture, OneKey
  <2>2. /\ Usable(files[c]["bad"]) /\ Usable(files[c]["good"])
        /\ FileKey(files[c]["good"]) = FileKey(files[c]["bad"])
    BY <2>1, FilesAssumption, VariantFacts DEF OfTheKey, OfThePage, Usable, FileKey
  <2>3. files[c]["good"] = files[c]["bad"]
    <3>1. CASE begun[c] = {}
      BY <2>1, <3>1 DEF ResumeInv, Paired
    <3>2. ASSUME NEW k \in begun[c] PROVE files[c]["good"] = files[c]["bad"]
      BY <2>1, <2>2, <3>2 DEF ResumeInv, Paired, LeftBy
    <3>3. QED
      BY <3>1, <3>2
  <2>4. QED
    BY <2>3 DEF OfOneReading
<1>2. QED
  BY <1>1, InitSafe, StepSafe, PTL DEF Spec
=============================================================================
