------------------------- MODULE ProgressFeedProofs -------------------------
(***************************************************************************)
(* The display's numbers for every walk, number of workers and channel     *)
(* capacity.  The feed takes only steps of the pipeline, so the pipeline's *)
(* invariant holds of it; the snapshots and what is shown are compared     *)
(* with the counters, which only grow while the context lasts.             *)
(***************************************************************************)
EXTENDS ProgressFeed, ScanPipelineProofs

-----------------------------------------------------------------------------
(* The feed and the pipeline.                                              *)

\* A step of the feed is a step of the pipeline or leaves it alone.
LEMMA FeedStepIsPipelineStep == [FeedNext]_feedVars => [Next]_vars
<1> SUFFICES ASSUME [FeedNext]_feedVars PROVE [Next]_vars
  OBVIOUS
<1>1. CASE UNCHANGED feedVars \/ FeedFinished
  BY <1>1 DEF feedVars, FeedFinished
<1>2. CASE FeedVisitFile \/ FeedEndWalk \/ FeedDiscovery
  BY <1>2 DEF FeedVisitFile, FeedEndWalk, FeedDiscovery, Next, DiscoveryStep
<1>3. CASE \E w \in Workers : FeedWorker(w) \/ FeedArchiveEntry(w)
  BY <1>3 DEF FeedWorker, FeedArchiveEntry, Next, WorkerStep
<1>4. CASE FeedOutcome
  BY <1>4 DEF FeedOutcome, Next, DiscoveryStep, WorkerStep
<1>5. CASE FeedReturnReport \/ FeedCollector
  BY <1>5 DEF FeedReturnReport, FeedCollector, Next, CollectorStep
<1>6. CASE FeedOther
  BY <1>6 DEF FeedOther, Next
<1>7. CASE \E c \in Callers : NotifyStep(c)
  BY <1>7 DEF NotifyStep, LoadDiscovered, LoadScanned, LoadComplete, Update
<1> QED
  BY <1>1, <1>2, <1>3, <1>4, <1>5, <1>6, <1>7 DEF FeedNext

\* The notifications add nothing to what the pipeline may do.
THEOREM FeedImplementsPipeline == FeedSpec => Spec
<1>1. FeedInit => Init
  BY DEF FeedInit
<1> QED
  BY <1>1, FeedStepIsPipelineStep, PTL DEF FeedSpec, Spec

\* What a step of the pipeline may do to the counters that are loaded.
LEMMA CountersGrow ==
  ASSUME IInv, [Next]_vars
  PROVE  /\ filesScanned' \in Nat /\ filesDiscovered' \in Nat
         /\ filesScanned' >= filesScanned
         /\ discoveryComplete => discoveryComplete'
         /\ cancelled => cancelled'
         /\ ~cancelled' => filesDiscovered' >= filesDiscovered
<1>1. IInv'
  BY NextPreservesIInv
<1>2. /\ filesScanned \in Nat /\ filesDiscovered \in Nat
      /\ filesScanned' \in Nat /\ filesDiscovered' \in Nat
  BY <1>1 DEF IInv, TypeOK
<1>3. filesScanned' \in {filesScanned, filesScanned + 1}
  BY DEF Next, vars, discoveryVars, workerVars, collectorVars, DiscoveryStep,
         VisitFile, SendPath, AbandonPath, VisitError, ReportError, AbandonError,
         EndWalk, CloseJobs, WorkerStep, TakeJob, WorkerDrained, SendOutcome,
         WorkerCancelled, CloseOutcomes, CollectorStep, FinishCallbacks,
         ReturnReport, ReturnCancelled, Cancel, SendOnClosed, Finished
<1>4. /\ discoveryComplete' = discoveryComplete \/ discoveryComplete' = TRUE
      /\ cancelled' = cancelled \/ cancelled' = TRUE
  BY DEF Next, vars, discoveryVars, workerVars, collectorVars, DiscoveryStep,
         VisitFile, SendPath, AbandonPath, VisitError, ReportError, AbandonError,
         EndWalk, CloseJobs, WorkerStep, TakeJob, WorkerDrained, SendOutcome,
         WorkerCancelled, CloseOutcomes, CollectorStep, FinishCallbacks,
         ReturnReport, ReturnCancelled, Cancel, SendOnClosed, Finished
<1>5. \/ filesDiscovered' \in {filesDiscovered, filesDiscovered + 1}
      \/ cancelled /\ cancelled' = cancelled
  BY DEF Next, vars, discoveryVars, workerVars, collectorVars, DiscoveryStep,
         VisitFile, SendPath, AbandonPath, VisitError, ReportError, AbandonError,
         EndWalk, CloseJobs, WorkerStep, TakeJob, WorkerDrained, SendOutcome,
         WorkerCancelled, CloseOutcomes, CollectorStep, FinishCallbacks,
         ReturnReport, ReturnCancelled, Cancel, SendOnClosed, Finished
<1>6. ~cancelled' => filesDiscovered' >= filesDiscovered
  BY <1>2, <1>5
<1>7. filesScanned' >= filesScanned
  BY <1>2, <1>3
<1>8. (discoveryComplete => discoveryComplete') /\ (cancelled => cancelled')
  <2>1. discoveryComplete \in BOOLEAN /\ cancelled \in BOOLEAN
    BY DEF IInv, TypeOK
  <2> QED
    BY <1>4, <2>1
<1> QED
  BY <1>2, <1>6, <1>7, <1>8

\* What the counters hold when a report is returned without a cancellation.
LEMMA FinalCounters ==
  ASSUME IInv, collector = "report", ~cancelled
  PROVE  /\ filesDiscovered = Cardinality(Files)
         /\ filesScanned = Cardinality(Files)
         /\ discoveryComplete
<1>1. dpc = "done" /\ \A i \in Visits : collected[i] = 1
  BY ReportComesLast
<1>2. pos = WalkLen + 1 /\ discoveryComplete
  BY <1>1 DEF IInv, GoroutinesEndInOrder
<1>3. FilesBefore(pos) = Files
  BY <1>2, PipelineAssumption DEF FilesBefore, Files, Visits
<1>4. FilesCollected = Files
  BY <1>1 DEF FilesCollected, Files
<1> QED
  BY <1>1, <1>2, <1>3, <1>4, CountsAreNat DEF IInv, CountersExact

-----------------------------------------------------------------------------
(* The invariant of the feed.                                              *)

Snapshots == [discovered : Nat, scanned : Nat, complete : BOOLEAN]

\* What a snapshot, or the display, holds is not ahead of the counters.
Happened(s) ==
  /\ s.scanned <= filesScanned
  /\ s.complete => discoveryComplete
  /\ ~cancelled => s.discovered <= filesDiscovered

Final(s) ==
  /\ s.discovered = Cardinality(Files) /\ s.scanned = Cardinality(Files)
  /\ s.complete

FeedTypes ==
  /\ stage \in [Callers -> 0 .. 4]
  /\ snapshot \in [Callers -> Snapshots] /\ shown \in Snapshots

AllHappened ==
  Happened(shown) /\ \A c \in Callers : Happened(snapshot[c])

\* The collector's last notification begins when nothing changes any more: what
\* it has loaded is final, and so is the display once it has delivered that.
LastNotification ==
  collector = "report" /\ ~cancelled =>
    LET stage_ == stage["collector"]
        last == snapshot["collector"]
    IN  /\ stage_ >= 2 => last.discovered = Cardinality(Files)
        /\ stage_ >= 3 => last.scanned = Cardinality(Files)
        /\ stage_ >= 4 => last.complete
        /\ stage_ = 0 => Final(shown)

FeedInv == IInv /\ FeedTypes /\ AllHappened /\ LastNotification

\* What has happened has still happened after any step of the pipeline.
LEMMA HappenedStays ==
  ASSUME IInv, [Next]_vars, NEW s \in Snapshots, Happened(s)
  PROVE  /\ s.scanned <= filesScanned'
         /\ s.complete => discoveryComplete'
         /\ ~cancelled' => s.discovered <= filesDiscovered'
<1>1. /\ s.scanned \in Nat /\ s.discovered \in Nat
      /\ filesScanned \in Nat /\ filesDiscovered \in Nat
  BY DEF Snapshots, IInv, TypeOK
<1>2. /\ filesScanned' \in Nat /\ filesDiscovered' \in Nat
      /\ filesScanned' >= filesScanned
      /\ discoveryComplete => discoveryComplete'
      /\ cancelled => cancelled'
      /\ ~cancelled' => filesDiscovered' >= filesDiscovered
  BY CountersGrow
<1>3. s.complete => discoveryComplete'
  BY <1>2, Zenon DEF Happened
<1>4. s.scanned <= filesScanned'
  BY <1>1, <1>2 DEF Happened
<1>5. ~cancelled' => s.discovered <= filesDiscovered'
  <2> SUFFICES ASSUME ~cancelled' PROVE s.discovered <= filesDiscovered'
    OBVIOUS
  <2>1. ~cancelled
    BY <1>2
  <2> QED
    BY <1>1, <1>2, <2>1 DEF Happened
<1> QED
  BY <1>3, <1>4, <1>5

\* A merge holds the larger of both numbers.
LEMMA MergeFacts ==
  ASSUME NEW old \in Snapshots, NEW new \in Snapshots
  PROVE  /\ Merge(old, new) \in Snapshots
         /\ Merge(old, new).discovered \in {old.discovered, new.discovered}
         /\ Merge(old, new).scanned \in {old.scanned, new.scanned}
         /\ Merge(old, new).discovered >= old.discovered
         /\ Merge(old, new).discovered >= new.discovered
         /\ Merge(old, new).scanned >= old.scanned
         /\ Merge(old, new).scanned >= new.scanned
         /\ Merge(old, new).complete <=> old.complete \/ new.complete
<1>1. /\ old.discovered \in Nat /\ new.discovered \in Nat
      /\ old.scanned \in Nat /\ new.scanned \in Nat
  BY DEF Snapshots
<1>2. \A a, b \in Nat :
        Max2(a, b) \in {a, b} /\ Max2(a, b) >= a /\ Max2(a, b) >= b /\ Max2(a, b) \in Nat
  BY DEF Max2
<1>3. /\ Merge(old, new).discovered = Max2(old.discovered, new.discovered)
      /\ Merge(old, new).scanned = Max2(old.scanned, new.scanned)
  BY DEF Merge
<1>4. (old.complete \/ new.complete) \in BOOLEAN
  BY Zenon
<1>5. Merge(old, new) \in Snapshots
  BY <1>1, <1>2, <1>4 DEF Merge, Snapshots
<1>6. /\ Merge(old, new).discovered \in {old.discovered, new.discovered}
      /\ Merge(old, new).scanned \in {old.scanned, new.scanned}
      /\ Merge(old, new).discovered >= old.discovered
      /\ Merge(old, new).discovered >= new.discovered
      /\ Merge(old, new).scanned >= old.scanned
      /\ Merge(old, new).scanned >= new.scanned
  BY <1>1, <1>2, <1>3
<1>7. Merge(old, new).complete <=> old.complete \/ new.complete
  BY DEF Merge
<1> QED
  BY <1>5, <1>6, <1>7

\* The display is empty at first, and every counter is zero.
LEMMA InitFeed == FeedInit => FeedInv
<1> SUFFICES ASSUME FeedInit PROVE FeedInv
  OBVIOUS
<1>1. IInv
  BY InitEstablishesIInv DEF FeedInit
<1>2. NoProgress \in Snapshots
  BY DEF NoProgress, Snapshots
<1>3. FeedTypes
  BY <1>2 DEF FeedInit, FeedTypes
<1>4. Happened(NoProgress)
  <2>1. filesScanned = 0 /\ filesDiscovered = 0
    BY DEF FeedInit, Init
  <2> QED
    BY <2>1 DEF Happened, NoProgress
<1>5. AllHappened
  BY <1>4 DEF FeedInit, AllHappened
<1>6. LastNotification
  BY DEF FeedInit, Init, LastNotification
<1> QED
  BY <1>1, <1>3, <1>5, <1>6 DEF FeedInv

\* A step of the pipeline with or without a call of notifyProgress: whoever was
\* outside may have come in, and nothing has been loaded.
PipelineStep ==
  /\ UNCHANGED <<snapshot, shown>>
  /\ stage' \in [Callers -> 0 .. 4]
  /\ \A c \in Callers : stage'[c] = stage[c] \/ (stage[c] = 0 /\ stage'[c] = 1)
  /\ collector' = "report" =>
       \/ collector = "report" /\ stage'["collector"] = stage["collector"]
       \/ stage'["collector"] = 1

\* The steps of the feed that are not of notifyProgress have that form.
LEMMA PipelineStepForm ==
  ASSUME FeedTypes,
         \/ FeedVisitFile \/ FeedEndWalk \/ FeedDiscovery
         \/ \E w \in Workers : FeedWorker(w) \/ FeedArchiveEntry(w)
         \/ FeedOutcome \/ FeedReturnReport \/ FeedCollector \/ FeedOther
  PROVE  PipelineStep
<1>1. "discovery" \in Callers /\ "collector" \in Callers /\ Workers \subseteq Callers
  BY DEF Callers
<1>2. ASSUME NEW c \in Callers, NEW told \in BOOLEAN, NotifyIf(c, told)
      PROVE  /\ UNCHANGED <<snapshot, shown>>
             /\ stage' \in [Callers -> 0 .. 4]
             /\ \A d \in Callers : stage'[d] = stage[d] \/ (stage[d] = 0 /\ stage'[d] = 1)
             /\ c # "collector" => stage'["collector"] = stage["collector"]
             /\ told => stage'[c] = 1
  BY <1>1, <1>2 DEF NotifyIf, Outside, FeedTypes
<1>3. CASE FeedVisitFile
  <2>1. collector' = collector
    BY <1>3 DEF FeedVisitFile, VisitFile, collectorVars
  <2>2. PICK told \in BOOLEAN : NotifyIf("discovery", told)
    BY <1>3 DEF FeedVisitFile
  <2> QED
    BY <1>1, <1>2, <2>1, <2>2 DEF PipelineStep
<1>4. CASE FeedEndWalk \/ FeedDiscovery
  <2>1. collector' = collector
    BY <1>4 DEF FeedEndWalk, FeedDiscovery, EndWalk, SendPath, AbandonPath,
                VisitError, AbandonError, CloseJobs, collectorVars
  <2>2. PICK told \in BOOLEAN : NotifyIf("discovery", told)
    BY <1>4 DEF FeedEndWalk, FeedDiscovery
  <2> QED
    BY <1>1, <1>2, <2>1, <2>2 DEF PipelineStep
<1>5. CASE \E w \in Workers : FeedWorker(w) \/ FeedArchiveEntry(w)
  <2>1. PICK w \in Workers : FeedWorker(w) \/ FeedArchiveEntry(w)
    BY <1>5
  <2>2. collector' = collector
    BY <2>1 DEF FeedWorker, FeedArchiveEntry, TakeJob, WorkerDrained, WorkerCancelled,
                collectorVars, vars
  <2>3. PICK told \in BOOLEAN : NotifyIf(w, told)
    BY <2>1 DEF FeedWorker, FeedArchiveEntry
  <2> QED
    BY <1>1, <1>2, <2>2, <2>3 DEF PipelineStep
<1>6. CASE FeedOutcome
  <2>1. collector' = "callbacks" /\ NotifyIf("collector", TRUE)
    BY <1>6 DEF FeedOutcome, ReportError, SendOutcome
  <2> QED
    BY <1>1, <1>2, <2>1 DEF PipelineStep
<1>7. CASE FeedReturnReport
  BY <1>1, <1>2, <1>7 DEF FeedReturnReport, PipelineStep
<1>8. CASE FeedCollector
  <2>1. collector' # "report" /\ NotifyIf("collector", FALSE)
    BY <1>8 DEF FeedCollector, FinishCallbacks, ReturnCancelled
  <2> QED
    BY <1>1, <1>2, <2>1 DEF PipelineStep
<1>9. CASE FeedOther
  BY <1>1, <1>9 DEF FeedOther, CloseOutcomes, Cancel, SendOnClosed, collectorVars,
                    PipelineStep, FeedTypes
<1> QED
  BY <1>3, <1>4, <1>5, <1>6, <1>7, <1>8, <1>9

\* Such a step keeps the invariant: it loads nothing, and nothing of what was
\* loaded is undone by it.
LEMMA PipelineStepInv ==
  ASSUME FeedInv, [Next]_vars, PipelineStep
  PROVE  FeedInv'
<1>1. IInv /\ IInv' /\ FeedTypes
  BY NextPreservesIInv DEF FeedInv
<1>2. FeedTypes'
  BY <1>1 DEF FeedTypes, PipelineStep
<1>3. AllHappened'
  <2>1. \A c \in Callers : snapshot[c] \in Snapshots /\ Happened(snapshot[c])
    BY <1>1 DEF FeedInv, FeedTypes, AllHappened
  <2>2. shown \in Snapshots /\ Happened(shown)
    BY <1>1 DEF FeedInv, FeedTypes, AllHappened
  <2>3. snapshot' = snapshot /\ shown' = shown
    BY DEF PipelineStep
  <2>4. ASSUME NEW s \in Snapshots, Happened(s)
        PROVE  /\ s.scanned <= filesScanned'
               /\ s.complete => discoveryComplete'
               /\ ~cancelled' => s.discovered <= filesDiscovered'
    BY <1>1, <2>4, HappenedStays
  <2> QED
    BY <2>1, <2>2, <2>3, <2>4, Zenon DEF AllHappened, Happened
<1>4. LastNotification'
  <2> SUFFICES ASSUME collector' = "report", ~cancelled' PROVE LastNotification'
    BY DEF LastNotification
  <2>1. ~cancelled
    BY <1>1, CountersGrow
  <2>2. CASE collector = "report" /\ stage'["collector"] = stage["collector"]
    BY <2>1, <2>2 DEF FeedInv, LastNotification, PipelineStep, Final
  <2>3. CASE stage'["collector"] = 1
    BY <2>3 DEF LastNotification
  <2> QED
    BY <2>2, <2>3 DEF PipelineStep
<1> QED
  BY <1>1, <1>2, <1>3, <1>4 DEF FeedInv

-----------------------------------------------------------------------------
(* The loads and the callback.                                             *)

\* Of a caller alone, with the pipeline where it was.
LEMMA NotifyStepInv ==
  ASSUME FeedInv, NEW c \in Callers, NotifyStep(c)
  PROVE  FeedInv'
<1>1. /\ UNCHANGED vars
      /\ stage \in [Callers -> 0 .. 4] /\ snapshot \in [Callers -> Snapshots]
      /\ shown \in Snapshots /\ snapshot[c] \in Snapshots /\ IInv
      /\ \A d \in Callers : Happened(snapshot[d])
      /\ Happened(shown)
  BY DEF NotifyStep, LoadDiscovered, LoadScanned, LoadComplete, Update, FeedInv,
         FeedTypes, AllHappened
<1>2. /\ UNCHANGED <<filesScanned, filesDiscovered, discoveryComplete, cancelled, collector>>
      /\ IInv'
  <2>1. [Next]_vars
    BY <1>1
  <2> QED
    BY <1>1, <2>1, NextPreservesIInv DEF vars, discoveryVars, collectorVars
<1>3. /\ filesScanned \in Nat /\ filesDiscovered \in Nat /\ discoveryComplete \in BOOLEAN
  BY <1>1 DEF IInv, TypeOK
<1>4. /\ "collector" \in Callers /\ stage[c] \in 0 .. 4
      /\ Happened(shown) /\ Happened(snapshot[c])
  BY <1>1 DEF Callers
<1>5. collector = "report" /\ ~cancelled =>
        /\ filesDiscovered = Cardinality(Files)
        /\ filesScanned = Cardinality(Files)
        /\ discoveryComplete
  BY <1>1, FinalCounters
\* A load: it happened, and at the end it is final.
<1>6. ASSUME NEW s \in Snapshots, Happened(s), stage[c] # 0, stage[c] # 4,
             stage' = [stage EXCEPT ![c] = stage[c] + 1],
             snapshot' = [snapshot EXCEPT ![c] = s], shown' = shown,
             stage[c] = 1 => s.discovered = filesDiscovered,
             stage[c] # 1 => s.discovered = snapshot[c].discovered,
             stage[c] = 2 => s.scanned = filesScanned,
             stage[c] = 3 => s.scanned = snapshot[c].scanned /\ (s.complete <=> discoveryComplete)
      PROVE  FeedInv'
  <2>1. FeedTypes'
    BY <1>1, <1>4, <1>6 DEF FeedTypes
  <2>2. AllHappened'
    <3>1. \A d \in Callers : snapshot'[d] \in {snapshot[d], s}
      BY <1>1, <1>6
    <3> QED
      BY <1>1, <1>2, <1>6, <3>1 DEF AllHappened, Happened
  <2>3. LastNotification'
    <3> SUFFICES ASSUME collector = "report", ~cancelled PROVE LastNotification'
      BY <1>2 DEF LastNotification
    <3>1. CASE c # "collector"
      <4>1. stage'["collector"] = stage["collector"]
            /\ snapshot'["collector"] = snapshot["collector"]
        BY <1>1, <1>4, <1>6, <3>1
      <4> QED
        BY <1>2, <1>6, <4>1 DEF FeedInv, LastNotification, Final
    <3>2. CASE c = "collector"
      <4>1. stage'["collector"] = stage[c] + 1 /\ snapshot'["collector"] = s
        BY <1>1, <1>4, <1>6, <3>2
      <4>2. /\ stage[c] >= 2 => snapshot[c].discovered = Cardinality(Files)
            /\ stage[c] >= 3 => snapshot[c].scanned = Cardinality(Files)
        BY <3>2 DEF FeedInv, LastNotification
      <4>3. /\ stage[c] >= 1 => s.discovered = Cardinality(Files)
            /\ stage[c] >= 2 => s.scanned = Cardinality(Files)
            /\ stage[c] >= 3 => s.complete
        BY <1>4, <1>5, <1>6, <4>2
      <4>4. /\ stage[c] + 1 >= 2 => s.discovered = Cardinality(Files)
            /\ stage[c] + 1 >= 3 => s.scanned = Cardinality(Files)
            /\ stage[c] + 1 >= 4 => s.complete
            /\ stage[c] + 1 # 0
        BY <1>4, <4>3
      <4> QED
        BY <4>1, <4>4 DEF LastNotification
    <3> QED
      BY <3>1, <3>2
  <2> QED
    BY <1>2, <2>1, <2>2, <2>3 DEF FeedInv
<1>7. CASE LoadDiscovered(c)
  <2> DEFINE s == [snapshot[c] EXCEPT !.discovered = filesDiscovered]
  <2>1. s \in Snapshots /\ s.discovered = filesDiscovered
        /\ s.scanned = snapshot[c].scanned /\ s.complete = snapshot[c].complete
    BY <1>1, <1>3 DEF Snapshots
  <2>2. snapshot' = [snapshot EXCEPT ![c] = s] /\ stage' = [stage EXCEPT ![c] = stage[c] + 1]
        /\ stage[c] = 1 /\ shown' = shown
    BY <1>7 DEF LoadDiscovered
  <2> HIDE DEF s
  <2>3. Happened(s)
    BY <1>3, <1>4, <2>1 DEF Happened
  <2>4. /\ s \in Snapshots /\ stage[c] # 0 /\ stage[c] # 4
        /\ stage[c] = 1 => s.discovered = filesDiscovered
        /\ stage[c] # 1 => s.discovered = snapshot[c].discovered
        /\ stage[c] = 2 => s.scanned = filesScanned
        /\ stage[c] = 3 =>
             s.scanned = snapshot[c].scanned /\ (s.complete <=> discoveryComplete)
    BY <2>1, <2>2
  <2> QED
    BY <1>6, <2>2, <2>3, <2>4
<1>8. CASE LoadScanned(c)
  <2> DEFINE s == [snapshot[c] EXCEPT !.scanned = filesScanned]
  <2>1. s \in Snapshots /\ s.scanned = filesScanned
        /\ s.discovered = snapshot[c].discovered /\ s.complete = snapshot[c].complete
    BY <1>1, <1>3 DEF Snapshots
  <2>2. snapshot' = [snapshot EXCEPT ![c] = s] /\ stage' = [stage EXCEPT ![c] = stage[c] + 1]
        /\ stage[c] = 2 /\ shown' = shown
    BY <1>8 DEF LoadScanned
  <2> HIDE DEF s
  <2>3. Happened(s)
    BY <1>3, <1>4, <2>1 DEF Happened
  <2>4. /\ s \in Snapshots /\ stage[c] # 0 /\ stage[c] # 4
        /\ stage[c] = 1 => s.discovered = filesDiscovered
        /\ stage[c] # 1 => s.discovered = snapshot[c].discovered
        /\ stage[c] = 2 => s.scanned = filesScanned
        /\ stage[c] = 3 =>
             s.scanned = snapshot[c].scanned /\ (s.complete <=> discoveryComplete)
    BY <2>1, <2>2
  <2> QED
    BY <1>6, <2>2, <2>3, <2>4
<1>9. CASE LoadComplete(c)
  <2> DEFINE s == [snapshot[c] EXCEPT !.complete = discoveryComplete]
  <2>1. s \in Snapshots /\ s.complete = discoveryComplete
        /\ s.discovered = snapshot[c].discovered /\ s.scanned = snapshot[c].scanned
    BY <1>1, <1>3 DEF Snapshots
  <2>2. snapshot' = [snapshot EXCEPT ![c] = s] /\ stage' = [stage EXCEPT ![c] = stage[c] + 1]
        /\ stage[c] = 3 /\ shown' = shown
    BY <1>9 DEF LoadComplete
  <2> HIDE DEF s
  <2>3. Happened(s)
    BY <1>3, <1>4, <2>1 DEF Happened
  <2>4. /\ s \in Snapshots /\ stage[c] # 0 /\ stage[c] # 4
        /\ stage[c] = 1 => s.discovered = filesDiscovered
        /\ stage[c] # 1 => s.discovered = snapshot[c].discovered
        /\ stage[c] = 2 => s.scanned = filesScanned
        /\ stage[c] = 3 =>
             s.scanned = snapshot[c].scanned /\ (s.complete <=> discoveryComplete)
    BY <2>1, <2>2
  <2> QED
    BY <1>6, <2>2, <2>3, <2>4
<1>10. CASE Update(c)
  <2> DEFINE merged == Merge(shown, snapshot[c])
  <2>1. /\ stage[c] = 4 /\ shown' = merged
        /\ stage' = [stage EXCEPT ![c] = 0]
        /\ snapshot' = [snapshot EXCEPT ![c] = NoProgress]
    BY <1>10 DEF Update
  <2>2. /\ merged \in Snapshots
        /\ merged.discovered \in {shown.discovered, snapshot[c].discovered}
        /\ merged.scanned \in {shown.scanned, snapshot[c].scanned}
        /\ merged.discovered >= shown.discovered
        /\ merged.discovered >= snapshot[c].discovered
        /\ merged.scanned >= shown.scanned
        /\ merged.scanned >= snapshot[c].scanned
        /\ merged.complete <=> shown.complete \/ snapshot[c].complete
    BY <1>1, MergeFacts
  <2> HIDE DEF merged
  <2>3. Happened(merged)
    BY <1>4, <2>2 DEF Happened
  <2>4. NoProgress \in Snapshots /\ Happened(NoProgress)
    BY <1>3 DEF NoProgress, Snapshots, Happened
  <2>5. FeedTypes'
    BY <1>1, <2>1, <2>2, <2>4 DEF FeedTypes
  <2>6. AllHappened'
    <3>1. \A d \in Callers : snapshot'[d] \in {snapshot[d], NoProgress}
      BY <1>1, <2>1
    <3> QED
      BY <1>1, <1>2, <2>1, <2>3, <2>4, <3>1 DEF AllHappened, Happened
  <2>7. LastNotification'
    <3> SUFFICES ASSUME collector = "report", ~cancelled PROVE LastNotification'
      BY <1>2 DEF LastNotification
    <3>1. /\ merged.discovered <= Cardinality(Files)
          /\ merged.scanned <= Cardinality(Files)
      BY <1>5, <2>3 DEF Happened
    <3>2. /\ Cardinality(Files) \in Nat /\ merged.discovered \in Nat
          /\ merged.scanned \in Nat
      BY <1>3, <1>5, <2>2 DEF Snapshots
    <3>3. CASE c # "collector"
      <4>1. stage'["collector"] = stage["collector"]
            /\ snapshot'["collector"] = snapshot["collector"]
        BY <1>1, <1>4, <2>1, <3>3
      <4>2. Final(shown) => Final(merged)
        BY <2>2, <3>1, <3>2 DEF Final
      <4>3. /\ stage["collector"] >= 2 =>
                 snapshot["collector"].discovered = Cardinality(Files)
            /\ stage["collector"] >= 3 =>
                 snapshot["collector"].scanned = Cardinality(Files)
            /\ stage["collector"] >= 4 => snapshot["collector"].complete
            /\ stage["collector"] = 0 => Final(merged)
        BY <4>2 DEF FeedInv, LastNotification
      <4> QED
        BY <2>1, <4>1, <4>3 DEF LastNotification, Final
    <3>4. CASE c = "collector"
      <4>1. stage'["collector"] = 0
        BY <1>1, <1>4, <2>1, <3>4
      <4>2. /\ snapshot[c].discovered = Cardinality(Files)
            /\ snapshot[c].scanned = Cardinality(Files)
            /\ snapshot[c].complete
        BY <2>1, <3>4 DEF FeedInv, LastNotification
      <4>3. Final(merged)
        BY <2>2, <3>1, <3>2, <4>2 DEF Final
      <4> QED
        BY <2>1, <4>1, <4>3 DEF LastNotification, Final
    <3> QED
      BY <3>3, <3>4
  <2> QED
    BY <1>2, <2>5, <2>6, <2>7 DEF FeedInv
<1> QED
  BY <1>7, <1>8, <1>9, <1>10 DEF NotifyStep

-----------------------------------------------------------------------------
(* The theorems.                                                           *)

\* Every step keeps the invariant.
LEMMA FeedStepInv == FeedInv /\ [FeedNext]_feedVars => FeedInv'
<1> SUFFICES ASSUME FeedInv, [FeedNext]_feedVars PROVE FeedInv'
  OBVIOUS
<1>1. [Next]_vars
  BY FeedStepIsPipelineStep
<1>2. CASE UNCHANGED feedVars \/ FeedFinished
  <2>1. UNCHANGED <<stage, snapshot, shown, collector>>
    BY <1>2 DEF feedVars, FeedFinished, vars, collectorVars
  <2>2. PipelineStep
    BY <2>1 DEF PipelineStep, FeedInv, FeedTypes
  <2> QED
    BY <1>1, <2>2, PipelineStepInv
<1>3. CASE \E c \in Callers : NotifyStep(c)
  BY <1>3, NotifyStepInv
<1>4. CASE \/ FeedVisitFile \/ FeedEndWalk \/ FeedDiscovery
           \/ \E w \in Workers : FeedWorker(w) \/ FeedArchiveEntry(w)
           \/ FeedOutcome \/ FeedReturnReport \/ FeedCollector \/ FeedOther
  <2>1. PipelineStep
    BY <1>4, PipelineStepForm DEF FeedInv
  <2> QED
    BY <1>1, <2>1, PipelineStepInv
<1> QED
  BY <1>2, <1>3, <1>4 DEF FeedNext

\* The invariant of the feed holds in every state of a scan.
THEOREM FeedInvariance == FeedSpec => []FeedInv
BY InitFeed, FeedStepInv, PTL DEF FeedSpec

\* The status line never runs ahead of the scan: numbers loaded one after the
\* other while goroutines count on are each no larger than the count.
THEOREM ShownIsTrue == FeedSpec => []ShownHasHappened
<1>1. FeedInv => ShownHasHappened
  BY DEF FeedInv, AllHappened, Happened, ShownHasHappened
<1> QED
  BY <1>1, FeedInvariance, PTL

\* The summary is exact: the collector's last notification, after the last
\* outcome, carries the final numbers, and no late snapshot can displace them.
THEOREM FinalDisplay == FeedSpec => []FinalDisplayExact
<1>1. FeedInv => FinalDisplayExact
  <2> SUFFICES ASSUME FeedInv, collector = "report", stage["collector"] = 0, ~cancelled
               PROVE  shown = [discovered |-> Cardinality(Files),
                               scanned |-> Cardinality(Files), complete |-> TRUE]
    BY DEF FinalDisplayExact, Outside
  <2>1. Final(shown)
    BY DEF FeedInv, LastNotification
  <2>2. shown \in Snapshots
    BY DEF FeedInv, FeedTypes
  <2> QED
    BY <2>1, <2>2 DEF Final, Snapshots
<1> QED
  BY <1>1, FeedInvariance, PTL

\* A late snapshot never takes a number back: Update merges by the larger number.
THEOREM DisplayNeverRegresses == FeedSpec => ShownNeverRegresses
<1>1. FeedInv /\ [FeedNext]_feedVars =>
        [/\ shown'.discovered >= shown.discovered
         /\ shown'.scanned >= shown.scanned
         /\ shown.complete => shown'.complete]_feedVars
  <2> SUFFICES ASSUME FeedInv, FeedNext
               PROVE  /\ shown'.discovered >= shown.discovered
                      /\ shown'.scanned >= shown.scanned
                      /\ shown.complete => shown'.complete
    BY DEF feedVars
  <2>1. shown \in Snapshots /\ snapshot \in [Callers -> Snapshots]
    BY DEF FeedInv, FeedTypes
  <2>2. CASE shown' = shown
    BY <2>1, <2>2 DEF Snapshots
  <2>3. ASSUME NEW c \in Callers, Update(c)
        PROVE  /\ shown'.discovered >= shown.discovered
               /\ shown'.scanned >= shown.scanned
               /\ shown.complete => shown'.complete
    BY <2>1, <2>3, MergeFacts DEF Update
  <2>4. shown' = shown \/ \E c \in Callers : Update(c)
    <3>1. CASE \E c \in Callers : NotifyStep(c)
      BY <3>1 DEF NotifyStep, LoadDiscovered, LoadScanned, LoadComplete
    <3>2. CASE \/ FeedVisitFile \/ FeedEndWalk \/ FeedDiscovery
               \/ \E w \in Workers : FeedWorker(w) \/ FeedArchiveEntry(w)
               \/ FeedOutcome \/ FeedReturnReport \/ FeedCollector \/ FeedOther
      BY <3>2, PipelineStepForm DEF FeedInv, PipelineStep
    <3>3. CASE FeedFinished
      BY <3>3 DEF FeedFinished, feedVars
    <3> QED
      BY <3>1, <3>2, <3>3 DEF FeedNext
  <2> QED
    BY <2>2, <2>3, <2>4
<1> QED
  BY <1>1, FeedInvariance, PTL DEF FeedSpec, ShownNeverRegresses
=============================================================================
