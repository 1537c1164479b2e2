---------------------------- MODULE ScanPipeline ----------------------------
(***************************************************************************)
(* The concurrent pipeline of scanner.Scan (internal/scanner/scanner.go):  *)
(* one discovery goroutine walks the tree and queues regular files on the  *)
(* buffered channel jobs; Workers goroutines scan files and hand each      *)
(* outcome over the unbuffered channel outcomes; a closer goroutine closes *)
(* outcomes when every worker has returned; the calling goroutine collects *)
(* outcomes, runs the callbacks and returns.  The context may end at any   *)
(* moment before Scan returns.                                             *)
(*                                                                         *)
(* The walk is the sequence 1..WalkLen of the visits that have an effect:  *)
(* a regular file that passes the filters, or a path that cannot be read   *)
(* (ErrorVisits).  Skipped entries are left out: they only test the        *)
(* context, which every visit here does too.                               *)
(***************************************************************************)
EXTENDS Naturals, Sequences, FiniteSets, Functions

CONSTANTS
  WalkLen,            \* number of visits of the walk that have an effect
  ErrorVisits,        \* visits that end in walker.reportError
  BadFiles,           \* files whose scan outcome carries an error
  RootIsFile,         \* the scan root is a regular file, not a directory
  Workers,            \* options.Workers, one goroutine each
  JobsCap             \* capacity of the jobs channel (1024 in the source)

Visits == 1..WalkLen
Files == Visits \ ErrorVisits

\* A regular-file root is one visit of the tree, or none when it is filtered
\* out, and never a traversal error: it was inspected before the goroutines.
ASSUME PipelineAssumption ==
  /\ WalkLen \in Nat
  /\ ErrorVisits \subseteq Visits
  /\ BadFiles \subseteq Files
  /\ RootIsFile \in BOOLEAN
  /\ RootIsFile => WalkLen <= 1 /\ ErrorVisits = {}
  /\ JobsCap \in Nat \ {0}

\* options.Workers is replaced by a positive default when it is zero.
ASSUME WorkersAssumption == IsFiniteSet(Workers) /\ Workers # {}

NoJob == 0            \* what an idle worker holds

VARIABLES
  cancelled,          \* ctx.Done is closed
  jobs,               \* paths in the jobs channel, oldest first
  jobsClosed,
  outcomesClosed,
  pos,                \* the next visit of the walk
  dpc,                \* where the discovery goroutine is
  wpc,                \* where each worker is
  wjob,               \* the file each worker is scanning
  collector,          \* where the goroutine that called Scan is
  collected,          \* how many outcomes of each visit were collected
  filesDiscovered,    \* progressCounters.filesDiscovered
  filesScanned,       \* progressCounters.filesScanned
  scanErrors,         \* progressCounters.scanErrors
  discoveryComplete,  \* progressCounters.discoveryComplete
  panicked            \* a goroutine sent on a closed channel

discoveryVars == <<pos, dpc, jobsClosed, filesDiscovered, discoveryComplete>>
workerVars == <<wpc, wjob>>
collectorVars == <<collector, collected, filesScanned, scanErrors>>
vars == <<cancelled, jobs, outcomesClosed, panicked,
          discoveryVars, workerVars, collectorVars>>

Init ==
  /\ cancelled = FALSE
  /\ jobs = <<>>
  /\ jobsClosed = FALSE
  /\ outcomesClosed = FALSE
  /\ pos = 1
  /\ dpc = "visit"
  /\ wpc = [w \in Workers |-> "idle"]
  /\ wjob = [w \in Workers |-> NoJob]
  /\ collector = "select"
  /\ collected = [i \in Visits |-> 0]
  /\ filesDiscovered = 0
  /\ filesScanned = 0
  /\ scanErrors = 0
  /\ discoveryComplete = FALSE
  /\ panicked = FALSE

Returned == collector \in {"report", "error"}

\* A panic ends the process, with every goroutine where it was.
DiscoveryAt(place) == ~panicked /\ dpc = place
WorkerAt(w, place) == ~panicked /\ wpc[w] = place
CollectorAt(place) == ~panicked /\ collector = place

-----------------------------------------------------------------------------
(* Slips one could make in this code.  They belong to no specification:    *)
(* each takes the place of the action it is named after to show that a     *)
(* property below notices it.                                              *)

\* filesDiscovered.Add(1) forgotten in queuePath.
UncountedVisitFile ==
  /\ DiscoveryAt("visit") /\ pos \in Files /\ (RootIsFile \/ ~cancelled)
  /\ dpc' = "sending"
  /\ UNCHANGED <<cancelled, jobs, outcomesClosed, panicked, pos, jobsClosed,
                 filesDiscovered, discoveryComplete, workerVars, collectorVars>>

\* discoveryComplete announced when the last file is found, not queued.
EagerVisitFile ==
  /\ DiscoveryAt("visit") /\ pos \in Files /\ (RootIsFile \/ ~cancelled)
  /\ filesDiscovered' = filesDiscovered + 1
  /\ discoveryComplete' = (pos = WalkLen)
  /\ dpc' = "sending"
  /\ UNCHANGED <<cancelled, jobs, outcomesClosed, panicked, pos, jobsClosed,
                 workerVars, collectorVars>>

\* sendPath with a default case: a full channel drops the path.
DroppingSendPath ==
  /\ DiscoveryAt("sending")
  /\ jobs' = IF Len(jobs) < JobsCap THEN Append(jobs, pos) ELSE jobs
  /\ pos' = pos + 1
  /\ dpc' = "visit"
  /\ UNCHANGED <<cancelled, outcomesClosed, panicked, jobsClosed,
                 filesDiscovered, discoveryComplete, workerVars, collectorVars>>

\* filesDiscovered.Add(-1) forgotten in queuePath.
CountKeptAbandonPath ==
  /\ DiscoveryAt("sending")
  /\ cancelled
  /\ dpc' = "stopped"
  /\ UNCHANGED <<cancelled, jobs, outcomesClosed, panicked, pos, jobsClosed,
                 filesDiscovered, discoveryComplete, workerVars, collectorVars>>

\* A path scanned without being taken from the queue.
PeekJob(w) ==
  /\ WorkerAt(w, "idle")
  /\ jobs # <<>>
  /\ wjob' = [wjob EXCEPT ![w] = Head(jobs)]
  /\ wpc' = [wpc EXCEPT ![w] = "busy"]
  /\ UNCHANGED <<cancelled, jobs, outcomesClosed, panicked, discoveryVars,
                 collectorVars>>

\* A worker that gives up when the queue is empty but not closed.
ImpatientWorkerDrained(w) ==
  /\ WorkerAt(w, "idle")
  /\ jobs = <<>>
  /\ wpc' = [wpc EXCEPT ![w] = "done"]
  /\ UNCHANGED <<cancelled, jobs, outcomesClosed, panicked, discoveryVars,
                 wjob, collectorVars>>

\* sendOutcome without its ctx.Done() case.
StubbornWorkerCancelled(w) ==
  /\ WorkerAt(w, "idle")
  /\ cancelled
  /\ wpc' = [wpc EXCEPT ![w] = "done"]
  /\ UNCHANGED <<cancelled, jobs, outcomesClosed, panicked, discoveryVars,
                 wjob, collectorVars>>

\* The first worker to return closes the channel.
EarlyCloseOutcomes ==
  /\ ~panicked /\ ~outcomesClosed
  /\ \E w \in Workers : wpc[w] = "done"
  /\ outcomesClosed' = TRUE
  /\ UNCHANGED <<cancelled, jobs, panicked, discoveryVars, workerVars,
                 collectorVars>>

-----------------------------------------------------------------------------
(* The discovery goroutine.                                                *)

\* ctx.Err() is tested before every visit of a tree, not before the single
\* visit of a regular-file root.
WalkMayContinue == pos \in Visits /\ (RootIsFile \/ ~cancelled)

\* A regular file: queuePath counts it before it tries to queue it.
VisitFile ==
  /\ DiscoveryAt("visit") /\ WalkMayContinue /\ pos \in Files
  /\ filesDiscovered' = filesDiscovered + 1
  /\ dpc' = "sending"
  /\ UNCHANGED <<cancelled, jobs, outcomesClosed, panicked, pos, jobsClosed,
                 discoveryComplete, workerVars, collectorVars>>

\* sendPath, jobs <- path: there is room in the channel.
SendPath ==
  /\ DiscoveryAt("sending")
  /\ Len(jobs) < JobsCap
  /\ jobs' = Append(jobs, pos)
  /\ pos' = pos + 1
  /\ dpc' = "visit"
  /\ UNCHANGED <<cancelled, outcomesClosed, panicked, jobsClosed,
                 filesDiscovered, discoveryComplete, workerVars, collectorVars>>

\* sendPath, <-ctx.Done(): queuePath takes the count back, the walk stops.
AbandonPath ==
  /\ DiscoveryAt("sending")
  /\ cancelled
  /\ filesDiscovered' = filesDiscovered - 1
  /\ dpc' = "stopped"
  /\ UNCHANGED <<cancelled, jobs, outcomesClosed, panicked, pos, jobsClosed,
                 discoveryComplete, workerVars, collectorVars>>

\* A path that cannot be read: the walker itself has an outcome to send.
VisitError ==
  /\ DiscoveryAt("visit") /\ WalkMayContinue /\ pos \in ErrorVisits
  /\ dpc' = "reporting"
  /\ UNCHANGED <<cancelled, jobs, outcomesClosed, panicked, pos, jobsClosed,
                 filesDiscovered, discoveryComplete, workerVars, collectorVars>>

\* reportError meets the collector in its select: an outcome that is not
\* scanned but carries an error.
ReportError ==
  /\ DiscoveryAt("reporting")
  /\ collector = "select" /\ ~outcomesClosed
  /\ collected' = [collected EXCEPT ![pos] = @ + 1]
  /\ scanErrors' = scanErrors + 1
  /\ collector' = "callbacks"
  /\ pos' = pos + 1
  /\ dpc' = "visit"
  /\ UNCHANGED <<cancelled, jobs, outcomesClosed, panicked, jobsClosed,
                 filesDiscovered, discoveryComplete, workerVars, filesScanned>>

\* reportError, <-ctx.Done(): the walk stops, or stops at its next test.
AbandonError ==
  /\ DiscoveryAt("reporting")
  /\ cancelled
  /\ dpc' = "stopped"
  /\ UNCHANGED <<cancelled, jobs, outcomesClosed, panicked, pos, jobsClosed,
                 filesDiscovered, discoveryComplete, workerVars, collectorVars>>

\* The walk returns and its end is announced, before close(jobs).
EndWalk ==
  /\ \/ DiscoveryAt("visit") /\ ~WalkMayContinue
     \/ DiscoveryAt("stopped")
  /\ discoveryComplete' = TRUE
  /\ dpc' = "closing"
  /\ UNCHANGED <<cancelled, jobs, outcomesClosed, panicked, pos, jobsClosed,
                 filesDiscovered, workerVars, collectorVars>>

\* defer close(jobs)
CloseJobs ==
  /\ DiscoveryAt("closing")
  /\ jobsClosed' = TRUE
  /\ dpc' = "done"
  /\ UNCHANGED <<cancelled, jobs, outcomesClosed, panicked, pos,
                 filesDiscovered, discoveryComplete, workerVars, collectorVars>>

DiscoveryStep ==
  \/ VisitFile \/ SendPath \/ AbandonPath
  \/ VisitError \/ ReportError \/ AbandonError
  \/ EndWalk \/ CloseJobs

-----------------------------------------------------------------------------
(* The workers.                                                            *)

\* path, ok := <-jobs with ok: the oldest path is received.
TakeJob(w) ==
  /\ WorkerAt(w, "idle")
  /\ jobs # <<>>
  /\ wjob' = [wjob EXCEPT ![w] = Head(jobs)]
  /\ wpc' = [wpc EXCEPT ![w] = "busy"]
  /\ jobs' = Tail(jobs)
  /\ UNCHANGED <<cancelled, outcomesClosed, panicked, discoveryVars,
                 collectorVars>>

\* path, ok := <-jobs without ok: the channel is closed and drained.
WorkerDrained(w) ==
  /\ WorkerAt(w, "idle")
  /\ jobsClosed /\ jobs = <<>>
  /\ wpc' = [wpc EXCEPT ![w] = "done"]
  /\ UNCHANGED <<cancelled, jobs, outcomesClosed, panicked, discoveryVars,
                 wjob, collectorVars>>

\* sendOutcome meets the collector in its select: a scanned file.
SendOutcome(w) ==
  /\ WorkerAt(w, "busy")
  /\ collector = "select" /\ ~outcomesClosed
  /\ collected' = [collected EXCEPT ![wjob[w]] = @ + 1]
  /\ filesScanned' = filesScanned + 1
  /\ scanErrors' = scanErrors + (IF wjob[w] \in BadFiles THEN 1 ELSE 0)
  /\ collector' = "callbacks"
  /\ wjob' = [wjob EXCEPT ![w] = NoJob]
  /\ wpc' = [wpc EXCEPT ![w] = "idle"]
  /\ UNCHANGED <<cancelled, jobs, outcomesClosed, panicked, discoveryVars>>

\* <-ctx.Done() in the worker's own select, or in sendOutcome, where the
\* outcome of the file is dropped.
WorkerCancelled(w) ==
  /\ WorkerAt(w, "idle") \/ WorkerAt(w, "busy")
  /\ cancelled
  /\ wjob' = [wjob EXCEPT ![w] = NoJob]
  /\ wpc' = [wpc EXCEPT ![w] = "done"]
  /\ UNCHANGED <<cancelled, jobs, outcomesClosed, panicked, discoveryVars,
                 collectorVars>>

WorkerStep(w) ==
  \/ TakeJob(w) \/ WorkerDrained(w) \/ SendOutcome(w) \/ WorkerCancelled(w)

-----------------------------------------------------------------------------
(* The closer goroutine and the collector.                                 *)

\* workerGroup.Wait(); close(outcomes)
CloseOutcomes ==
  /\ ~panicked /\ ~outcomesClosed
  /\ \A w \in Workers : wpc[w] = "done"
  /\ outcomesClosed' = TRUE
  /\ UNCHANGED <<cancelled, jobs, panicked, discoveryVars, workerVars,
                 collectorVars>>

\* The collector comes back to its select from OnCertificate and
\* OnPKCS12Encrypted.
FinishCallbacks ==
  /\ CollectorAt("callbacks")
  /\ collector' = "select"
  /\ UNCHANGED <<cancelled, jobs, outcomesClosed, panicked, discoveryVars,
                 workerVars, collected, filesScanned, scanErrors>>

\* result, ok := <-outcomes without ok: return report, nil.
ReturnReport ==
  /\ CollectorAt("select") /\ outcomesClosed
  /\ collector' = "report"
  /\ UNCHANGED <<cancelled, jobs, outcomesClosed, panicked, discoveryVars,
                 workerVars, collected, filesScanned, scanErrors>>

\* <-ctx.Done(): return Report{}, ctx.Err().
ReturnCancelled ==
  /\ CollectorAt("select") /\ cancelled
  /\ collector' = "error"
  /\ UNCHANGED <<cancelled, jobs, outcomesClosed, panicked, discoveryVars,
                 workerVars, collected, filesScanned, scanErrors>>

CollectorStep == FinishCallbacks \/ ReturnReport \/ ReturnCancelled

-----------------------------------------------------------------------------
(* The environment, and the end of everything.                             *)

\* A signal ends ctx, or a callback calls cancelScan.
Cancel ==
  /\ ~panicked /\ ~cancelled /\ ~Returned
  /\ cancelled' = TRUE
  /\ UNCHANGED <<jobs, outcomesClosed, panicked, discoveryVars, workerVars,
                 collectorVars>>

\* The goroutines that are in sendOutcome.
Senders ==
  {w \in Workers : wpc[w] = "busy"}
    \cup {d \in {"discovery"} : dpc = "reporting"}

\* A send on a closed channel is a ready case of its select, and panics.
SendOnClosed ==
  /\ ~panicked /\ outcomesClosed
  /\ Senders # {}
  /\ panicked' = TRUE
  /\ UNCHANGED <<cancelled, jobs, outcomesClosed, discoveryVars, workerVars,
                 collectorVars>>

AllDone ==
  /\ dpc = "done"
  /\ \A w \in Workers : wpc[w] = "done"
  /\ outcomesClosed
  /\ Returned

\* Not a step of the program: it lets TLC tell the end from a deadlock.
Finished ==
  /\ AllDone \/ panicked
  /\ UNCHANGED vars

Next ==
  \/ DiscoveryStep
  \/ \E w \in Workers : WorkerStep(w)
  \/ CloseOutcomes
  \/ CollectorStep
  \/ Cancel
  \/ SendOnClosed
  \/ Finished

Spec == Init /\ [][Next]_vars

\* Each goroutine that can run is eventually scheduled, and every file is
\* read in finite time.  Cancel has no fairness: nobody has to cancel.
Fairness ==
  /\ WF_vars(DiscoveryStep)
  /\ \A w \in Workers : WF_vars(WorkerStep(w))
  /\ WF_vars(CloseOutcomes)
  /\ WF_vars(CollectorStep)

FairSpec == Spec /\ Fairness

-----------------------------------------------------------------------------
(* Invariants.                                                             *)

TypeOK ==
  /\ cancelled \in BOOLEAN
  /\ jobs \in Seq(Files) /\ Len(jobs) <= JobsCap
  /\ jobsClosed \in BOOLEAN /\ outcomesClosed \in BOOLEAN
  /\ pos \in 1..(WalkLen + 1)
  /\ dpc \in {"visit", "sending", "reporting", "stopped", "closing", "done"}
  /\ wpc \in [Workers -> {"idle", "busy", "done"}]
  /\ wjob \in [Workers -> Files \cup {NoJob}]
  /\ collector \in {"select", "callbacks", "report", "error"}
  /\ collected \in [Visits -> Nat]
  /\ filesDiscovered \in Nat /\ filesScanned \in Nat /\ scanErrors \in Nat
  /\ discoveryComplete \in BOOLEAN
  /\ panicked \in BOOLEAN

Queued(i) == i \in Range(jobs)
HeldBy(w, i) == wpc[w] = "busy" /\ wjob[w] = i
Held(i) == \E w \in Workers : HeldBy(w, i)

\* A visited path is in at most one place, in the channel, with one worker or
\* with the collector, and there only once; a path the walk has not passed is
\* in none.  Nothing is scanned or reported twice, whatever the goroutines'
\* order and whenever the context ends.
EachPathInOnePlace ==
  /\ IsInjective(jobs)
  /\ \A v, w \in Workers : \A i \in Files :
       HeldBy(v, i) /\ HeldBy(w, i) => v = w
  /\ \A i \in Files : ~(Queued(i) /\ Held(i))
  /\ \A i \in Visits : collected[i] \in {0, 1}
  /\ \A i \in Visits : collected[i] = 1 => ~Queued(i) /\ ~Held(i)
  /\ \A i \in Visits :
       Queued(i) \/ Held(i) \/ collected[i] = 1 => i < pos

\* Until the context ends no path the walk has passed is lost on its way to
\* the collector.
NoPathLost ==
  ~cancelled => \A i \in 1..(pos - 1) :
                  collected[i] = 1 \/ Queued(i) \/ Held(i)

\* The order in which the goroutines end: the walk is over before its end is
\* announced and jobs is closed; without a cancellation it covered the tree,
\* and no worker returns before jobs is closed and drained; outcomes is closed
\* after all workers, and a report is returned only after that.
GoroutinesEndInOrder ==
  /\ jobsClosed <=> dpc = "done"
  /\ discoveryComplete <=> dpc \in {"closing", "done"}
  /\ dpc = "stopped" => cancelled
  /\ dpc = "sending" => pos \in Files
  /\ dpc = "reporting" => pos \in ErrorVisits
  /\ dpc \in {"closing", "done"} /\ ~cancelled => pos = WalkLen + 1
  /\ \A w \in Workers : wpc[w] = "busy" => wjob[w] \in Files
  /\ \A w \in Workers : wpc[w] = "done" /\ ~cancelled =>
                          jobsClosed /\ jobs = <<>>
  /\ outcomesClosed => \A w \in Workers : wpc[w] = "done"
  /\ collector = "report" => outcomesClosed
  /\ collector = "error" => cancelled
  /\ panicked => cancelled

\* The counters behind the status line agree with what the goroutines did at
\* every moment: a path that could not be queued is taken back, and only
\* worker outcomes count as scanned.
FilesBefore(p) == {i \in Files : i < p}
FilesCollected == {i \in Files : collected[i] = 1}
FailuresCollected == {i \in ErrorVisits \cup BadFiles : collected[i] = 1}

CountersExact ==
  /\ filesDiscovered =
       Cardinality(FilesBefore(pos)) + (IF dpc = "sending" THEN 1 ELSE 0)
  /\ filesScanned = Cardinality(FilesCollected)
  /\ scanErrors = Cardinality(FailuresCollected)

\* The inductive invariant of the proofs.
IInv ==
  TypeOK /\ EachPathInOnePlace /\ NoPathLost /\ GoroutinesEndInOrder
    /\ CountersExact

\* A scan that was not cancelled reports every file and every traversal error
\* of the walk: ReturnReport cannot overtake a worker or the walker.
ReportCompleteUnlessCancelled ==
  collector = "report" /\ ~cancelled => \A i \in Visits : collected[i] = 1

\* Only a cancellation can close outcomes while somebody still sends on it.
PanicOnlyIfCancelled == panicked => cancelled

\* A report returned without a cancellation leaves no goroutine behind, the
\* discovery goroutine included, which nobody waits for.
NoGoroutineLeft == collector = "report" /\ ~cancelled => AllDone

-----------------------------------------------------------------------------
(* Properties of steps and behaviours.                                     *)

\* Once discovery is announced complete, the number of discovered files is
\* final: the total shown beside "discovery complete" does not move.
DiscoveredFinal ==
  [][discoveryComplete => filesDiscovered' = filesDiscovered]_vars

\* Every call of Scan returns and every goroutine it started ends, with or
\* without a cancellation, unless the process panics first.
Termination == <>(AllDone \/ panicked)

\* What the caller sees of the pipeline is what ScanContract promises.
Contract == INSTANCE ScanContract WITH
  Items <- Visits,
  status <- IF Returned THEN collector ELSE "running"
ImplementsContract == Contract!ContractSpec

-----------------------------------------------------------------------------
(* What the documentation says of a scan, and the code does not keep.      *)

\* "0: scan completed without a monitored finding": the nil error that leads
\* to exit status 0 stands for a completed scan.
ReportIsComplete ==
  collector = "report" => \A i \in Visits : collected[i] = 1

\* "FileError is a non-fatal error encountered while scanning one path":
\* reporting one never brings the process down.
FileErrorsAreNotFatal == ~panicked
=============================================================================
