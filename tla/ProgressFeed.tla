---------------------------- MODULE ProgressFeed ----------------------------
(***************************************************************************)
(* The progress notifications of a scan: ScanPipeline with notifyProgress  *)
(* (scanner.go) called where the goroutines call it, and the display's     *)
(* Update (progress.go) at the receiving end.                              *)
(*                                                                         *)
(* notifyProgress loads ten atomic counters one after the other while the  *)
(* other goroutines keep adding to them, then calls Update, which merges   *)
(* the snapshot into what is shown under the display's mutex.  Three       *)
(* counters stand for the ten, in the order in which they are loaded: the  *)
(* first, FilesDiscovered; FilesScanned for those between; and the last,   *)
(* DiscoveryComplete.                                                      *)
(***************************************************************************)
EXTENDS ScanPipeline

CONSTANT NotifyEvery  \* queuePath notifies at multiples of it (100)

ASSUME FeedAssumption == NotifyEvery \in Nat \ {0}

\* The goroutines that call notifyProgress.
Callers == Workers \cup {"discovery", "collector"}

VARIABLES
  stage,              \* how far each caller is: 0 outside notifyProgress,
                      \* 1..3 before its loads, 4 before the callback
  snapshot,           \* what each caller has loaded
  shown               \* display.progress

feedVars == <<vars, stage, snapshot, shown>>

NoProgress == [discovered |-> 0, scanned |-> 0, complete |-> FALSE]

FeedInit ==
  /\ Init
  /\ stage = [c \in Callers |-> 0]
  /\ snapshot = [c \in Callers |-> NoProgress]
  /\ shown = NoProgress

Max2(a, b) == IF a >= b THEN a ELSE b

-----------------------------------------------------------------------------
(* Slips, each in place of the definition it is named after.               *)

\* The latest snapshot wins.
OverwritingMerge(old, new) == new

\* A snapshot that found no new file is taken for a stale one and ignored.
SuspiciousMerge(old, new) ==
  IF new.discovered <= old.discovered THEN old ELSE new

\* A path is shown as scanned when a worker takes it.
EagerLoadScanned(c) ==
  /\ ~panicked /\ stage[c] = 2
  /\ snapshot' = [snapshot EXCEPT ![c].scanned =
       filesScanned + Cardinality({w \in Workers : wpc[w] = "busy"})]
  /\ stage' = [stage EXCEPT ![c] = 3]
  /\ UNCHANGED <<vars, shown>>

-----------------------------------------------------------------------------
(* The pipeline's steps.  A goroutine inside notifyProgress takes none.    *)

Outside(c) == stage[c] = 0

\* c takes its step and calls notifyProgress when told to.
NotifyIf(c, told) ==
  /\ Outside(c)
  /\ stage' = IF told THEN [stage EXCEPT ![c] = 1] ELSE stage
  /\ UNCHANGED <<snapshot, shown>>

\* queuePath notifies of the first file and of every NotifyEvery-th.
FeedVisitFile ==
  /\ VisitFile
  /\ NotifyIf("discovery",
       filesDiscovered' = 1 \/ filesDiscovered' % NotifyEvery = 0)

\* The end of discovery is announced before jobs is closed.
FeedEndWalk == EndWalk /\ NotifyIf("discovery", TRUE)

\* The other steps of the discovery goroutine that nobody meets.
FeedDiscovery ==
  /\ SendPath \/ AbandonPath \/ VisitError \/ AbandonError \/ CloseJobs
  /\ NotifyIf("discovery", FALSE)

FeedWorker(w) ==
  /\ TakeJob(w) \/ WorkerDrained(w) \/ WorkerCancelled(w)
  /\ NotifyIf(w, FALSE)

\* archiveProgress: a worker inside an archive adds to the archive counters
\* and notifies.
FeedArchiveEntry(w) ==
  /\ WorkerAt(w, "busy")
  /\ NotifyIf(w, TRUE)
  /\ UNCHANGED vars

\* The collector notifies after the outcome is counted, before the callbacks.
FeedOutcome ==
  /\ \/ ReportError /\ Outside("discovery")
     \/ \E w \in Workers : SendOutcome(w) /\ Outside(w)
  /\ NotifyIf("collector", TRUE)

\* The last notification comes before the report is sorted and returned.
FeedReturnReport == ReturnReport /\ NotifyIf("collector", TRUE)

FeedCollector ==
  /\ FinishCallbacks \/ ReturnCancelled
  /\ NotifyIf("collector", FALSE)

\* Steps of nobody who notifies.
FeedOther ==
  /\ CloseOutcomes \/ Cancel \/ SendOnClosed
  /\ UNCHANGED <<stage, snapshot, shown>>

-----------------------------------------------------------------------------
(* notifyProgress and Update.                                              *)

LoadDiscovered(c) ==
  /\ ~panicked /\ stage[c] = 1
  /\ snapshot' = [snapshot EXCEPT ![c].discovered = filesDiscovered]
  /\ stage' = [stage EXCEPT ![c] = 2]
  /\ UNCHANGED <<vars, shown>>

LoadScanned(c) ==
  /\ ~panicked /\ stage[c] = 2
  /\ snapshot' = [snapshot EXCEPT ![c].scanned = filesScanned]
  /\ stage' = [stage EXCEPT ![c] = 3]
  /\ UNCHANGED <<vars, shown>>

LoadComplete(c) ==
  /\ ~panicked /\ stage[c] = 3
  /\ snapshot' = [snapshot EXCEPT ![c].complete = discoveryComplete]
  /\ stage' = [stage EXCEPT ![c] = 4]
  /\ UNCHANGED <<vars, shown>>

\* Every number shown is the largest one reported so far.
Merge(old, new) ==
  [discovered |-> Max2(old.discovered, new.discovered),
   scanned |-> Max2(old.scanned, new.scanned),
   complete |-> old.complete \/ new.complete]

Update(c) ==
  /\ ~panicked /\ stage[c] = 4
  /\ shown' = Merge(shown, snapshot[c])
  /\ stage' = [stage EXCEPT ![c] = 0]
  /\ snapshot' = [snapshot EXCEPT ![c] = NoProgress]
  /\ UNCHANGED vars

NotifyStep(c) ==
  LoadDiscovered(c) \/ LoadScanned(c) \/ LoadComplete(c) \/ Update(c)

FeedFinished ==
  /\ panicked \/ (AllDone /\ \A c \in Callers : Outside(c))
  /\ UNCHANGED feedVars

FeedNext ==
  \/ FeedVisitFile \/ FeedEndWalk \/ FeedDiscovery
  \/ \E w \in Workers : FeedWorker(w) \/ FeedArchiveEntry(w)
  \/ FeedOutcome \/ FeedReturnReport \/ FeedCollector \/ FeedOther
  \/ \E c \in Callers : NotifyStep(c)
  \/ FeedFinished

FeedSpec == FeedInit /\ [][FeedNext]_feedVars

-----------------------------------------------------------------------------
(* Properties.                                                             *)

\* What is shown has happened: no file is shown as scanned before the
\* collector has its outcome, discovery is shown complete only when it is, and
\* without a cancellation (which takes counts back) every file shown as
\* discovered was.
ShownHasHappened ==
  /\ shown.scanned <= filesScanned
  /\ shown.complete => discoveryComplete
  /\ ~cancelled => shown.discovered <= filesDiscovered

\* When an uncancelled Scan returns, the display holds the final numbers: the
\* summary line printed next is exact, however late the other goroutines'
\* snapshots came.
FinalDisplayExact ==
  collector = "report" /\ Outside("collector") /\ ~cancelled =>
    shown = [discovered |-> Cardinality(Files),
             scanned |-> Cardinality(Files),
             complete |-> TRUE]

\* A snapshot that arrives late never takes the display back.
ShownNeverRegresses ==
  [][/\ shown'.discovered >= shown.discovered
     /\ shown'.scanned >= shown.scanned
     /\ shown.complete => shown'.complete]_feedVars

\* "Progress is a point-in-time snapshot of a running scan": at no moment of a
\* scan is discovery complete and the number of discovered files not final.
SnapshotIsPointInTime ==
  \A c \in Callers :
    stage[c] = 4 /\ snapshot[c].complete /\ ~cancelled =>
      snapshot[c].discovered = Cardinality(Files)
=============================================================================
