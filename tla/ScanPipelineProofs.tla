-------------------------- MODULE ScanPipelineProofs --------------------------
EXTENDS ScanPipeline, SequenceTheorems, FiniteSetTheorems, TLAPS

-----------------------------------------------------------------------------
(* The jobs channel as a sequence without repetitions.                     *)

\* Queuing a value that is not in the channel adds it and nothing else.
LEMMA QueueOne ==
  ASSUME NEW S, NEW q \in Seq(S), NEW x \in S,
         IsInjective(q), x \notin Range(q)
  PROVE  /\ Append(q, x) \in Seq(S)
         /\ Len(Append(q, x)) = Len(q) + 1
         /\ IsInjective(Append(q, x))
         /\ Range(Append(q, x)) = Range(q) \cup {x}
<1> DEFINE r == Append(q, x)
<1>1. /\ r \in Seq(S)
      /\ Len(r) = Len(q) + 1
      /\ DOMAIN r = 1..(Len(q) + 1)
      /\ \A k \in 1..Len(q) : r[k] = q[k]
      /\ r[Len(q) + 1] = x
  OBVIOUS
<1>2. DOMAIN q = 1..Len(q) /\ Len(q) \in Nat
  BY LenProperties
<1>3. IsInjective(r)
  BY <1>1, <1>2 DEF IsInjective, Range
<1>4. Range(r) = Range(q) \cup {x}
  BY <1>1, <1>2 DEF Range
<1> QED BY <1>1, <1>3, <1>4

\* Receiving from the channel removes the received value and nothing else.
LEMMA ReceiveOne ==
  ASSUME NEW S, NEW q \in Seq(S), q # <<>>, IsInjective(q)
  PROVE  /\ Head(q) \in S /\ Head(q) \in Range(q)
         /\ Tail(q) \in Seq(S)
         /\ Len(Tail(q)) = Len(q) - 1
         /\ IsInjective(Tail(q))
         /\ Range(Tail(q)) = Range(q) \ {Head(q)}
<1> DEFINE r == Tail(q)
<1>1. /\ Head(q) \in S
      /\ r \in Seq(S)
      /\ Len(r) = Len(q) - 1
      /\ \A k \in 1..Len(r) : r[k] = q[k + 1]
      /\ Head(q) = q[1]
  BY HeadTailProperties
<1>2. DOMAIN q = 1..Len(q) /\ Len(q) \in Nat \ {0}
  BY LenProperties, EmptySeq
<1>3. DOMAIN r = 1..(Len(q) - 1)
  BY <1>1, LenProperties
<1>4. Head(q) \in Range(q)
  BY <1>1, <1>2 DEF Range
<1>5. IsInjective(r)
  BY <1>1, <1>2, <1>3 DEF IsInjective
<1>6. Range(r) = Range(q) \ {Head(q)}
  <2>1. ASSUME NEW k \in DOMAIN r PROVE r[k] \in Range(q) \ {Head(q)}
    BY <1>1, <1>2, <1>3 DEF IsInjective, Range
  <2>2. ASSUME NEW k \in DOMAIN q, q[k] # Head(q) PROVE q[k] \in Range(r)
    <3>1. k - 1 \in DOMAIN r /\ r[k - 1] = q[k]
      BY <2>2, <1>1, <1>2, <1>3
    <3> QED BY <3>1 DEF Range
  <2> QED BY <2>1, <2>2 DEF Range
<1> QED BY <1>1, <1>4, <1>5, <1>6

-----------------------------------------------------------------------------
(* The inductive invariant.                                                *)

LEMMA VisitsFinite ==
  /\ IsFiniteSet(Visits) /\ IsFiniteSet(Files)
  /\ IsFiniteSet(ErrorVisits \cup BadFiles)
  /\ ErrorVisits \cup BadFiles \subseteq Visits
<1>1. IsFiniteSet(Visits)
  BY PipelineAssumption, FS_Interval DEF Visits
<1>2. Files \subseteq Visits /\ ErrorVisits \cup BadFiles \subseteq Visits
  BY PipelineAssumption DEF Files
<1> QED BY <1>1, <1>2, FS_Subset

\* What every counter relies on: one more element is one more counted.
LEMMA CountOneMore ==
  ASSUME NEW T, IsFiniteSet(T), NEW S, S \subseteq T, NEW x, x \notin S
  PROVE  Cardinality(S \cup {x}) = Cardinality(S) + 1 /\ Cardinality(S) \in Nat
BY FS_Subset, FS_AddElement, FS_CardinalityType

LEMMA CountsAreNat ==
  /\ Cardinality(FilesBefore(pos)) \in Nat
  /\ Cardinality(FilesCollected) \in Nat
  /\ Cardinality(FailuresCollected) \in Nat
<1>1. /\ FilesBefore(pos) \subseteq Files /\ FilesCollected \subseteq Files
      /\ FailuresCollected \subseteq ErrorVisits \cup BadFiles
  BY DEF FilesBefore, FilesCollected, FailuresCollected
<1> QED BY <1>1, VisitsFinite, FS_Subset, FS_CardinalityType

LEMMA InitEstablishesIInv == Init => IInv
<1> SUFFICES ASSUME Init PROVE IInv
  OBVIOUS
<1> USE PipelineAssumption, WorkersAssumption DEF Init, Visits, Files
<1>1. TypeOK
  <2>1. jobs \in Seq(Files) /\ Len(jobs) <= JobsCap
    BY EmptySeq
  <2>2. /\ wpc \in [Workers -> {"idle", "busy", "done"}]
        /\ wjob \in [Workers -> Files \cup {NoJob}]
        /\ collected \in [Visits -> Nat]
    OBVIOUS
  <2>3. pos \in 1..(WalkLen + 1)
    OBVIOUS
  <2> QED BY <2>1, <2>2, <2>3 DEF TypeOK
<1>2. EachPathInOnePlace
  BY DEF EachPathInOnePlace, Queued, Held, HeldBy, IsInjective, Range
<1>3. NoPathLost
  BY DEF NoPathLost
<1>4. GoroutinesEndInOrder
  BY DEF GoroutinesEndInOrder
<1>5. CountersExact
  <2>1. FilesBefore(pos) = {}
    BY DEF FilesBefore
  <2>2. FilesCollected = {}
    BY DEF FilesCollected
  <2>3. FailuresCollected = {}
    <3>1. ASSUME NEW i \in ErrorVisits \cup BadFiles PROVE collected[i] # 1
      <4>1. i \in Visits
        BY DEF Files
      <4> QED BY <4>1
    <3> QED BY <3>1, Zenon DEF FailuresCollected
  <2>4. /\ Cardinality(FilesBefore(pos)) = 0
        /\ Cardinality(FilesCollected) = 0
        /\ Cardinality(FailuresCollected) = 0
    BY <2>1, <2>2, <2>3, FS_EmptySet
  <2>5. /\ dpc # "sending"
        /\ filesDiscovered = 0 /\ filesScanned = 0 /\ scanErrors = 0
    OBVIOUS
  <2> HIDE DEF Init
  <2> QED BY <2>4, <2>5 DEF CountersExact
<1> QED BY <1>1, <1>2, <1>3, <1>4, <1>5 DEF IInv

LEMMA NextPreservesIInv == IInv /\ [Next]_vars => IInv'
<1> SUFFICES ASSUME IInv, [Next]_vars PROVE IInv'
  OBVIOUS
<1> USE PipelineAssumption
    DEF Visits, Files, NoJob, DiscoveryAt, WorkerAt, CollectorAt,
        discoveryVars, workerVars, collectorVars
<1>0. /\ TypeOK /\ EachPathInOnePlace /\ NoPathLost
      /\ GoroutinesEndInOrder /\ CountersExact
  BY DEF IInv
<1> HIDE DEF IInv
<1>1. CASE VisitFile
  <2>1. TypeOK'
    BY <1>0, <1>1 DEF TypeOK, VisitFile, WalkMayContinue
  <2>2. EachPathInOnePlace'
    BY <1>0, <1>1
    DEF TypeOK, EachPathInOnePlace, Queued, Held, HeldBy, VisitFile,
        WalkMayContinue
  <2>3. NoPathLost'
    BY <1>0, <1>1
    DEF TypeOK, EachPathInOnePlace, NoPathLost, Queued, Held, HeldBy, VisitFile,
        WalkMayContinue
  <2>4. GoroutinesEndInOrder'
    BY <1>0, <1>1 DEF TypeOK, GoroutinesEndInOrder, VisitFile, WalkMayContinue
  <2>5. CountersExact'
    <3>1. FilesBefore(pos') = FilesBefore(pos) /\ FilesCollected' = FilesCollected
          /\ FailuresCollected' = FailuresCollected
      BY <1>1 DEF VisitFile, FilesBefore, FilesCollected, FailuresCollected
    <3> QED BY <1>0, <1>1, <3>1, CountsAreNat DEF CountersExact, VisitFile
  <2> QED BY <2>1, <2>2, <2>3, <2>4, <2>5 DEF IInv
<1>2. CASE SendPath
  <2>0. /\ jobs' \in Seq(Files) /\ Len(jobs') = Len(jobs) + 1
        /\ IsInjective(jobs') /\ Range(jobs') = Range(jobs) \cup {pos}
        /\ Len(jobs) \in Nat
    <3>1. IsInjective(jobs) /\ pos \notin Range(jobs) /\ pos \in Files
      BY <1>0, <1>2
      DEF SendPath, TypeOK, EachPathInOnePlace, Queued, GoroutinesEndInOrder
    <3>2. jobs \in Seq(Files) /\ jobs' = Append(jobs, pos)
      BY <1>0, <1>2 DEF SendPath, TypeOK
    <3> HIDE DEF Files
    <3> QED BY <3>1, <3>2, QueueOne, LenProperties
  <2>1. TypeOK'
    BY <1>0, <1>2, <2>0 DEF TypeOK, SendPath
  <2>2. EachPathInOnePlace'
    BY <1>0, <1>2, <2>0
    DEF TypeOK, EachPathInOnePlace, Queued, Held, HeldBy, SendPath
  <2>3. NoPathLost'
    BY <1>0, <1>2, <2>0
    DEF TypeOK, EachPathInOnePlace, NoPathLost, Queued, Held, HeldBy, SendPath
  <2>4. GoroutinesEndInOrder'
    BY <1>0, <1>2 DEF TypeOK, GoroutinesEndInOrder, SendPath
  <2>5. CountersExact'
    <3>1. /\ FilesBefore(pos') = FilesBefore(pos) \cup {pos}
          /\ pos \notin FilesBefore(pos)
      BY <1>0, <1>2 DEF SendPath, TypeOK, GoroutinesEndInOrder, FilesBefore
    <3>2. FilesBefore(pos) \subseteq Files
      BY DEF FilesBefore
    <3>3. Cardinality(FilesBefore(pos')) = Cardinality(FilesBefore(pos)) + 1
          /\ Cardinality(FilesBefore(pos)) \in Nat
      BY <3>1, <3>2, CountOneMore, VisitsFinite
    <3> QED
      BY <1>0, <1>2, <3>3
      DEF SendPath, CountersExact, FilesCollected, FailuresCollected
  <2> QED BY <2>1, <2>2, <2>3, <2>4, <2>5 DEF IInv
<1>3. CASE AbandonPath
  <2>1. TypeOK'
    <3>1. filesDiscovered - 1 \in Nat
      BY <1>0, <1>3, CountsAreNat DEF AbandonPath, CountersExact
    <3> QED BY <1>0, <1>3, <3>1 DEF TypeOK, AbandonPath
  <2>2. EachPathInOnePlace'
    BY <1>0, <1>3
    DEF TypeOK, EachPathInOnePlace, Queued, Held, HeldBy, AbandonPath
  <2>3. NoPathLost'
    BY <1>0, <1>3
    DEF TypeOK, EachPathInOnePlace, NoPathLost, Queued, Held, HeldBy, AbandonPath
  <2>4. GoroutinesEndInOrder'
    BY <1>0, <1>3 DEF TypeOK, GoroutinesEndInOrder, AbandonPath
  <2>5. CountersExact'
    <3>1. FilesBefore(pos') = FilesBefore(pos) /\ FilesCollected' = FilesCollected
          /\ FailuresCollected' = FailuresCollected
      BY <1>3 DEF AbandonPath, FilesBefore, FilesCollected, FailuresCollected
    <3> QED BY <1>0, <1>3, <3>1, CountsAreNat DEF CountersExact, AbandonPath
  <2> QED BY <2>1, <2>2, <2>3, <2>4, <2>5 DEF IInv
<1>4. CASE VisitError
  <2>1. TypeOK'
    BY <1>0, <1>4 DEF TypeOK, VisitError, WalkMayContinue
  <2>2. EachPathInOnePlace'
    BY <1>0, <1>4
    DEF TypeOK, EachPathInOnePlace, Queued, Held, HeldBy, VisitError,
        WalkMayContinue
  <2>3. NoPathLost'
    BY <1>0, <1>4
    DEF TypeOK, EachPathInOnePlace, NoPathLost, Queued, Held, HeldBy, VisitError,
        WalkMayContinue
  <2>4. GoroutinesEndInOrder'
    BY <1>0, <1>4 DEF TypeOK, GoroutinesEndInOrder, VisitError, WalkMayContinue
  <2>5. CountersExact'
    BY <1>0, <1>4
    DEF TypeOK, CountersExact, FilesBefore, FilesCollected, FailuresCollected,
        VisitError, WalkMayContinue
  <2> QED BY <2>1, <2>2, <2>3, <2>4, <2>5 DEF IInv
<1>5. CASE ReportError
  <2>1. TypeOK'
    <3>1. collected' \in [Visits -> Nat]
      <4>1. pos \in Visits /\ collected \in [Visits -> Nat]
        BY <1>0, <1>5 DEF TypeOK, ReportError, GoroutinesEndInOrder
      <4>2. collected' = [collected EXCEPT ![pos] = @ + 1]
        BY <1>5 DEF ReportError
      <4> QED BY <4>1, <4>2
    <3>2. pos' \in 1..(WalkLen + 1)
      BY <1>0, <1>5 DEF TypeOK, ReportError, GoroutinesEndInOrder
    <3> QED BY <1>0, <1>5, <3>1, <3>2 DEF TypeOK, ReportError
  <2>2. EachPathInOnePlace'
    BY <1>0, <1>5
    DEF TypeOK, EachPathInOnePlace, Queued, Held, HeldBy, ReportError
  <2>3. NoPathLost'
    <3> SUFFICES ASSUME ~cancelled', NEW i \in 1..(pos' - 1)
                 PROVE  collected'[i] = 1 \/ Queued(i)' \/ Held(i)'
      BY DEF NoPathLost
    <3>1. pos \in ErrorVisits /\ collected[pos] = 0
      BY <1>0, <1>5
      DEF ReportError, TypeOK, GoroutinesEndInOrder, EachPathInOnePlace
    <3>2. CASE i = pos
      BY <1>0, <1>5, <3>1, <3>2 DEF ReportError, TypeOK
    <3>3. CASE i \in 1..(pos - 1)
      <4>1. /\ collected'[i] = collected[i]
            /\ Queued(i)' = Queued(i) /\ Held(i)' = Held(i)
        BY <1>0, <1>5, <3>1, <3>3 DEF ReportError, TypeOK, Queued, Held, HeldBy
      <4> QED BY <1>0, <1>5, <3>3, <4>1 DEF NoPathLost, ReportError
    <3> QED BY <1>0, <1>5, <3>2, <3>3 DEF ReportError, TypeOK
  <2>4. GoroutinesEndInOrder'
    BY <1>0, <1>5 DEF TypeOK, GoroutinesEndInOrder, ReportError
  <2>5. CountersExact'
    <3>1. pos \in ErrorVisits /\ collected[pos] = 0 /\ collected'[pos] = 1
      BY <1>0, <1>5
      DEF ReportError, TypeOK, GoroutinesEndInOrder, EachPathInOnePlace
    <3>2. FilesBefore(pos') = FilesBefore(pos) /\ FilesCollected' = FilesCollected
      BY <1>0, <1>5, <3>1 DEF ReportError, TypeOK, FilesBefore, FilesCollected
    <3>3. FailuresCollected' = FailuresCollected \cup {pos}
          /\ pos \notin FailuresCollected
      BY <1>0, <1>5, <3>1 DEF ReportError, TypeOK, FailuresCollected
    <3>4. FailuresCollected \subseteq ErrorVisits \cup BadFiles
      BY DEF FailuresCollected
    <3>5. Cardinality(FailuresCollected') = Cardinality(FailuresCollected) + 1
      BY <3>3, <3>4, CountOneMore, VisitsFinite
    <3> QED BY <1>0, <1>5, <3>2, <3>5 DEF ReportError, CountersExact
  <2> QED BY <2>1, <2>2, <2>3, <2>4, <2>5 DEF IInv
<1>6. CASE AbandonError
  <2>1. TypeOK'
    BY <1>0, <1>6 DEF TypeOK, AbandonError
  <2>2. EachPathInOnePlace'
    BY <1>0, <1>6
    DEF TypeOK, EachPathInOnePlace, Queued, Held, HeldBy, AbandonError
  <2>3. NoPathLost'
    BY <1>0, <1>6
    DEF TypeOK, EachPathInOnePlace, NoPathLost, Queued, Held, HeldBy, AbandonError
  <2>4. GoroutinesEndInOrder'
    BY <1>0, <1>6 DEF TypeOK, GoroutinesEndInOrder, AbandonError
  <2>5. CountersExact'
    BY <1>0, <1>6
    DEF TypeOK, CountersExact, FilesBefore, FilesCollected, FailuresCollected,
        AbandonError
  <2> QED BY <2>1, <2>2, <2>3, <2>4, <2>5 DEF IInv
<1>7. CASE EndWalk
  <2>1. TypeOK'
    BY <1>0, <1>7 DEF TypeOK, EndWalk, WalkMayContinue
  <2>2. EachPathInOnePlace'
    BY <1>0, <1>7
    DEF TypeOK, EachPathInOnePlace, Queued, Held, HeldBy, EndWalk, WalkMayContinue
  <2>3. NoPathLost'
    BY <1>0, <1>7
    DEF TypeOK, EachPathInOnePlace, NoPathLost, Queued, Held, HeldBy, EndWalk,
        WalkMayContinue
  <2>4. GoroutinesEndInOrder'
    BY <1>0, <1>7 DEF TypeOK, GoroutinesEndInOrder, EndWalk, WalkMayContinue
  <2>5. CountersExact'
    BY <1>0, <1>7
    DEF TypeOK, CountersExact, FilesBefore, FilesCollected, FailuresCollected,
        EndWalk, WalkMayContinue
  <2> QED BY <2>1, <2>2, <2>3, <2>4, <2>5 DEF IInv
<1>8. CASE CloseJobs
  <2>1. TypeOK'
    BY <1>0, <1>8 DEF TypeOK, CloseJobs
  <2>2. EachPathInOnePlace'
    BY <1>0, <1>8 DEF TypeOK, EachPathInOnePlace, Queued, Held, HeldBy, CloseJobs
  <2>3. NoPathLost'
    BY <1>0, <1>8
    DEF TypeOK, EachPathInOnePlace, NoPathLost, Queued, Held, HeldBy, CloseJobs
  <2>4. GoroutinesEndInOrder'
    BY <1>0, <1>8 DEF TypeOK, GoroutinesEndInOrder, CloseJobs
  <2>5. CountersExact'
    BY <1>0, <1>8
    DEF TypeOK, CountersExact, FilesBefore, FilesCollected, FailuresCollected,
        CloseJobs
  <2> QED BY <2>1, <2>2, <2>3, <2>4, <2>5 DEF IInv
<1>9. ASSUME NEW w \in Workers, TakeJob(w) PROVE IInv'
  <2>0. /\ Head(jobs) \in Files /\ Head(jobs) \in Range(jobs)
        /\ jobs' \in Seq(Files) /\ Len(jobs') = Len(jobs) - 1
        /\ IsInjective(jobs') /\ Range(jobs') = Range(jobs) \ {Head(jobs)}
        /\ Len(jobs) \in Nat
    <3>1. IsInjective(jobs)
      BY <1>0, <1>9 DEF EachPathInOnePlace
    <3> QED BY <1>0, <1>9, <3>1, ReceiveOne, LenProperties DEF TakeJob, TypeOK
  <2>1. TypeOK'
    BY <1>0, <1>9, <2>0 DEF TypeOK, TakeJob
  <2>2. EachPathInOnePlace'
    BY <1>0, <1>9, <2>0
    DEF TypeOK, EachPathInOnePlace, Queued, Held, HeldBy, TakeJob
  <2>3. NoPathLost'
    BY <1>0, <1>9, <2>0
    DEF TypeOK, EachPathInOnePlace, NoPathLost, Queued, Held, HeldBy, TakeJob
  <2>4. GoroutinesEndInOrder'
    BY <1>0, <1>9, <2>0 DEF TypeOK, GoroutinesEndInOrder, TakeJob
  <2>5. CountersExact'
    BY <1>0, <1>9
    DEF TypeOK, CountersExact, FilesBefore, FilesCollected, FailuresCollected,
        TakeJob
  <2> QED BY <2>1, <2>2, <2>3, <2>4, <2>5 DEF IInv
<1>10. ASSUME NEW w \in Workers, WorkerDrained(w) PROVE IInv'
  <2>1. TypeOK'
    BY <1>0, <1>10 DEF TypeOK, WorkerDrained
  <2>2. EachPathInOnePlace'
    BY <1>0, <1>10
    DEF TypeOK, EachPathInOnePlace, Queued, Held, HeldBy, WorkerDrained
  <2>3. NoPathLost'
    BY <1>0, <1>10
    DEF TypeOK, EachPathInOnePlace, NoPathLost, Queued, Held, HeldBy,
        WorkerDrained
  <2>4. GoroutinesEndInOrder'
    BY <1>0, <1>10 DEF TypeOK, GoroutinesEndInOrder, WorkerDrained
  <2>5. CountersExact'
    BY <1>0, <1>10
    DEF TypeOK, CountersExact, FilesBefore, FilesCollected, FailuresCollected,
        WorkerDrained
  <2> QED BY <2>1, <2>2, <2>3, <2>4, <2>5 DEF IInv
<1>11. ASSUME NEW w \in Workers, SendOutcome(w) PROVE IInv'
  <2>1. TypeOK'
    <3>1. wjob[w] \in Visits
      BY <1>0, <1>11 DEF SendOutcome, GoroutinesEndInOrder
    <3>2. collected' \in [Visits -> Nat]
      BY <1>0, <1>11, <3>1 DEF TypeOK, SendOutcome
    <3>3. filesScanned' \in Nat /\ scanErrors' \in Nat
      BY <1>0, <1>11 DEF TypeOK, SendOutcome
    <3> QED BY <1>0, <1>11, <3>2, <3>3 DEF TypeOK, SendOutcome
  <2>2. EachPathInOnePlace'
    BY <1>0, <1>11
    DEF TypeOK, EachPathInOnePlace, Queued, Held, HeldBy, SendOutcome
  <2>3. NoPathLost'
    BY <1>0, <1>11
    DEF TypeOK, EachPathInOnePlace, NoPathLost, Queued, Held, HeldBy, SendOutcome
  <2>4. GoroutinesEndInOrder'
    BY <1>0, <1>11 DEF TypeOK, GoroutinesEndInOrder, SendOutcome
  <2>5. CountersExact'
    <3> DEFINE i == wjob[w]
    <3>1. i \in Files /\ collected[i] = 0 /\ collected'[i] = 1
      BY <1>0, <1>11
      DEF SendOutcome, TypeOK, GoroutinesEndInOrder, EachPathInOnePlace, Held,
          HeldBy
    <3>2. FilesCollected' = FilesCollected \cup {i} /\ i \notin FilesCollected
      BY <1>0, <1>11, <3>1 DEF SendOutcome, TypeOK, FilesCollected
    <3>3. FilesCollected \subseteq Files
          /\ FailuresCollected \subseteq ErrorVisits \cup BadFiles
      BY DEF FilesCollected, FailuresCollected
    <3>4. Cardinality(FilesCollected') = Cardinality(FilesCollected) + 1
      BY <3>2, <3>3, CountOneMore, VisitsFinite
    <3>5. CASE i \in BadFiles
      <4>1. /\ FailuresCollected' = FailuresCollected \cup {i}
            /\ i \notin FailuresCollected
        BY <1>0, <1>11, <3>1, <3>5 DEF SendOutcome, TypeOK, FailuresCollected
      <4>2. Cardinality(FailuresCollected') = Cardinality(FailuresCollected) + 1
        BY <4>1, <3>3, CountOneMore, VisitsFinite
      <4> QED BY <1>0, <1>11, <3>4, <3>5, <4>2 DEF SendOutcome, CountersExact
    <3>6. CASE i \notin BadFiles
      <4>1. FailuresCollected' = FailuresCollected
        BY <1>0, <1>11, <3>1, <3>6 DEF SendOutcome, TypeOK, FailuresCollected
      <4> QED
        BY <1>0, <1>11, <3>4, <3>6, <4>1 DEF SendOutcome, TypeOK, CountersExact
    <3> QED BY <3>5, <3>6
  <2> QED BY <2>1, <2>2, <2>3, <2>4, <2>5 DEF IInv
<1>12. ASSUME NEW w \in Workers, WorkerCancelled(w) PROVE IInv'
  <2>1. TypeOK'
    BY <1>0, <1>12 DEF TypeOK, WorkerCancelled
  <2>2. EachPathInOnePlace'
    BY <1>0, <1>12
    DEF TypeOK, EachPathInOnePlace, Queued, Held, HeldBy, WorkerCancelled
  <2>3. NoPathLost'
    BY <1>0, <1>12
    DEF TypeOK, EachPathInOnePlace, NoPathLost, Queued, Held, HeldBy,
        WorkerCancelled
  <2>4. GoroutinesEndInOrder'
    BY <1>0, <1>12 DEF TypeOK, GoroutinesEndInOrder, WorkerCancelled
  <2>5. CountersExact'
    BY <1>0, <1>12
    DEF TypeOK, CountersExact, FilesBefore, FilesCollected, FailuresCollected,
        WorkerCancelled
  <2> QED BY <2>1, <2>2, <2>3, <2>4, <2>5 DEF IInv
<1>13. CASE CloseOutcomes
  <2>1. TypeOK'
    BY <1>0, <1>13 DEF TypeOK, CloseOutcomes
  <2>2. EachPathInOnePlace'
    BY <1>0, <1>13
    DEF TypeOK, EachPathInOnePlace, Queued, Held, HeldBy, CloseOutcomes
  <2>3. NoPathLost'
    BY <1>0, <1>13
    DEF TypeOK, EachPathInOnePlace, NoPathLost, Queued, Held, HeldBy,
        CloseOutcomes
  <2>4. GoroutinesEndInOrder'
    BY <1>0, <1>13 DEF TypeOK, GoroutinesEndInOrder, CloseOutcomes
  <2>5. CountersExact'
    BY <1>0, <1>13
    DEF TypeOK, CountersExact, FilesBefore, FilesCollected, FailuresCollected,
        CloseOutcomes
  <2> QED BY <2>1, <2>2, <2>3, <2>4, <2>5 DEF IInv
<1>14. CASE FinishCallbacks
  <2>1. TypeOK'
    BY <1>0, <1>14 DEF TypeOK, FinishCallbacks
  <2>2. EachPathInOnePlace'
    BY <1>0, <1>14
    DEF TypeOK, EachPathInOnePlace, Queued, Held, HeldBy, FinishCallbacks
  <2>3. NoPathLost'
    BY <1>0, <1>14
    DEF TypeOK, EachPathInOnePlace, NoPathLost, Queued, Held, HeldBy,
        FinishCallbacks
  <2>4. GoroutinesEndInOrder'
    BY <1>0, <1>14 DEF TypeOK, GoroutinesEndInOrder, FinishCallbacks
  <2>5. CountersExact'
    BY <1>0, <1>14
    DEF TypeOK, CountersExact, FilesBefore, FilesCollected, FailuresCollected,
        FinishCallbacks
  <2> QED BY <2>1, <2>2, <2>3, <2>4, <2>5 DEF IInv
<1>15. CASE ReturnReport
  <2>1. TypeOK'
    BY <1>0, <1>15 DEF TypeOK, ReturnReport
  <2>2. EachPathInOnePlace'
    BY <1>0, <1>15
    DEF TypeOK, EachPathInOnePlace, Queued, Held, HeldBy, ReturnReport
  <2>3. NoPathLost'
    BY <1>0, <1>15
    DEF TypeOK, EachPathInOnePlace, NoPathLost, Queued, Held, HeldBy, ReturnReport
  <2>4. GoroutinesEndInOrder'
    BY <1>0, <1>15 DEF TypeOK, GoroutinesEndInOrder, ReturnReport
  <2>5. CountersExact'
    BY <1>0, <1>15
    DEF TypeOK, CountersExact, FilesBefore, FilesCollected, FailuresCollected,
        ReturnReport
  <2> QED BY <2>1, <2>2, <2>3, <2>4, <2>5 DEF IInv
<1>16. CASE ReturnCancelled
  <2>1. TypeOK'
    BY <1>0, <1>16 DEF TypeOK, ReturnCancelled
  <2>2. EachPathInOnePlace'
    BY <1>0, <1>16
    DEF TypeOK, EachPathInOnePlace, Queued, Held, HeldBy, ReturnCancelled
  <2>3. NoPathLost'
    BY <1>0, <1>16
    DEF TypeOK, EachPathInOnePlace, NoPathLost, Queued, Held, HeldBy,
        ReturnCancelled
  <2>4. GoroutinesEndInOrder'
    BY <1>0, <1>16 DEF TypeOK, GoroutinesEndInOrder, ReturnCancelled
  <2>5. CountersExact'
    BY <1>0, <1>16
    DEF TypeOK, CountersExact, FilesBefore, FilesCollected, FailuresCollected,
        ReturnCancelled
  <2> QED BY <2>1, <2>2, <2>3, <2>4, <2>5 DEF IInv
<1>17. CASE Cancel
  <2>1. TypeOK'
    BY <1>0, <1>17 DEF TypeOK, Cancel, Returned
  <2>2. EachPathInOnePlace'
    BY <1>0, <1>17
    DEF TypeOK, EachPathInOnePlace, Queued, Held, HeldBy, Cancel, Returned
  <2>3. NoPathLost'
    BY <1>0, <1>17
    DEF TypeOK, EachPathInOnePlace, NoPathLost, Queued, Held, HeldBy, Cancel,
        Returned
  <2>4. GoroutinesEndInOrder'
    BY <1>0, <1>17 DEF TypeOK, GoroutinesEndInOrder, Cancel, Returned
  <2>5. CountersExact'
    BY <1>0, <1>17
    DEF TypeOK, CountersExact, FilesBefore, FilesCollected, FailuresCollected,
        Cancel, Returned
  <2> QED BY <2>1, <2>2, <2>3, <2>4, <2>5 DEF IInv
<1>18. CASE SendOnClosed
  <2>1. TypeOK'
    BY <1>0, <1>18 DEF TypeOK, SendOnClosed, Senders
  <2>2. EachPathInOnePlace'
    BY <1>0, <1>18
    DEF TypeOK, EachPathInOnePlace, Queued, Held, HeldBy, SendOnClosed, Senders
  <2>3. NoPathLost'
    BY <1>0, <1>18
    DEF TypeOK, EachPathInOnePlace, NoPathLost, Queued, Held, HeldBy,
        SendOnClosed, Senders
  <2>4. GoroutinesEndInOrder'
    BY <1>0, <1>18, WorkersAssumption
    DEF TypeOK, GoroutinesEndInOrder, SendOnClosed, Senders
  <2>5. CountersExact'
    BY <1>0, <1>18
    DEF TypeOK, CountersExact, FilesBefore, FilesCollected, FailuresCollected,
        SendOnClosed, Senders
  <2> QED BY <2>1, <2>2, <2>3, <2>4, <2>5 DEF IInv
<1>19. CASE UNCHANGED vars
  <2>1. TypeOK'
    BY <1>0, <1>19 DEF TypeOK, vars
  <2>2. EachPathInOnePlace'
    BY <1>0, <1>19 DEF TypeOK, EachPathInOnePlace, Queued, Held, HeldBy, vars
  <2>3. NoPathLost'
    BY <1>0, <1>19
    DEF TypeOK, EachPathInOnePlace, NoPathLost, Queued, Held, HeldBy, vars
  <2>4. GoroutinesEndInOrder'
    BY <1>0, <1>19 DEF TypeOK, GoroutinesEndInOrder, vars
  <2>5. CountersExact'
    BY <1>0, <1>19
    DEF TypeOK, CountersExact, FilesBefore, FilesCollected, FailuresCollected,
        vars
  <2> QED BY <2>1, <2>2, <2>3, <2>4, <2>5 DEF IInv
<1> QED
  BY <1>1, <1>2, <1>3, <1>4, <1>5, <1>6, <1>7, <1>8, <1>9, <1>10, <1>11, <1>12,
     <1>13, <1>14, <1>15, <1>16, <1>17, <1>18, <1>19
  DEF Next, DiscoveryStep, WorkerStep, CollectorStep, Finished

\* The goroutines keep the invariant: every property of states below follows.
THEOREM IInvHolds == Spec => []IInv
<1>1. Init => IInv
  BY InitEstablishesIInv
<1>2. IInv /\ [Next]_vars => IInv'
  BY NextPreservesIInv
<1> QED BY <1>1, <1>2, PTL DEF Spec

-----------------------------------------------------------------------------
(* The properties of states.                                               *)

\* Every variable keeps its type; the jobs channel never exceeds its capacity
\* and filesDiscovered never goes negative when a path is taken back.
THEOREM TypeCorrect == Spec => []TypeOK
<1>1. IInv => TypeOK
  BY DEF IInv
<1> QED BY <1>1, IInvHolds, PTL

\* No path is scanned, queued or reported twice.
THEOREM PathsUnique == Spec => []EachPathInOnePlace
<1>1. IInv => EachPathInOnePlace
  BY DEF IInv
<1> QED BY <1>1, IInvHolds, PTL

\* No path is lost between the walk and the report before a cancellation.
THEOREM PathsKept == Spec => []NoPathLost
<1>1. IInv => NoPathLost
  BY DEF IInv
<1> QED BY <1>1, IInvHolds, PTL

\* The goroutines end in the order that makes closing the channels safe.
THEOREM EndOrder == Spec => []GoroutinesEndInOrder
<1>1. IInv => GoroutinesEndInOrder
  BY DEF IInv
<1> QED BY <1>1, IInvHolds, PTL

\* The progress counters agree with the goroutines' work at every moment.
THEOREM CountersCorrect == Spec => []CountersExact
<1>1. IInv => CountersExact
  BY DEF IInv
<1> QED BY <1>1, IInvHolds, PTL

\* An uncancelled report waited for the end of everything.
LEMMA ReportComesLast ==
  ASSUME IInv, outcomesClosed \/ collector = "report",
         ~cancelled
  PROVE  /\ dpc = "done"
         /\ \A w \in Workers : wpc[w] = "done"
         /\ \A i \in Visits : collected[i] = 1
<1>1. \A w \in Workers : wpc[w] = "done"
  BY DEF IInv, GoroutinesEndInOrder
<1>2. jobsClosed /\ jobs = <<>>
  BY <1>1, WorkersAssumption DEF IInv, GoroutinesEndInOrder
<1>3. dpc = "done" /\ pos = WalkLen + 1
  BY <1>2 DEF IInv, GoroutinesEndInOrder
<1>4. ASSUME NEW i \in Visits PROVE collected[i] = 1
  <2>1. i \in 1..(pos - 1)
    BY <1>3, PipelineAssumption DEF Visits
  <2>2. ~Queued(i)
    BY <1>2 DEF Queued, Range
  <2>3. ~Held(i)
    BY <1>1 DEF Held, HeldBy
  <2> QED BY <2>1, <2>2, <2>3 DEF IInv, NoPathLost
<1> QED BY <1>1, <1>3, <1>4

\* ReturnReport cannot overtake a worker or the walker: without a cancellation
\* the report covers every file and every traversal error.
THEOREM ReportComplete == Spec => []ReportCompleteUnlessCancelled
<1>1. IInv => ReportCompleteUnlessCancelled
  BY ReportComesLast DEF ReportCompleteUnlessCancelled
<1> QED BY <1>1, IInvHolds, PTL

\* The send on a closed channel needs a cancellation.
THEOREM PanicNeedsCancel == Spec => []PanicOnlyIfCancelled
<1>1. IInv => PanicOnlyIfCancelled
  BY DEF IInv, GoroutinesEndInOrder, PanicOnlyIfCancelled
<1> QED BY <1>1, IInvHolds, PTL

\* Scan leaves no goroutine running behind an uncancelled report.
THEOREM NoLeak == Spec => []NoGoroutineLeft
<1>1. IInv => NoGoroutineLeft
  BY ReportComesLast
  DEF NoGoroutineLeft, AllDone, Returned, IInv, GoroutinesEndInOrder
<1> QED BY <1>1, IInvHolds, PTL

-----------------------------------------------------------------------------
(* A property of steps, and the refinement.                                *)

\* After "discovery complete" the number of discovered files stands still.
THEOREM DiscoveredIsFinal == Spec => DiscoveredFinal
<1>1. IInv /\ [Next]_vars =>
        [discoveryComplete => filesDiscovered' = filesDiscovered]_vars
  BY DEF IInv, GoroutinesEndInOrder, Next, DiscoveryStep, WorkerStep,
         CollectorStep, Finished, DiscoveryAt, VisitFile, SendPath,
         AbandonPath, VisitError, ReportError, AbandonError, EndWalk,
         CloseJobs, TakeJob, WorkerDrained, SendOutcome, WorkerCancelled,
         CloseOutcomes, FinishCallbacks, ReturnReport, ReturnCancelled,
         Cancel, SendOnClosed, discoveryVars, vars
<1> QED BY <1>1, IInvHolds, PTL DEF Spec, DiscoveredFinal

LEMMA InitRefines == Init => Contract!ContractInit
BY DEF Init, Returned, Contract!ContractInit

LEMMA StepRefines ==
  IInv /\ [Next]_vars => [Contract!ContractNext]_(Contract!contractVars)
<1> SUFFICES ASSUME IInv, [Next]_vars
             PROVE  [Contract!ContractNext]_(Contract!contractVars)
  OBVIOUS
<1> USE DEF Returned, discoveryVars, workerVars, collectorVars,
            DiscoveryAt, WorkerAt, CollectorAt
<1>1. CASE ReportError
  <2>1. pos \in Visits /\ collected[pos] = 0
    BY <1>1, PipelineAssumption
    DEF ReportError, IInv, TypeOK, GoroutinesEndInOrder, EachPathInOnePlace
  <2>2. Contract!Deliver(pos)
    BY <1>1, <2>1 DEF ReportError, Contract!Deliver
  <2> QED BY <2>1, <2>2 DEF Contract!ContractNext
<1>2. ASSUME NEW w \in Workers, SendOutcome(w)
      PROVE  Contract!ContractNext
  <2>1. wjob[w] \in Visits /\ collected[wjob[w]] = 0
    BY <1>2 DEF SendOutcome, IInv, GoroutinesEndInOrder, EachPathInOnePlace,
                Held, HeldBy, Files
  <2>2. Contract!Deliver(wjob[w])
    BY <1>2, <2>1 DEF SendOutcome, Contract!Deliver
  <2> QED BY <2>1, <2>2 DEF Contract!ContractNext
<1>3. CASE ReturnReport
  <2>1. cancelled \/ \A i \in Visits : collected[i] = 1
    BY <1>3, ReportComesLast DEF ReturnReport
  <2>2. Contract!DeliverReport
    BY <1>3, <2>1 DEF ReturnReport, Contract!DeliverReport
  <2> QED BY <2>2 DEF Contract!ContractNext
<1>4. CASE ReturnCancelled
  BY <1>4 DEF ReturnCancelled, Contract!DeliverError, Contract!ContractNext
<1>5. CASE Cancel
  BY <1>5 DEF Cancel, Contract!CancelScan, Contract!ContractNext
<1>6. CASE VisitFile \/ SendPath \/ AbandonPath \/ VisitError
           \/ AbandonError \/ EndWalk \/ CloseJobs
  BY <1>6 DEF VisitFile, SendPath, AbandonPath, VisitError, AbandonError,
              EndWalk, CloseJobs, Contract!contractVars
<1>7. ASSUME NEW w \in Workers,
             TakeJob(w) \/ WorkerDrained(w) \/ WorkerCancelled(w)
      PROVE  UNCHANGED Contract!contractVars
  BY <1>7 DEF TakeJob, WorkerDrained, WorkerCancelled, Contract!contractVars
<1>8. CASE CloseOutcomes \/ SendOnClosed
  BY <1>8 DEF CloseOutcomes, SendOnClosed, Contract!contractVars
<1>9. CASE FinishCallbacks
  BY <1>9 DEF FinishCallbacks, Contract!contractVars
<1>10. CASE UNCHANGED vars
  BY <1>10 DEF vars, Contract!contractVars
<1> QED
  BY <1>1, <1>2, <1>3, <1>4, <1>5, <1>6, <1>7, <1>8, <1>9, <1>10
  DEF Next, DiscoveryStep, WorkerStep, CollectorStep, Finished

\* The pipeline implements the contract of Scan: outcomes are delivered at most
\* once and only while Scan runs, a report of an uncancelled scan is complete,
\* and only a cancelled scan returns the context's error.
THEOREM PipelineImplementsContract == Spec => ImplementsContract
<1>1. Init => Contract!ContractInit
  BY InitRefines
<1>2. IInv /\ [Next]_vars => [Contract!ContractNext]_(Contract!contractVars)
  BY StepRefines
<1> QED
  BY <1>1, <1>2, IInvHolds, PTL
  DEF Spec, ImplementsContract, Contract!ContractSpec
=============================================================================
