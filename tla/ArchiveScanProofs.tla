------------------------- MODULE ArchiveScanProofs -------------------------
(***************************************************************************)
(* The safety of ArchiveScan for every limit, every entry size and every   *)
(* archive: proofs of its type invariant, of its three limits and of the   *)
(* way its entries and errors are kept.                                    *)
(***************************************************************************)
EXTENDS ArchiveScan, SequenceTheorems, TLAPS

Frames == [format : Formats, left : Nat, errors : SUBSET Errors]

\* While an archive is being walked there is one on the stack, and another may
\* be opened only where the depth limit leaves room for it.
StackInv ==
  /\ place \in {"next", "begun", "full", "finish", "return"} => stack # <<>>
  /\ place = "done" => stack = <<>>
  /\ Len(stack) <= ArchiveMaxDepth
  /\ place = "open" => Len(stack) < ArchiveMaxDepth

\* Each archive that gives up beyond the entry limit leaves the stack before
\* the next one can: together they are no more than the depth limit.
EntryInv ==
  /\ place \in {"begun", "full", "open"} => entries <= ArchiveMaxEntries
  /\ entries > ArchiveMaxEntries =>
       entries - ArchiveMaxEntries + Len(stack) <=
         ArchiveMaxDepth + (IF place = "return" THEN 1 ELSE 0)

\* A result is kept until it is merged.  An exhausted byte budget is known to
\* the innermost archive only, which is then returning, or to the call that has
\* just returned.
ErrorInv ==
  /\ \A i \in 1 .. Len(stack) - 1 : "bytes" \notin stack[i].errors
  /\ stack # <<>> /\ "bytes" \in Top.errors => place = "return"
  /\ result # {} => place \in {"finish", "done"}

ArchiveIInv ==
  ArchiveTypeOK /\ StackInv /\ EntryInv /\ EntriesAccounted /\ ErrorInv

-----------------------------------------------------------------------------
(* The stack operations.                                                   *)

\* There is an innermost archive.
LEMMA TopFacts ==
  ASSUME stack \in Seq(Frames), stack # <<>>
  PROVE  /\ Len(stack) \in Nat \ {0}
         /\ Top \in Frames
         /\ Top.errors \in SUBSET Errors
<1>1. Len(stack) \in Nat \ {0}
  BY EmptySeq
<1>2. Top \in Frames
  BY <1>1, ElementOfSeq DEF Top
<1> QED
  BY <1>1, <1>2 DEF Frames

\* Errors merged into the innermost archive leave the rest of the stack alone.
LEMMA AddToTopFacts ==
  ASSUME stack \in Seq(Frames), stack # <<>>, NEW E \in SUBSET Errors
  PROVE  /\ AddToTop(E) \in Seq(Frames)
         /\ Len(AddToTop(E)) = Len(stack)
         /\ \A i \in 1 .. Len(stack) - 1 : AddToTop(E)[i] = stack[i]
         /\ AddToTop(E)[Len(stack)].errors = Top.errors \cup E
<1> DEFINE top == [Top EXCEPT !.errors = @ \cup E]
<1>1. Len(stack) \in 1 .. Len(stack) /\ Top \in Frames
  BY TopFacts
<1>2. top \in Frames /\ top.errors = Top.errors \cup E
  BY <1>1 DEF Frames
<1>3. AddToTop(E) = [stack EXCEPT ![Len(stack)] = top]
  BY <1>1 DEF AddToTop, Top
<1> QED
  BY <1>1, <1>2, <1>3, ExceptSeq

\* Taking an entry of the innermost archive changes no error.
LEMMA TakeEntryFacts ==
  ASSUME stack \in Seq(Frames), stack # <<>>, Top.left > 0
  PROVE  /\ TakeEntry \in Seq(Frames)
         /\ Len(TakeEntry) = Len(stack)
         /\ \A i \in 1 .. Len(stack) : TakeEntry[i].errors = stack[i].errors
<1> DEFINE top == [Top EXCEPT !.left = @ - 1]
<1>1. Len(stack) \in 1 .. Len(stack) /\ Top \in Frames
  BY TopFacts
<1>2. top \in Frames /\ top.errors = Top.errors
  BY <1>1 DEF Frames
<1>3. CASE Top.format = "tar"
  BY <1>3 DEF TakeEntry
<1>4. CASE Top.format # "tar"
  <2>1. TakeEntry = [stack EXCEPT ![Len(stack)] = top]
    BY <1>1, <1>4 DEF TakeEntry, Top
  <2> QED
    BY <1>1, <1>2, <2>1, ExceptSeq DEF Top
<1> QED
  BY <1>3, <1>4

\* An archive that is opened has no error yet.
LEMMA PushFacts ==
  ASSUME stack \in Seq(Frames), NEW f \in Formats, NEW n \in Nat
  PROVE  /\ Append(stack, Frame(f, n)) \in Seq(Frames)
         /\ Len(Append(stack, Frame(f, n))) = Len(stack) + 1
         /\ \A i \in 1 .. Len(stack) : Append(stack, Frame(f, n))[i] = stack[i]
         /\ Append(stack, Frame(f, n))[Len(stack) + 1].errors = {}
  BY DEF Frame, Frames

\* An archive that returns uncovers the stack below it.
LEMMA PopFacts ==
  ASSUME stack \in Seq(Frames), stack # <<>>
  PROVE  /\ SubSeq(stack, 1, Len(stack) - 1) \in Seq(Frames)
         /\ Len(SubSeq(stack, 1, Len(stack) - 1)) = Len(stack) - 1
         /\ \A i \in 1 .. Len(stack) - 1 :
              SubSeq(stack, 1, Len(stack) - 1)[i] = stack[i]
<1> DEFINE n == Len(stack) - 1
<1>1. n \in Nat /\ Len(stack) = n + 1
  BY TopFacts
<1>2. \A i \in 1 .. n : stack[i] \in Frames
  BY <1>1, ElementOfSeq
<1> HIDE DEF n
<1>3. /\ SubSeq(stack, 1, n) \in Seq(Frames)
      /\ Len(SubSeq(stack, 1, n)) = n
      /\ \A i \in 1 .. n : SubSeq(stack, 1, n)[i] = stack[i]
  <2>1. /\ SubSeq(stack, 1, n) \in Seq(Frames)
        /\ Len(SubSeq(stack, 1, n)) = IF 1 <= n THEN n - 1 + 1 ELSE 0
        /\ \A i \in 1 .. n - 1 + 1 : SubSeq(stack, 1, n)[i] = stack[1 + i - 1]
    BY <1>1, <1>2, SubSeqProperties
  <2>2. n - 1 + 1 = n /\ (~(1 <= n) => n = 0)
    BY <1>1
  <2>3. \A i \in 1 .. n : 1 + i - 1 = i
    BY <1>1
  <2> QED
    BY <2>1, <2>2, <2>3
<1> QED
  BY <1>3 DEF n

-----------------------------------------------------------------------------
(* The invariant.                                                          *)

\* It holds at first, when nothing has been opened.
LEMMA InitInv == ArchiveInit => ArchiveIInv
<1> SUFFICES ASSUME ArchiveInit PROVE ArchiveIInv
  OBVIOUS
<1>1. stack = <<>> /\ stack \in Seq(Frames) /\ Len(stack) = 0
  BY EmptySeq DEF ArchiveInit
<1>2. ArchiveTypeOK
  <2>1. result \in SUBSET Errors /\ bytesRead \in 0 .. ArchiveMaxBytes
    BY ArchiveAssumption DEF ArchiveInit
  <2>2. stack \in Seq([format : Formats, left : Nat, errors : SUBSET Errors])
    BY <1>1 DEF Frames
  <2> QED
    BY <2>1, <2>2 DEF ArchiveInit, ArchiveTypeOK
<1>3. StackInv /\ EntryInv
  BY <1>1, ArchiveAssumption DEF ArchiveInit, StackInv, EntryInv
<1>4. EntriesAccounted
  BY <1>1 DEF ArchiveInit, EntriesAccounted, EntriesUnderWay
<1>5. ErrorInv
  BY <1>1 DEF ArchiveInit, ErrorInv
<1> QED
  BY <1>2, <1>3, <1>4, <1>5 DEF ArchiveIInv

\* The bounds on what is read of an entry.
LEMMA ReadFacts ==
  ASSUME ArchiveTypeOK, NEW size \in EntrySizes
  PROVE  /\ PrefixSize(size) \in Nat
         /\ size - PrefixSize(size) \in Nat
         /\ PrefixSize(size) <= Budget =>
              bytesRead + PrefixSize(size) \in 0 .. ArchiveMaxBytes
<1>1. size \in Nat /\ MaxBytes \in Nat /\ ArchiveMaxBytes \in Nat
  BY ArchiveAssumption
<1>2. PrefixSize(size) \in Nat /\ PrefixSize(size) <= size
  BY <1>1 DEF PrefixSize, Min2
<1>3. bytesRead \in 0 .. ArchiveMaxBytes
  BY DEF ArchiveTypeOK
<1> HIDE DEF PrefixSize
<1> QED
  BY <1>1, <1>2, <1>3 DEF Budget

\* A step within an entry: it reads, and goes on to a nested archive, to the
\* rest of the entry or to the entry's outcome.
WithinEntry ==
  /\ place \in {"begun", "full"}
  /\ UNCHANGED <<stack, entries, counters>>
  /\ rest' \in Nat
  /\ bytesRead' \in 0 .. ArchiveMaxBytes
  /\ \/ place' = "open" /\ MayNest /\ UNCHANGED <<result, capped>>
     \/ place' = "full" /\ UNCHANGED <<result, capped>>
     \/ place' = "finish" /\ result' \in SUBSET Errors /\ capped' \in BOOLEAN

\* Such a step keeps the invariant.
LEMMA WithinEntryInv == ArchiveIInv /\ WithinEntry => ArchiveIInv'
<1> SUFFICES ASSUME ArchiveIInv, WithinEntry PROVE ArchiveIInv'
  OBVIOUS
<1>1. place' \in {"open", "full", "finish"} /\ place \in {"begun", "full"}
  BY DEF WithinEntry
<1>2. /\ stack' = stack /\ entries' = entries /\ discovered' = discovered
      /\ UNCHANGED <<scanned, cappedEntries, skipped>>
  BY DEF WithinEntry, counters
<1>3. ArchiveTypeOK'
  BY <1>1, <1>2 DEF WithinEntry, ArchiveIInv, ArchiveTypeOK
<1>4. StackInv'
  BY <1>1, <1>2 DEF WithinEntry, ArchiveIInv, StackInv, MayNest
<1>5. EntryInv'
  <2>1. entries <= ArchiveMaxEntries /\ entries \in Nat
    BY <1>1 DEF ArchiveIInv, EntryInv, ArchiveTypeOK
  <2> QED
    BY <1>2, <2>1, ArchiveAssumption DEF EntryInv
<1>6. EntriesAccounted'
  BY <1>1, <1>2 DEF ArchiveIInv, EntriesAccounted, EntriesUnderWay
<1>7. ErrorInv'
  BY <1>1, <1>2 DEF WithinEntry, ArchiveIInv, ErrorInv, Top
<1> QED
  BY <1>3, <1>4, <1>5, <1>6, <1>7 DEF ArchiveIInv

\* The prefix of an entry is read.
LEMMA PrefixInv ==
  ASSUME ArchiveIInv,
         \/ ScanPrefix \/ PrefixCorrupt \/ RefuseDepth
         \/ NestArchive \/ NeedFullEntry
  PROVE  ArchiveIInv'
<1>0. ArchiveTypeOK
  BY DEF ArchiveIInv
<1>1. PICK size \in EntrySizes :
        /\ ReadPrefix(size)
        /\ \/ rest' = 0 /\ ReadResult({}, ~Complete(size))
           \/ rest' = 0 /\ ReadResult({"unreadable"}, FALSE)
           \/ rest' = 0 /\ ReadResult({"depth"}, FALSE)
           \/ /\ rest' = 0 /\ MayNest
              /\ place' = "open" /\ UNCHANGED <<result, capped>>
           \/ /\ rest' = size - PrefixSize(size)
              /\ place' = "full" /\ UNCHANGED <<result, capped>>
  BY DEF ScanPrefix, PrefixCorrupt, RefuseDepth, NestArchive, NeedFullEntry
<1>2. place = "begun" /\ UNCHANGED <<stack, entries, counters>>
  BY <1>1 DEF ReadPrefix
<1>3. bytesRead' \in 0 .. ArchiveMaxBytes
  BY <1>0, <1>1, ReadFacts DEF ReadPrefix
<1>4. rest' \in Nat
  <2>1. rest' = 0 \/ rest' = size - PrefixSize(size)
    BY <1>1
  <2>2. size - PrefixSize(size) \in Nat
    BY <1>0, ReadFacts
  <2> QED
    BY <2>1, <2>2
<1>5. Complete(size) \in BOOLEAN
  BY DEF Complete
<1>6. \/ place' = "open" /\ MayNest /\ UNCHANGED <<result, capped>>
      \/ place' = "full" /\ UNCHANGED <<result, capped>>
      \/ place' = "finish" /\ result' \in SUBSET Errors /\ capped' \in BOOLEAN
  BY <1>1, <1>5 DEF ReadResult, Errors
<1>7. WithinEntry
  BY <1>2, <1>3, <1>4, <1>6 DEF WithinEntry
<1> QED
  BY <1>7, WithinEntryInv

\* The budget ends, or the rest of an entry is read.
LEMMA BudgetInv ==
  ASSUME ArchiveIInv, PrefixOverBudget \/ ReadRest \/ RestOverBudget
  PROVE  ArchiveIInv'
<1>0. /\ rest \in Nat /\ bytesRead \in 0 .. ArchiveMaxBytes
      /\ ArchiveMaxBytes \in Nat
  BY ArchiveAssumption DEF ArchiveIInv, ArchiveTypeOK
<1>1. place \in {"begun", "full"} /\ UNCHANGED <<stack, entries, counters>>
  BY DEF PrefixOverBudget, ReadRest, RestOverBudget
<1>2. bytesRead' \in 0 .. ArchiveMaxBytes
  <2>1. \/ bytesRead' = ArchiveMaxBytes
        \/ rest <= ArchiveMaxBytes - bytesRead /\ bytesRead' = bytesRead + rest
    BY DEF PrefixOverBudget, ReadRest, RestOverBudget, Budget
  <2> QED
    BY <1>0, <2>1
<1>3. rest' \in Nat
  <2>1. rest' \in {0, rest}
    BY DEF PrefixOverBudget, ReadRest, RestOverBudget
  <2> QED
    BY <1>0, <2>1
<1>4. \/ place' = "open" /\ MayNest /\ UNCHANGED <<result, capped>>
      \/ place' = "finish" /\ result' \in SUBSET Errors /\ capped' \in BOOLEAN
  BY DEF PrefixOverBudget, ReadRest, RestOverBudget, ReadResult, Errors
<1>5. WithinEntry
  BY <1>1, <1>2, <1>3, <1>4 DEF WithinEntry
<1> QED
  BY <1>5, WithinEntryInv

\* An irregular entry is passed over.
LEMMA SkipInv == ArchiveIInv /\ SkipEntry => ArchiveIInv'
<1> SUFFICES ASSUME ArchiveIInv, SkipEntry PROVE ArchiveIInv'
  OBVIOUS
<1>0. stack \in Seq(Frames) /\ Len(stack) \in Nat
  BY DEF ArchiveIInv, ArchiveTypeOK, Frames
<1> QED
  BY <1>0, ArchiveAssumption
  DEF SkipEntry, ArchiveIInv, ArchiveTypeOK, StackInv, EntryInv, EntriesAccounted,
      EntriesUnderWay, ErrorInv, Top

\* Opening an archive pushes it or returns an error to the entry that holds it.
LEMMA OpenInv ==
  ASSUME ArchiveIInv, RefuseZIPCount \/ OpenZIP \/ OpenStream \/ OpenMalformed
  PROVE  ArchiveIInv'
<1> USE ArchiveAssumption
<1>0. /\ stack \in Seq(Frames) /\ Len(stack) \in Nat
      /\ stack # <<>> => Len(stack) # 0
  BY EmptySeq DEF ArchiveIInv, ArchiveTypeOK, Frames
<1>1. CASE RefuseZIPCount \/ OpenMalformed
  BY <1>0, <1>1
  DEF RefuseZIPCount, OpenMalformed, ReturnWith, counters, Errors, ArchiveIInv,
      ArchiveTypeOK, StackInv, EntryInv, EntriesAccounted, EntriesUnderWay,
      ErrorInv, Top
<1>2. CASE OpenZIP \/ OpenStream
  <2>1. PICK f \in Formats, n \in Nat : stack' = Append(stack, Frame(f, n))
    BY <1>2 DEF OpenZIP, OpenStream, Formats
  <2>2. /\ stack' \in Seq(Frames)
        /\ Len(stack') = Len(stack) + 1
        /\ \A i \in 1 .. Len(stack) : stack'[i] = stack[i]
        /\ stack'[Len(stack')].errors = {}
        /\ stack' # <<>>
    BY <1>0, <2>1, PushFacts
  <2>3. /\ place = "open" /\ place' = "next"
        /\ UNCHANGED <<rest, result, capped, entries, bytesRead, counters>>
    BY <1>2 DEF OpenZIP, OpenStream
  <2>4. ErrorInv'
    BY <1>0, <2>2, <2>3 DEF ErrorInv, Top, ArchiveIInv
  <2> QED
    BY <1>0, <2>2, <2>3, <2>4
    DEF counters, ArchiveIInv, ArchiveTypeOK, StackInv, EntryInv,
        EntriesAccounted, EntriesUnderWay, Frames
<1> QED
  BY <1>1, <1>2

\* An entry is taken, within the limit or beyond it.
LEMMA BeginInv == ArchiveIInv /\ BeginEntry => ArchiveIInv'
<1> SUFFICES ASSUME ArchiveIInv, BeginEntry PROVE ArchiveIInv'
  OBVIOUS
<1>0. /\ stack \in Seq(Frames) /\ Len(stack) \in Nat /\ stack # <<>>
      /\ place = "next" /\ Top.left > 0 /\ entries \in Nat
      /\ ArchiveMaxEntries \in Nat
  BY ArchiveAssumption
  DEF BeginEntry, ArchiveIInv, ArchiveTypeOK, StackInv, Frames
<1>1. /\ stack' \in Seq(Frames)
      /\ Len(stack') = Len(stack)
      /\ \A i \in 1 .. Len(stack) : stack'[i].errors = stack[i].errors
  BY <1>0, TakeEntryFacts DEF BeginEntry
<1>2. /\ place' = "begun" /\ entries < ArchiveMaxEntries
      /\ entries' = entries + 1 /\ discovered' = discovered + 1
      /\ UNCHANGED <<rest, result, capped, bytesRead, scanned, cappedEntries,
                     skipped>>
  BY DEF BeginEntry
<1>3. ArchiveTypeOK'
  <2>1. stack' \in Seq([format : Formats, left : Nat, errors : SUBSET Errors])
    BY <1>1 DEF Frames
  <2> QED
    BY <1>2, <2>1 DEF ArchiveIInv, ArchiveTypeOK
<1>4. StackInv'
  <2>1. Len(stack) \in Nat \ {0}
    BY <1>0, TopFacts
  <2>2. stack' # <<>>
    BY <1>1, <2>1
  <2> QED
    BY <1>0, <1>1, <1>2, <2>2 DEF ArchiveIInv, StackInv
<1>5. EntryInv'
  BY <1>0, <1>2 DEF EntryInv
<1>6. EntriesAccounted'
  BY <1>0, <1>1, <1>2
  DEF ArchiveIInv, ArchiveTypeOK, EntriesAccounted, EntriesUnderWay
<1>7. ErrorInv'
  <2>1. Len(stack) \in Nat \ {0}
    BY <1>0, TopFacts
  <2>2. "bytes" \notin Top.errors /\ result = {}
    BY <1>0 DEF ArchiveIInv, ErrorInv
  <2>3. Top.errors = Top'.errors
    BY <1>1, <2>1 DEF Top
  <2>4. \A i \in 1 .. Len(stack') - 1 : "bytes" \notin stack'[i].errors
    <3>1. \A i \in 1 .. Len(stack) - 1 : "bytes" \notin stack[i].errors
      BY DEF ArchiveIInv, ErrorInv
    <3> QED
      BY <1>1, <2>1, <3>1
  <2>5. result' = {} /\ "bytes" \notin Top'.errors
    BY <1>2, <2>2, <2>3
  <2> QED
    BY <2>4, <2>5 DEF ErrorInv
<1> QED
  BY <1>3, <1>4, <1>5, <1>6, <1>7 DEF ArchiveIInv


\* An entry, or the archive, ends and the errors E are merged into the
\* innermost archive.
Merge(E) ==
  /\ stack' \in Seq(Frames) /\ stack' # <<>>
  /\ Len(stack') = Len(stack)
  /\ \A i \in 1 .. Len(stack) - 1 : stack'[i] = stack[i]
  /\ Top'.errors = Top.errors \cup E

\* AddToTop merges; so does an end without a further error.
LEMMA MergeFacts ==
  ASSUME ArchiveIInv, place \in {"next", "begun", "finish"},
         NEW E \in SUBSET Errors,
         stack' = AddToTop(E) \/ (E = {} /\ stack' = stack)
  PROVE  Merge(E)
<1>0. stack \in Seq(Frames) /\ stack # <<>>
  BY DEF ArchiveIInv, ArchiveTypeOK, StackInv, Frames
<1>1. Len(stack) \in Nat \ {0}
  BY <1>0, TopFacts
<1>2. CASE stack' = AddToTop(E)
  <2>1. /\ stack' \in Seq(Frames) /\ Len(stack') = Len(stack)
        /\ \A i \in 1 .. Len(stack) - 1 : stack'[i] = stack[i]
        /\ stack'[Len(stack)].errors = Top.errors \cup E
    BY <1>0, <1>2, AddToTopFacts
  <2>2. stack' # <<>>
    BY <1>1, <2>1
  <2>3. Top' = stack'[Len(stack')]
    BY DEF Top
  <2> QED
    BY <2>1, <2>2, <2>3 DEF Merge
<1>3. CASE E = {} /\ stack' = stack
  BY <1>0, <1>3 DEF Merge, Top
<1> QED
  BY <1>2, <1>3

\* What a merge keeps, however the entry is counted.
LEMMA MergeKeeps ==
  ASSUME ArchiveIInv, place \in {"next", "begun", "finish"},
         place' \in {"next", "return"},
         NEW E \in SUBSET Errors, Merge(E), "bytes" \in E => place' = "return",
         result' = {} \/ (result' = result /\ place # "finish")
  PROVE  StackInv' /\ ErrorInv'
<1>0. Len(stack) \in Nat \ {0}
  BY TopFacts DEF ArchiveIInv, ArchiveTypeOK, StackInv, Frames
<1>1. /\ "bytes" \notin Top.errors /\ (result # {} => place = "finish")
      /\ \A i \in 1 .. Len(stack) - 1 : "bytes" \notin stack[i].errors
  BY DEF ArchiveIInv, ErrorInv, StackInv
<1>2. StackInv'
  BY DEF ArchiveIInv, StackInv, Merge
<1>3. ErrorInv'
  BY <1>0, <1>1 DEF ErrorInv, Merge
<1> QED
  BY <1>2, <1>3

\* The entry beyond the limit.
LEMMA RefuseInv == ArchiveIInv /\ RefuseEntry => ArchiveIInv'
<1> SUFFICES ASSUME ArchiveIInv, RefuseEntry PROVE ArchiveIInv'
  OBVIOUS
<1>0. /\ place = "next" /\ place' = "return"
      /\ entries' = entries + 1 /\ entries >= ArchiveMaxEntries
      /\ discovered' = discovered + 1 /\ skipped' = skipped + 1
      /\ UNCHANGED <<rest, result, capped, bytesRead, scanned, cappedEntries>>
  BY DEF RefuseEntry
<1>1. Merge({"entries"}) /\ StackInv' /\ ErrorInv'
  <2>1. {"entries"} \in SUBSET Errors /\ "bytes" \notin {"entries"}
    BY DEF Errors
  <2>2. stack' = AddToTop({"entries"})
    BY DEF RefuseEntry
  <2>3. Merge({"entries"})
    BY <1>0, <2>1, <2>2, MergeFacts
  <2> QED
    BY <1>0, <2>1, <2>3, MergeKeeps
<1>2. /\ Len(stack) \in Nat /\ Len(stack') = Len(stack)
      /\ stack' \in Seq([format : Formats, left : Nat, errors : SUBSET Errors])
  BY <1>1 DEF ArchiveIInv, ArchiveTypeOK, Merge, Frames
<1>3. ArchiveTypeOK'
  BY <1>0, <1>2 DEF ArchiveIInv, ArchiveTypeOK
<1>4. EntryInv'
  BY <1>0, <1>2, ArchiveAssumption
  DEF ArchiveIInv, ArchiveTypeOK, StackInv, EntryInv
<1>5. EntriesAccounted'
  BY <1>0, <1>2 DEF ArchiveIInv, ArchiveTypeOK, EntriesAccounted, EntriesUnderWay
<1> QED
  BY <1>1, <1>3, <1>4, <1>5 DEF ArchiveIInv

\* The archive ends.
LEMMA EndInv == ArchiveIInv /\ EndArchive => ArchiveIInv'
<1> SUFFICES ASSUME ArchiveIInv, EndArchive PROVE ArchiveIInv'
  OBVIOUS
<1>0. /\ place = "next" /\ place' = "return"
      /\ UNCHANGED <<rest, result, capped, entries, bytesRead, discovered,
                     scanned, cappedEntries, skipped>>
  BY DEF EndArchive, counters
<1>1. PICK E \in SUBSET Errors : Merge(E)
  <2>1. {} \in SUBSET Errors /\ {"unreadable"} \in SUBSET Errors
    BY DEF Errors
  <2>2. stack' = stack \/ stack' = AddToTop({"unreadable"})
    BY DEF EndArchive
  <2>3. PICK E \in SUBSET Errors :
          stack' = AddToTop(E) \/ (E = {} /\ stack' = stack)
    BY <2>1, <2>2
  <2>4. Merge(E)
    BY <1>0, <2>3, MergeFacts
  <2> QED
    BY <2>4
<1>2. StackInv' /\ ErrorInv'
  BY <1>0, <1>1, MergeKeeps
<1>3. /\ Len(stack) \in Nat /\ Len(stack') = Len(stack)
      /\ stack' \in Seq([format : Formats, left : Nat, errors : SUBSET Errors])
  BY <1>1 DEF ArchiveIInv, ArchiveTypeOK, Merge, Frames
<1>4. ArchiveTypeOK'
  BY <1>0, <1>3 DEF ArchiveIInv, ArchiveTypeOK
<1>5. EntryInv'
  BY <1>0, <1>3, ArchiveAssumption
  DEF ArchiveIInv, ArchiveTypeOK, StackInv, EntryInv
<1>6. EntriesAccounted'
  BY <1>0, <1>3 DEF ArchiveIInv, ArchiveTypeOK, EntriesAccounted, EntriesUnderWay
<1> QED
  BY <1>2, <1>4, <1>5, <1>6 DEF ArchiveIInv

\* An entry is counted as scanned, opened or not.
LEMMA ScannedInv ==
  ArchiveIInv /\ (UnreadableEntry \/ FinishEntry) => ArchiveIInv'
<1> SUFFICES ASSUME ArchiveIInv, UnreadableEntry \/ FinishEntry PROVE ArchiveIInv'
  OBVIOUS
<1>0. /\ place \in {"begun", "finish"} /\ place' \in {"next", "return"}
      /\ (place = "begun" => place' = "next")
      /\ scanned' = scanned + 1
      /\ result' = {} \/ (result' = result /\ place # "finish")
      /\ capped' \in BOOLEAN
      /\ UNCHANGED <<rest, entries, bytesRead, discovered, skipped>>
  BY DEF UnreadableEntry, FinishEntry, ArchiveIInv, ArchiveTypeOK
<1>1. PICK E \in SUBSET Errors : Merge(E) /\ ("bytes" \in E => place' = "return")
  <2>1. /\ result \in SUBSET Errors /\ {} \in SUBSET Errors
        /\ {"unreadable"} \in SUBSET Errors
    BY DEF ArchiveIInv, ArchiveTypeOK, Errors
  <2>2. PICK E \in SUBSET Errors : /\ stack' = AddToTop(E)
                                   /\ "bytes" \in E => place' = "return"
    <3>1. CASE UnreadableEntry
      BY <2>1, <3>1 DEF UnreadableEntry
    <3>2. CASE FinishEntry
      <4>1. PICK e \in {{}, {"unreadable"}} : stack' = AddToTop(result \cup e)
        BY <3>2 DEF FinishEntry, CloseErrors
      <4>2. result \cup e \in SUBSET Errors
        BY <2>1
      <4>3. "bytes" \in result \cup e => "bytes" \in result
        OBVIOUS
      <4> QED
        BY <3>2, <4>1, <4>2, <4>3 DEF FinishEntry
    <3> QED
      BY <3>1, <3>2
  <2>3. Merge(E)
    BY <1>0, <2>2, MergeFacts
  <2> QED
    BY <2>2, <2>3
<1>2. StackInv' /\ ErrorInv'
  BY <1>0, <1>1, MergeKeeps
<1>3. /\ Len(stack) \in Nat /\ Len(stack') = Len(stack)
      /\ stack' \in Seq([format : Formats, left : Nat, errors : SUBSET Errors])
  BY <1>1 DEF ArchiveIInv, ArchiveTypeOK, Merge, Frames
<1>4. ArchiveTypeOK'
  <2>1. cappedEntries' \in Nat
    BY DEF UnreadableEntry, FinishEntry, ArchiveIInv, ArchiveTypeOK
  <2>2. result' \in SUBSET Errors
    BY <1>0 DEF ArchiveIInv, ArchiveTypeOK
  <2> QED
    BY <1>0, <1>3, <2>1, <2>2 DEF ArchiveIInv, ArchiveTypeOK
<1>5. EntryInv'
  BY <1>0, <1>3, ArchiveAssumption
  DEF ArchiveIInv, ArchiveTypeOK, StackInv, EntryInv
<1>6. EntriesAccounted'
  <2>1. EntriesUnderWay = Len(stack) /\ EntriesUnderWay' = Len(stack) - 1
    BY <1>0, <1>3 DEF EntriesUnderWay
  <2>2. /\ entries = discovered
        /\ discovered = scanned + skipped + EntriesUnderWay
        /\ scanned \in Nat /\ skipped \in Nat /\ discovered \in Nat
    BY DEF ArchiveIInv, ArchiveTypeOK, EntriesAccounted
  <2> QED
    BY <1>0, <1>3, <2>1, <2>2 DEF EntriesAccounted
<1> QED
  BY <1>2, <1>4, <1>5, <1>6 DEF ArchiveIInv

\* An archive leaves the stack.
LEMMA ReturnInv == ArchiveIInv /\ ReturnOutcome => ArchiveIInv'
<1> SUFFICES ASSUME ArchiveIInv, ReturnOutcome PROVE ArchiveIInv'
  OBVIOUS
<1> DEFINE n == Len(stack) - 1
<1>0. /\ place = "return" /\ stack \in Seq(Frames) /\ stack # <<>>
      /\ stack' = SubSeq(stack, 1, n)
      /\ result' = Top.errors /\ capped' = FALSE
      /\ place' = IF stack' = <<>> THEN "done" ELSE "finish"
      /\ UNCHANGED <<rest, entries, bytesRead, discovered, scanned,
                     cappedEntries, skipped>>
  BY DEF ReturnOutcome, ReturnWith, counters, ArchiveIInv, ArchiveTypeOK,
     StackInv, Frames
<1>1. /\ n \in Nat /\ Len(stack) = n + 1 /\ Top.errors \in SUBSET Errors
      /\ stack' \in Seq(Frames) /\ Len(stack') = n
      /\ \A i \in 1 .. n : stack'[i] = stack[i]
  BY <1>0, TopFacts, PopFacts
<1> HIDE DEF n
<1>2. ArchiveTypeOK'
  <2>1. stack' \in Seq([format : Formats, left : Nat, errors : SUBSET Errors])
    BY <1>1 DEF Frames
  <2> QED
    BY <1>0, <1>1, <2>1 DEF ArchiveIInv, ArchiveTypeOK
<1>3. StackInv'
  BY <1>0, <1>1, ArchiveAssumption DEF ArchiveIInv, StackInv
<1>4. EntryInv'
  BY <1>0, <1>1, ArchiveAssumption DEF ArchiveIInv, ArchiveTypeOK, EntryInv
<1>5. EntriesAccounted'
  BY <1>0, <1>1 DEF ArchiveIInv, ArchiveTypeOK, EntriesAccounted, EntriesUnderWay
<1>6. ErrorInv'
  <2>1. \A i \in 1 .. n : "bytes" \notin stack'[i].errors
    BY <1>1 DEF ArchiveIInv, ErrorInv
  <2>2. stack' # <<>> => n \in 1 .. n
    BY <1>1, EmptySeq
  <2>3. Top' = stack'[n]
    BY <1>1 DEF Top
  <2> QED
    BY <1>0, <1>1, <2>1, <2>2, <2>3 DEF ErrorInv
<1> QED
  BY <1>2, <1>3, <1>4, <1>5, <1>6 DEF ArchiveIInv


\* Every step keeps the invariant.
LEMMA NextInv == ArchiveIInv /\ [ArchiveNext]_archiveVars => ArchiveIInv'
<1> SUFFICES ASSUME ArchiveIInv, [ArchiveNext]_archiveVars PROVE ArchiveIInv'
  OBVIOUS
<1>1. CASE RefuseZIPCount \/ OpenZIP \/ OpenStream \/ OpenMalformed
  BY <1>1, OpenInv
<1>2. CASE BeginEntry \/ RefuseEntry \/ EndArchive \/ SkipEntry
  BY <1>2, BeginInv, RefuseInv, EndInv, SkipInv
<1>3. CASE \/ ScanPrefix \/ PrefixCorrupt \/ RefuseDepth
           \/ NestArchive \/ NeedFullEntry
  BY <1>3, PrefixInv
<1>4. CASE PrefixOverBudget \/ ReadRest \/ RestOverBudget
  BY <1>4, BudgetInv
<1>5. CASE UnreadableEntry \/ FinishEntry \/ ReturnOutcome
  BY <1>5, ScannedInv, ReturnInv
<1>6. CASE UNCHANGED archiveVars
  BY <1>6
  DEF archiveVars, counters, ArchiveIInv, ArchiveTypeOK, StackInv, EntryInv,
      EntriesAccounted, EntriesUnderWay, ErrorInv, Top
<1> QED
  BY <1>1, <1>2, <1>3, <1>4, <1>5, <1>6 DEF ArchiveNext, ArchiveStep, ArchiveDone

THEOREM ArchiveInvariant == ArchiveSpec => []ArchiveIInv
  BY InitInv, NextInv, PTL DEF ArchiveSpec

-----------------------------------------------------------------------------
(* The properties.                                                         *)

\* Every state of the walk has its type; scanner.bytesRead stays within the
\* budget it is compared with.
THEOREM ArchiveTypeCorrect == ArchiveSpec => []ArchiveTypeOK
<1>1. ArchiveIInv => ArchiveTypeOK
  BY DEF ArchiveIInv
<1> QED
  BY <1>1, ArchiveInvariant, PTL

\* Whatever the limits and the archive: scanEntry and beginEntry keep the
\* three limits, counting one refused entry per nesting level.
THEOREM LimitsHold == ArchiveSpec => []LimitsKept
<1>1. ArchiveIInv => LimitsKept
  <2> SUFFICES ASSUME ArchiveIInv PROVE LimitsKept
    OBVIOUS
  <2>1. /\ bytesRead \in 0 .. ArchiveMaxBytes /\ entries \in Nat
        /\ Len(stack) \in Nat /\ Len(stack) <= ArchiveMaxDepth
        /\ place \in {"begun", "full", "open"} => entries <= ArchiveMaxEntries
    BY DEF ArchiveIInv, ArchiveTypeOK, StackInv, EntryInv
  <2>2. place = "return" => Len(stack) \in Nat \ {0}
    BY TopFacts DEF ArchiveIInv, ArchiveTypeOK, StackInv, Frames
  <2>3. entries <= ArchiveMaxEntries + ArchiveMaxDepth
    BY <2>1, <2>2, ArchiveAssumption DEF ArchiveIInv, EntryInv
  <2> QED
    BY <2>1, <2>3, ArchiveAssumption DEF LimitsKept
<1> QED
  BY <1>1, ArchiveInvariant, PTL

\* "Validated positive limits keep this nonnegative": where checkZIPEntryCount
\* converts the remaining entries to uint64, nothing wraps around.
THEOREM RemainingStaysNonnegative == ArchiveSpec => []RemainingNonnegative
<1>1. ArchiveIInv => RemainingNonnegative
  <2> SUFFICES ASSUME ArchiveIInv, place = "open"
               PROVE  RemainingEntries = ArchiveMaxEntries - entries
    BY DEF RemainingNonnegative
  <2> DEFINE r == ArchiveMaxEntries - entries
  <2>1. r \in Nat /\ WordSize \in Nat /\ r < WordSize
    BY ArchiveAssumption DEF ArchiveIInv, ArchiveTypeOK, EntryInv
  <2> HIDE DEF r
  <2>2. r % WordSize = r
    BY <2>1
  <2> QED
    BY <2>2 DEF r, RemainingEntries
<1> QED
  BY <1>1, ArchiveInvariant, PTL

\* Every discovered entry is scanned once, skipped, refused or under way: the
\* progress adds up in every state, whichever errors end the walks.
THEOREM EntriesAddUp == ArchiveSpec => []EntriesAccounted
<1>1. ArchiveIInv => EntriesAccounted
  BY DEF ArchiveIInv
<1> QED
  BY <1>1, ArchiveInvariant, PTL


\* Where an error may be pending.
LEMMA PendingFacts ==
  ASSUME ArchiveTypeOK
  PROVE  \A e : e \in PendingErrors <=>
                  e \in result \/ \E i \in 1 .. Len(stack) : e \in stack[i].errors
<1>1. DOMAIN stack = 1 .. Len(stack)
  BY DEF ArchiveTypeOK
<1> QED
  BY <1>1 DEF PendingErrors

\* ErrByteLimit, once in an outcome, stops every enclosing walk: beginEntry is
\* never called again and nothing more is decompressed.
THEOREM ByteLimitFinal == ArchiveSpec => ByteLimitStops
<1> DEFINE Exhausted ==
             /\ "bytes" \in PendingErrors => entries' = entries /\ bytesRead' = bytesRead
             /\ place \in {"begun", "full"} /\ "bytes" \in result' =>
                  /\ bytesRead' = ArchiveMaxBytes
                  /\ place = "full" => rest > Budget
<1>1. ASSUME ArchiveIInv, ArchiveNext PROVE Exhausted
  <2>1. "bytes" \in PendingErrors => place \in {"finish", "done", "return"}
    <3> SUFFICES ASSUME "bytes" \in PendingErrors
                 PROVE  place \in {"finish", "done", "return"}
      OBVIOUS
    <3>1. CASE "bytes" \in result
      BY <1>1, <3>1 DEF ArchiveIInv, ErrorInv
    <3>2. CASE \E i \in 1 .. Len(stack) : "bytes" \in stack[i].errors
      <4>1. PICK i \in 1 .. Len(stack) : "bytes" \in stack[i].errors
        BY <3>2
      <4>2. Len(stack) \in Nat
        BY <1>1 DEF ArchiveIInv, ArchiveTypeOK
      <4>3. i = Len(stack) /\ stack # <<>>
        BY <1>1, <4>1, <4>2 DEF ArchiveIInv, ErrorInv
      <4> QED
        BY <1>1, <4>1, <4>3 DEF ArchiveIInv, ErrorInv, Top
    <3> QED
      BY <1>1, <3>1, <3>2, PendingFacts DEF ArchiveIInv
  <2>2. ASSUME "bytes" \in PendingErrors
        PROVE  entries' = entries /\ bytesRead' = bytesRead
    <3>1. FinishEntry \/ ReturnOutcome \/ ArchiveDone
      BY <1>1, <2>1, <2>2
      DEF ArchiveNext, ArchiveStep, RefuseZIPCount, OpenZIP, OpenStream,
          OpenMalformed, BeginEntry, RefuseEntry, EndArchive, SkipEntry,
          UnreadableEntry, ScanPrefix, PrefixCorrupt, RefuseDepth, NestArchive,
          NeedFullEntry, ReadPrefix, PrefixOverBudget, ReadRest, RestOverBudget
    <3> QED
      BY <3>1 DEF FinishEntry, ReturnOutcome, ArchiveDone, archiveVars
  <2>3. ASSUME place \in {"begun", "full"}, "bytes" \in result'
        PROVE  bytesRead' = ArchiveMaxBytes /\ (place = "full" => rest > Budget)
    <3>1. "bytes" \notin result
      BY <2>1, <2>3 DEF PendingErrors
    <3>2. PrefixOverBudget \/ RestOverBudget
      BY <1>1, <2>3, <3>1
      DEF ArchiveNext, ArchiveStep, RefuseZIPCount, OpenZIP, OpenStream,
          OpenMalformed, BeginEntry, RefuseEntry, EndArchive, SkipEntry,
          UnreadableEntry, ScanPrefix, PrefixCorrupt, RefuseDepth, NestArchive,
          NeedFullEntry, ReadPrefix, ReadRest, FinishEntry, ReturnOutcome,
          ArchiveDone, ReadResult
    <3> QED
      BY <2>3, <3>2 DEF PrefixOverBudget, RestOverBudget
  <2> QED
    BY <2>2, <2>3
<1>2. ASSUME ArchiveIInv, [ArchiveNext]_archiveVars PROVE [Exhausted]_archiveVars
  BY <1>1, <1>2
<1> QED
  BY <1>2, ArchiveInvariant, PTL DEF ArchiveSpec, ByteLimitStops


\* No error is lost: an outcome that scanEntry or a nested archive returns is
\* merged, and the merged errors of an archive are what it returns.
THEOREM ErrorsKept == ArchiveSpec => ErrorsNeverLost
<1>1. ASSUME ArchiveIInv, [ArchiveNext]_archiveVars
      PROVE  [PendingErrors \subseteq PendingErrors']_archiveVars
  <2>0. /\ ArchiveTypeOK /\ ArchiveTypeOK'
        /\ stack \in Seq(Frames) /\ Len(stack) \in Nat
        /\ result # {} => place \in {"finish", "done"}
        /\ place \in {"next", "begun", "finish", "return"} => stack # <<>>
    <3>1. ArchiveIInv'
      BY <1>1, NextInv
    <3>2. ArchiveTypeOK /\ StackInv /\ ErrorInv /\ ArchiveTypeOK'
      BY <1>1, <3>1 DEF ArchiveIInv
    <3>3. stack \in Seq(Frames) /\ Len(stack) \in Nat
      BY <3>2 DEF ArchiveTypeOK, Frames
    <3> QED
      BY <3>2, <3>3 DEF StackInv, ErrorInv
  <2> SUFFICES ASSUME ArchiveNext, NEW e \in PendingErrors
               PROVE  e \in PendingErrors'
    BY <1>1
  <2> DEFINE OnStack == \E i \in 1 .. Len(stack) : e \in stack[i].errors
  <2>1. e \in result \/ OnStack
    BY <2>0, PendingFacts
  <2>2. e \in result' \/ OnStack' => e \in PendingErrors'
    <3>1. DOMAIN stack' = 1 .. Len(stack')
      BY <2>0 DEF ArchiveTypeOK
    <3> QED
      BY <3>1 DEF PendingErrors
  <2>3. CASE stack' = stack /\ (result' = result \/ result = {})
    BY <2>1, <2>2, <2>3
  <2>4. CASE OpenZIP \/ OpenStream
    <3>1. PICK f \in Formats, n \in Nat : stack' = Append(stack, Frame(f, n))
      BY <2>4, ArchiveAssumption DEF OpenZIP, OpenStream, Formats
    <3>2. result' = result
      BY <2>4 DEF OpenZIP, OpenStream
    <3> QED
      BY <2>0, <2>1, <2>2, <3>1, <3>2, PushFacts
  <2>5. CASE BeginEntry
    <3>1. /\ Len(stack') = Len(stack) /\ result' = result
          /\ \A i \in 1 .. Len(stack) : stack'[i].errors = stack[i].errors
      BY <2>0, <2>5, TakeEntryFacts DEF BeginEntry
    <3> QED
      BY <2>1, <2>2, <3>1
  <2>6. CASE RefuseEntry \/ EndArchive \/ UnreadableEntry \/ FinishEntry
    <3>1. PICK E \in SUBSET Errors :
            Merge(E) /\ (result \subseteq E \/ result' = result)
      <4>1. /\ result \in SUBSET Errors
            /\ \A E \in {{"entries"}, {"unreadable"}} : E \in SUBSET Errors
        BY <2>0 DEF ArchiveTypeOK, Errors
      <4>2. \E E \in SUBSET Errors :
              /\ stack' = AddToTop(E) \/ (E = {} /\ stack' = stack)
              /\ result \subseteq E \/ result' = result
        <5>1. CASE RefuseEntry
          BY <4>1, <5>1 DEF RefuseEntry
        <5>2. CASE EndArchive \/ UnreadableEntry
          <6>1. /\ stack' = stack \/ stack' = AddToTop({"unreadable"})
                /\ result' = result
            BY <5>2 DEF EndArchive, UnreadableEntry
          <6>2. {} \in SUBSET Errors /\ {"unreadable"} \in SUBSET Errors
            BY <4>1
          <6> QED
            BY <6>1, <6>2
        <5>3. CASE FinishEntry
          <6>1. PICK f \in {{}, {"unreadable"}} : stack' = AddToTop(result \cup f)
            BY <5>3 DEF FinishEntry, CloseErrors
          <6>2. result \cup f \in SUBSET Errors /\ result \subseteq result \cup f
            BY <4>1
          <6> QED
            BY <6>1, <6>2
        <5> QED
          BY <2>6, <5>1, <5>2, <5>3
      <4>3. place \in {"next", "begun", "finish"}
        BY <2>6 DEF RefuseEntry, EndArchive, UnreadableEntry, FinishEntry
      <4> QED
        BY <1>1, <4>2, <4>3, MergeFacts
    <3>2. /\ Len(stack') = Len(stack) /\ stack # <<>>
          /\ \A i \in 1 .. Len(stack) - 1 : stack'[i] = stack[i]
          /\ stack'[Len(stack)].errors = stack[Len(stack)].errors \cup E
      BY <2>0, <2>6, <3>1
      DEF Merge, Top, RefuseEntry, EndArchive, UnreadableEntry, FinishEntry
    <3>3. Len(stack) \in 1 .. Len(stack)
      BY <2>0, <3>2, TopFacts
    <3> QED
      BY <2>0, <2>1, <2>2, <3>1, <3>2, <3>3
  <2>7. CASE ReturnOutcome
    <3>1. /\ result = {} /\ result' = stack[Len(stack)].errors
          /\ Len(stack') = Len(stack) - 1
          /\ \A i \in 1 .. Len(stack) - 1 : stack'[i] = stack[i]
      BY <2>0, <2>7, PopFacts DEF ReturnOutcome, ReturnWith, Top
    <3> QED
      BY <2>0, <2>1, <2>2, <3>1
  <2>8. CASE RefuseZIPCount \/ OpenMalformed \/ SkipEntry \/ ScanPrefix
             \/ PrefixCorrupt \/ RefuseDepth \/ NestArchive \/ NeedFullEntry
             \/ PrefixOverBudget \/ ReadRest \/ RestOverBudget
    <3>1. place \notin {"finish", "done"} /\ stack' = stack
      BY <2>8
      DEF RefuseZIPCount, OpenMalformed, SkipEntry, ScanPrefix, PrefixCorrupt,
          RefuseDepth, NestArchive, NeedFullEntry, ReadPrefix, PrefixOverBudget,
          ReadRest, RestOverBudget
    <3> QED
      BY <2>0, <2>3, <3>1
  <2>9. CASE ArchiveDone
    BY <2>3, <2>9 DEF ArchiveDone, archiveVars
  <2> QED
    BY <2>4, <2>5, <2>6, <2>7, <2>8, <2>9 DEF ArchiveNext, ArchiveStep
<1> QED
  BY <1>1, ArchiveInvariant, PTL DEF ArchiveSpec, ErrorsNeverLost

=============================================================================
