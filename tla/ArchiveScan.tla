---------------------------- MODULE ArchiveScan ----------------------------
(***************************************************************************)
(* The scan of one outer archive by one worker (scanner/archive.go)        *)
(* with its three safety limits: decompressed bytes and entries, shared by *)
(* all nesting levels, and nesting depth.                                  *)
(*                                                                         *)
(* The recursion scanZIP, scanTAR, scanGZIP -> scanEntry ->                *)
(* scanArchiveBytes -> scanZIP, ... is a stack of frames, one per archive  *)
(* being walked.  What the archive contains is not known in advance: every *)
(* reader's answer (another entry, its size and its kind, an end, an       *)
(* error) is chosen when the code asks for it.                             *)
(***************************************************************************)
EXTENDS Integers, Sequences, FiniteSets

CONSTANTS
  MaxBytes,           \* options.MaxBytes, 0 for no limit per entry
  ArchiveMaxBytes,    \* options.ArchiveMaxBytes
  ArchiveMaxEntries,  \* options.ArchiveMaxEntries
  ArchiveMaxDepth,    \* options.ArchiveMaxDepth
  EntrySizes,         \* decompressed sizes an entry may have
  EntryCounts,        \* entry counts of a ZIP, stated or listed
  WordSize            \* uint64 arithmetic is modulo WordSize

\* Scan rejects limits that are not positive before any worker starts.
ASSUME ArchiveAssumption ==
  /\ MaxBytes \in Nat
  /\ ArchiveMaxBytes \in Nat \ {0}
  /\ ArchiveMaxEntries \in Nat \ {0}
  /\ ArchiveMaxDepth \in Nat \ {0}
  /\ EntrySizes \subseteq Nat /\ EntrySizes # {}
  /\ EntryCounts \subseteq Nat /\ EntryCounts # {}
  /\ WordSize \in Nat /\ ArchiveMaxEntries < WordSize
  /\ \A n \in EntryCounts : n < WordSize

Formats == {"zip", "tar", "gzip"}

\* The errors an outcome may join: the three limits, and whatever cannot be
\* parsed, opened or read.
Errors == {"bytes", "entries", "depth", "unreadable"}

VARIABLES
  stack,              \* the archives being walked, the outer one first
  place,              \* what the code does next
  rest,               \* bytes of the entry behind its prefix, still to be read
  result,             \* errors of the call that has just returned
  capped,             \* whether that call stopped at MaxBytes
  entries,            \* scanner.entries
  bytesRead,          \* scanner.bytesRead
  discovered,         \* sums of the progress callback
  scanned,
  cappedEntries,
  skipped             \* history: entries counted and never scanned

counters == <<discovered, scanned, cappedEntries, skipped>>
archiveVars ==
  <<stack, place, rest, result, capped, entries, bytesRead, counters>>

Min2(a, b) == IF a <= b THEN a ELSE b

Top == stack[Len(stack)]
AddToTop(errors) == [stack EXCEPT ![Len(stack)].errors = @ \cup errors]
TakeEntry == IF Top.format = "tar" THEN stack
             ELSE [stack EXCEPT ![Len(stack)].left = @ - 1]
Frame(f, n) == [format |-> f, left |-> n, errors |-> {}]

ArchiveInit ==
  /\ stack = <<>>
  /\ place = "open"
  /\ rest = 0
  /\ result = {}
  /\ capped = FALSE
  /\ entries = 0
  /\ bytesRead = 0
  /\ discovered = 0
  /\ scanned = 0
  /\ cappedEntries = 0
  /\ skipped = 0

\* A call returns to its caller with these errors: to the entry that holds the
\* archive, or out of scanArchiveFile.
ReturnWith(errors) ==
  /\ result' = errors
  /\ capped' = FALSE
  /\ place' = IF stack' = <<>> THEN "done" ELSE "finish"

\* An entry's outcome is there.
ReadResult(errors, isCapped) ==
  /\ result' = errors
  /\ capped' = isCapped
  /\ place' = "finish"

\* archiveBudgetReader: what may still be decompressed.
Budget == ArchiveMaxBytes - bytesRead

-----------------------------------------------------------------------------
(* Slips, each in place of the definition it is named after.               *)

\* beginEntry tests the limit before it counts: the entry after the limit is
\* admitted.
LateBeginEntry ==
  /\ place = "next" /\ Top.left > 0
  /\ entries <= ArchiveMaxEntries
  /\ entries' = entries + 1
  /\ discovered' = discovered + 1
  /\ stack' = TakeEntry
  /\ place' = "begun"
  /\ UNCHANGED <<rest, result, capped, bytesRead, scanned, cappedEntries,
                 skipped>>

\* Only regular entries count against the limit.
UncountedSkipEntry ==
  /\ place = "begun" /\ Top.format # "gzip"
  /\ entries' = entries - 1
  /\ discovered' = discovered - 1
  /\ place' = "next"
  /\ UNCHANGED <<stack, rest, result, capped, bytesRead, scanned, cappedEntries,
                 skipped>>

\* finishEntry forgotten where an entry cannot be opened.
UncountedUnreadableEntry ==
  /\ place = "begun" /\ Top.format = "zip"
  /\ stack' = AddToTop({"unreadable"})
  /\ place' = "next"
  /\ UNCHANGED <<rest, result, capped, entries, bytesRead, counters>>

\* The depth is tested against the archive that is opened, not against the
\* one that holds it: one level too many.
DeepMayNest == Len(stack) <= ArchiveMaxDepth

\* The error of an archive that has been given up replaces those of its entries.
ForgetfulReturnOutcome ==
  /\ place = "return"
  /\ stack' = SubSeq(stack, 1, Len(stack) - 1)
  /\ ReturnWith(IF "entries" \in Top.errors THEN {"entries"} ELSE Top.errors)
  /\ UNCHANGED <<rest, entries, bytesRead, counters>>

\* The walk goes on after the byte budget is exhausted.
StubbornFinishEntry ==
  /\ place = "finish"
  /\ scanned' = scanned + 1
  /\ cappedEntries' = cappedEntries + (IF capped THEN 1 ELSE 0)
  /\ stack' = AddToTop(result)
  /\ result' = {} /\ capped' = FALSE
  /\ place' = IF Top.format = "gzip" THEN "return" ELSE "next"
  /\ UNCHANGED <<rest, entries, bytesRead, discovered, skipped>>

\* scanEntry refuses an archive in an entry of the deepest archive.
MayNest == Len(stack) < ArchiveMaxDepth

-----------------------------------------------------------------------------
(* Opening an archive: scanArchiveFile and scanArchiveBytes.               *)

\* The entries the limit still admits, converted to uint64.
RemainingEntries == (ArchiveMaxEntries - entries) % WordSize

\* checkZIPEntryCount refuses a footer that states too many entries.
RefuseZIPCount ==
  /\ place = "open"
  /\ \E stated \in EntryCounts : stated > RemainingEntries
  /\ stack' = stack
  /\ ReturnWith({"unreadable"})
  /\ UNCHANGED <<rest, entries, bytesRead, counters>>

\* The footer's count is admitted.  How many entries archive/zip then lists may be
\* another number: it looks for the footer by rules of its own.
OpenZIP ==
  /\ place = "open"
  /\ \E stated, listed \in EntryCounts :
       /\ stated <= RemainingEntries
       /\ stack' = Append(stack, Frame("zip", listed))
  /\ place' = "next"
  /\ UNCHANGED <<rest, result, capped, entries, bytesRead, counters>>

\* The entries of a TAR are not known in advance; a gzip stream has one.
OpenStream ==
  /\ place = "open"
  /\ \E f \in {"tar", "gzip"} : stack' = Append(stack, Frame(f, 1))
  /\ place' = "next"
  /\ UNCHANGED <<rest, result, capped, entries, bytesRead, counters>>

\* The footer, the directory or the gzip header cannot be parsed.
OpenMalformed ==
  /\ place = "open"
  /\ stack' = stack
  /\ ReturnWith({"unreadable"})
  /\ UNCHANGED <<rest, entries, bytesRead, counters>>

-----------------------------------------------------------------------------
(* Walking the entries of the innermost archive.                           *)

\* beginEntry counts the entry before it tests the limit.
BeginEntry ==
  /\ place = "next" /\ Top.left > 0
  /\ entries < ArchiveMaxEntries
  /\ entries' = entries + 1
  /\ discovered' = discovered + 1
  /\ stack' = TakeEntry
  /\ place' = "begun"
  /\ UNCHANGED <<rest, result, capped, bytesRead, scanned, cappedEntries,
                 skipped>>

\* One entry too many: this archive is given up, its parents are not.
RefuseEntry ==
  /\ place = "next" /\ Top.left > 0
  /\ entries >= ArchiveMaxEntries
  /\ entries' = entries + 1
  /\ discovered' = discovered + 1
  /\ skipped' = skipped + 1
  /\ stack' = AddToTop({"entries"})
  /\ place' = "return"
  /\ UNCHANGED <<rest, result, capped, bytesRead, scanned, cappedEntries>>

\* The end of the archive, for a TAR also with an error from reader.Next.
EndArchive ==
  /\ place = "next"
  /\ \/ Top.left = 0 /\ stack' = stack
     \/ Top.format = "tar" /\ stack' \in {stack, AddToTop({"unreadable"})}
  /\ place' = "return"
  /\ UNCHANGED <<rest, result, capped, entries, bytesRead, counters>>

\* A directory, a link or another irregular entry.
SkipEntry ==
  /\ place = "begun" /\ Top.format # "gzip"
  /\ skipped' = skipped + 1
  /\ place' = "next"
  /\ UNCHANGED <<stack, rest, result, capped, entries, bytesRead, discovered,
                 scanned, cappedEntries>>

\* A ZIP entry that is encrypted or cannot be opened counts as scanned.
UnreadableEntry ==
  /\ place = "begun" /\ Top.format = "zip"
  /\ scanned' = scanned + 1
  /\ stack' = AddToTop({"unreadable"})
  /\ place' = "next"
  /\ UNCHANGED <<rest, result, capped, entries, bytesRead, discovered,
                 cappedEntries, skipped>>

-----------------------------------------------------------------------------
(* scanEntry.  An entry holds another archive, a recognised certificate or *)
(* keystore that has to be read in full, or anything else.                 *)

\* readPrefix reads one byte more than MaxBytes to learn whether there is more.
PrefixSize(size) == IF MaxBytes = 0 THEN size ELSE Min2(size, MaxBytes + 1)
Complete(size) == MaxBytes = 0 \/ size <= MaxBytes

\* The prefix of an entry, within the budget, and how it ends.
ReadPrefix(size) ==
  /\ place = "begun"
  /\ PrefixSize(size) <= Budget
  /\ bytesRead' = bytesRead + PrefixSize(size)
  /\ UNCHANGED <<stack, entries, counters>>

\* Nothing recognised, or a small certificate or keystore, good or bad.
ScanPrefix == \E size \in EntrySizes :
  /\ ReadPrefix(size)
  /\ rest' = 0
  /\ \/ ReadResult({}, ~Complete(size))
     \/ Complete(size) /\ ReadResult({"unreadable"}, FALSE)

\* A stream that is corrupt after some bytes.
PrefixCorrupt == \E size \in EntrySizes :
  /\ ReadPrefix(size)
  /\ rest' = 0
  /\ ReadResult({"unreadable"}, FALSE)

\* An archive below the deepest level.
RefuseDepth == \E size \in EntrySizes :
  /\ ~MayNest
  /\ ReadPrefix(size)
  /\ rest' = 0
  /\ ReadResult({"depth"}, FALSE)

\* A nested archive that is all in the prefix.
NestArchive == \E size \in EntrySizes :
  /\ MayNest /\ Complete(size)
  /\ ReadPrefix(size)
  /\ rest' = 0
  /\ place' = "open"
  /\ UNCHANGED <<result, capped>>

\* A nested archive, a certificate or a keystore larger than its prefix.
NeedFullEntry == \E size \in EntrySizes :
  /\ ~Complete(size)
  /\ ReadPrefix(size)
  /\ rest' = size - PrefixSize(size)
  /\ place' = "full"
  /\ UNCHANGED <<result, capped>>

\* The budget ends inside the prefix: all of it is read, the probe for one
\* more byte succeeds.
PrefixOverBudget ==
  /\ place = "begun"
  /\ \E size \in EntrySizes : PrefixSize(size) > Budget
  /\ bytesRead' = ArchiveMaxBytes
  /\ ReadResult({"bytes"}, FALSE)
  /\ UNCHANGED <<stack, rest, entries, counters>>

\* readFullEntry: the rest of the entry, whatever MaxBytes says, to a nested
\* archive or to the entry's outcome, good or bad.
ReadRest ==
  /\ place = "full"
  /\ rest <= Budget
  /\ bytesRead' = bytesRead + rest
  /\ rest' = 0
  /\ \/ MayNest /\ place' = "open" /\ UNCHANGED <<result, capped>>
     \/ \E errors \in {{}, {"unreadable"}} : ReadResult(errors, FALSE)
  /\ UNCHANGED <<stack, entries, counters>>

RestOverBudget ==
  /\ place = "full"
  /\ rest > Budget
  /\ bytesRead' = ArchiveMaxBytes
  /\ rest' = 0
  /\ ReadResult({"bytes"}, FALSE)
  /\ UNCHANGED <<stack, entries, counters>>

-----------------------------------------------------------------------------
(* Back in the walk, and back from it.                                     *)

\* Closing a ZIP entry or a gzip stream may find a bad checksum.
CloseErrors == IF Top.format = "tar" THEN {{}} ELSE {{}, {"unreadable"}}

\* finishEntry, and the merge of the entry's outcome into the archive's.  Only
\* an exhausted byte budget makes the walk give up the rest; gzip ends anyway.
FinishEntry ==
  /\ place = "finish"
  /\ scanned' = scanned + 1
  /\ cappedEntries' = cappedEntries + (IF capped THEN 1 ELSE 0)
  /\ \E errors \in CloseErrors : stack' = AddToTop(result \cup errors)
  /\ result' = {} /\ capped' = FALSE
  /\ place' = IF "bytes" \in result \/ Top.format = "gzip" THEN "return"
              ELSE "next"
  /\ UNCHANGED <<rest, entries, bytesRead, discovered, skipped>>

\* The walk of the innermost archive returns its merged outcome.
ReturnOutcome ==
  /\ place = "return"
  /\ stack' = SubSeq(stack, 1, Len(stack) - 1)
  /\ ReturnWith(Top.errors)
  /\ UNCHANGED <<rest, entries, bytesRead, counters>>

ArchiveStep ==
  \/ RefuseZIPCount \/ OpenZIP \/ OpenStream \/ OpenMalformed
  \/ BeginEntry \/ RefuseEntry \/ EndArchive \/ SkipEntry \/ UnreadableEntry
  \/ ScanPrefix \/ PrefixCorrupt \/ RefuseDepth \/ NestArchive \/ NeedFullEntry
  \/ PrefixOverBudget \/ ReadRest \/ RestOverBudget
  \/ FinishEntry \/ ReturnOutcome

\* The worker goes on with the outcome.
ArchiveDone == place = "done" /\ UNCHANGED archiveVars

ArchiveNext == ArchiveStep \/ ArchiveDone

ArchiveSpec == ArchiveInit /\ [][ArchiveNext]_archiveVars

\* The worker is scheduled and every read ends.
ArchiveFairSpec == ArchiveSpec /\ WF_archiveVars(ArchiveStep)

-----------------------------------------------------------------------------
(* Properties.                                                             *)

ArchiveTypeOK ==
  /\ stack \in Seq([format : Formats, left : Nat, errors : SUBSET Errors])
  /\ place \in {"open", "next", "begun", "full", "finish", "return", "done"}
  /\ rest \in Nat
  /\ result \in SUBSET Errors /\ capped \in BOOLEAN
  /\ entries \in Nat /\ bytesRead \in 0 .. ArchiveMaxBytes
  /\ discovered \in Nat /\ scanned \in Nat /\ cappedEntries \in Nat
  /\ skipped \in Nat

\* The archives in which an entry is under way.
EntriesUnderWay == IF place \in {"next", "return"} THEN Len(stack) - 1
                   ELSE Len(stack)

\* Whatever the archive contains: no byte beyond the budget is read, no archive
\* is walked below the depth limit, and at most one entry beyond the entry
\* limit is met per nesting level, which is never read.
LimitsKept ==
  /\ bytesRead <= ArchiveMaxBytes
  /\ Len(stack) <= ArchiveMaxDepth
  /\ entries <= ArchiveMaxEntries + ArchiveMaxDepth
  /\ place \in {"begun", "full", "open"} => entries <= ArchiveMaxEntries

\* "Validated positive limits keep this nonnegative": the conversion to uint64
\* in checkZIPEntryCount never wraps around.
RemainingNonnegative ==
  place = "open" => RemainingEntries = ArchiveMaxEntries - entries

\* Every entry counted as discovered is scanned exactly once, was skipped or
\* refused, or is under way; the progress never shows more scanned than found.
EntriesAccounted ==
  /\ entries = discovered
  /\ discovered = scanned + skipped + EntriesUnderWay

\* The errors somebody up the stack will still report.
PendingErrors ==
  result \cup UNION {stack[i].errors : i \in DOMAIN stack}

\* No error is dropped on its way through the nested merges to the outcome of
\* the outer archive.
ErrorsNeverLost == [][PendingErrors \subseteq PendingErrors']_archiveVars

\* After an entry has gone beyond the byte budget, at any depth, no further entry
\* is begun and no further byte is read: the whole stack is given up.  It is not
\* given up sooner: the budget has been read to its end, and a rest that fits
\* exactly is no error.
ByteLimitStops ==
  [][/\ "bytes" \in PendingErrors => entries' = entries /\ bytesRead' = bytesRead
     /\ place \in {"begun", "full"} /\ "bytes" \in result' =>
          /\ bytesRead' = ArchiveMaxBytes
          /\ place = "full" => rest > Budget]_archiveVars

\* The scan of an archive ends, however its readers answer and whatever is nested
\* in what.
ArchiveEnds == <>(place = "done")
=============================================================================
