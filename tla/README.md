# A TLA+ model of certfinder

certfinder walks a directory tree, recognises X.509 certificates in files,
keystores and archives, and prints what matches its filters. This directory
holds TLA+ specifications of its concurrent pipeline, its walk, its readers of
files, archives and keystores, its progress display and its command line, the TLC
configurations that check them, and proofs checked by TLAPS. `PROJECT.json` maps
every definition to the lines it models, and lists the runs, the mutants, the
hazards and the theorems.

    tlc -workers 2 -config ArchiveScan.cfg ArchiveScan      # one run
    tlapm ArchiveScanProofs.tla                             # one proof module

## 1. The system

| Part | Source | State | Operations |
|---|---|---|---|
| Scan pipeline | `internal/scanner/scanner.go` `Scan`, `scanWorker`, `queuePath`, `sendOutcome` | channels `jobs` (1024) and `outcomes` (unbuffered), atomic counters, the collector's `Report` | walk and queue, scan, hand over, collect, close, return, cancel |
| Discovery | `scanner.go` `discoveryWalker` | `visited` directories, recursion of `walkDirectory`/`visitSymlink` | read a directory, visit an entry, follow a symlink, filter |
| Progress feed | `scanner.go` `notifyProgress`, `progress.go` `Update` | ten atomic counters; the merged `display.progress` | load, deliver, merge |
| Progress display | `progress.go` | one mutex, `stopped`, `done`/`refreshed` channels, the first write error | Start, writeResult, refresh, Update, Stop, Err |
| Archive scanner | `internal/scanner/archive.go` | `entries`, `bytesRead`, one recursion level per nested archive | open, begin, skip, read, nest, finish, merge, refuse |
| Command | `main.go` `run`, `operationalExit` | collected items, verdicts, errors, finding, the instant `now`, exit status | roots, callbacks, verify, group, print, stop, exit |
| Selection and time | `main.go` `certificateMatches`, `certificateExpiresWithin`, `ValidityStatus` | none | filter, monitor, describe |
| Grouping | `duplicates.go` | counts of one run | group equal certificates, summarise |
| Verification | `internal/scanner/verify.go` | intermediates of a call | build chains, classify errors |
| Content recognition | `scanner.go` `scanFileContentsWithOptions`, `scanContentData` | the position in a file that may grow | sniff a prefix, probe, decide, read again in full |
| JKS parser | `internal/scanner/jks.go` | an offset, counts of entries | length-prefixed entries, chains, aliases |
| PKCS#12 parser | `internal/scanner/pkcs12.go` | counts shared by nested calls, a position, errors | DER headers, contents, nested bags |
| Option values, output layout, descriptions, build information | `main.go`, `scanner.go`, `duplicates.go`, `internal/buildinfo` | none | pure functions |

How they interact. `run` builds the display and calls `Scan` with four
callbacks. `Scan` starts one discovery goroutine, `Workers` workers and a
closer; the calling goroutine collects and runs `OnCertificate`, `OnError` and
`OnPKCS12EncryptedContent`; **any** of those goroutines may call `OnProgress`,
which is the display's `Update`. A worker that meets an archive scans it by
recursion inside its one step, calling `OnProgress` for every entry. The
display has a goroutine of its own that redraws. A signal cancels the context;
so does a callback that cannot write.

What is hard here:

* shutdown: four kinds of goroutines and two channels, with a cancellation at
  any moment, and a return of `Scan` that leaves goroutines running;
* progress: snapshots loaded counter by counter, delivered in any order, some
  after the display was stopped;
* the display's `Stop`, which waits for a goroutine that needs the same mutex;
* JSON Lines, which are written to stdout beside the display and its mutex;
* three limits shared by every nesting level of an archive, with six ways an
  entry can leave the loop;
* symlink cycles, several names of one directory, and filters that look at names;
* errors in any order competing for one exit status, and a clock that goes on
  while they do;
* files that another program appends to between two reads of them;
* lengths, counts and nesting that a keystore claims, and errors on their way up
  from nested calls.

For each part, what makes it correct:

* pipeline: each path scanned and reported once; none lost; channels closed
  after their last send; every goroutine ends; counters exact;
* discovery: it ends; no directory twice; filters hold on every route; nothing
  accessible is missed;
* feed and display: what is shown has happened, never goes back, and is final
  at the end; nothing is written behind the summary; Stop returns;
* archives: the limits hold; counts add up; no error is dropped; it ends;
* command: the exit status and the output are those the README promises; a
  verdict does not depend on the order of discovery; judgements of one
  certificate's time agree wherever they can;
* content recognition: a result is about the whole file or says that it is not;
  the limit is passed only for what the prefix shows;
* keystores: no length leads outside the data, and no claim costs more than the
  bytes behind it; nothing unread is passed over in silence; a truststore mark
  and a chain index say what the file says.

## 2. Modules

`ScanContract` — what `Scan` promises, without goroutines: each item delivered
at most once, a report when all were, the context's error only after a
cancellation. The abstract specification of `ScanPipeline`, and the only thing
`CliRun` knows of scanning.

`ScanPipeline` — the goroutines of `Scan`. `pos`, `dpc` stand for the discovery
goroutine, `jobs` and `jobsClosed` for the first channel, `wpc`, `wjob` for
each worker, `outcomesClosed` for the second, `collector` for the calling
goroutine. A rendezvous on `outcomes` is one action of sender and collector, as
on an unbuffered channel. A send on the closed channel is the action
`SendOnClosed`. `Cancel` may come at any moment before `Scan` returns. The walk is
the sequence of its visits that have an effect: `DiscoveryWalk` tells which.

`ProgressFeed` — extends `ScanPipeline`: every step of it that calls
`notifyProgress` leaves its goroutine at the first load; each load, and the
merge, is a step. Three counters stand for ten.

`ProgressDisplay` — `progress.go` with its mutex as a variable. Critical
sections are single actions between `Lock` and the release they include;
everything else is interleaved. Failing writes are a choice at each write. The
screen is what was written, by kind, to stdout and stderr as to one terminal. JSON
Lines do not go through the display: `EncodeLine` needs no mutex and clears no
status. A redraw is therefore two writes (`Redraw` clears, `DrawStatus` draws),
between which a line may come; the other sections belong to the goroutine that
encodes, or (`Update`) write nothing. `mode` is the choice of `-quiet`, of a
terminal, and of the output format.

`DiscoveryWalk` — the recursion as a stack over a file system with directories
that have several names through symlinks, and the options -exclude,
-follow-symlinks and -one-file-system. The directories are trees, for they have no
hard links; the root may lie below directories that symlinks lead to, which then
list it. Reading a directory, and looking at a
symlink's target, may fail.

`ArchiveScan` — the recursion `scanZIP`/`scanTAR`/`scanGZIP` → `scanEntry` →
`scanArchiveBytes` as a stack of archives. The archive's content is not fixed:
each answer of a reader is chosen when it is asked for, so a run covers every
archive within the bounds. The entry count that a ZIP's footer states says nothing
of how many entries `archive/zip` lists.

`ContentScan` — `scanFileContentsWithOptions` over a file of blocks: read up to
the limit (`Sniff`), ask for one more byte (`Probe`), and let `scanContentData`
decide (`Recognise`) whether the result is due, an archive begins, or the file is
read again from its start (`ReadRest`). Any read or seek may fail, and
`AppendBlock`, another program, may come between any two steps.

`Encodings` — the parsers' pure decoders as operators, each beside the encoding
it must undo: aliases in Java's modified UTF-8, BMPStrings, and DER headers with
lengths whose sum with an offset may not fit an int. `ToInt` is Go's conversion.

`JavaKeystore` — `parseJavaKeystore`: an offset, the loop over claimed entries,
the loop over claimed chains, every early return (`GiveUp`), the truststore mark.
Lengths, tags and counts are chosen when they are read, so a run covers every
file within the bounds.

`PKCS12Contents` — `parsePKCS12` and the recursion of `parseSafeContents` as a
stack with a level for each call: the bags it has left, and whether it has an
error to return. The bag count, the chain index and the parser's errors are
shared by all levels, as in the code.

`Keystores` — the branch of `scanContentData` that calls one parser or the other,
composed of the three modules above.

`CliRun` — `run()` from its validated options to the exit status, extending
`ScanContract`: its `Deliver` steps call the callbacks. Two items, of six kinds
of content, under every combination of the options. The certificates have ended,
end at `now`, end during the run, or after it; one is the issuer of another, and
hidden by the filters. `clock` is `time.Now()`; `now` is instant 0. Any write
may fail, stdout's and the display's.

`MCScanPipeline`, `MCDiscoveryWalk`, `MCContentScan` — the small trees, file
systems and files. The eight `...Proofs` modules — section 5.

How they compose: `ProgressFeed` extends `ScanPipeline`, which implements
`ScanContract`, which `CliRun` extends; `Keystores` extends both parsers, which
share `Encodings`. `ContentScan` ends where `ArchiveScan` or `Keystores` begins,
and `DiscoveryWalk` yields the sequence of visits `ScanPipeline` is given.

Each module's "slips" are definitions that a plausible mistake in the code would
give; exchanged for the definition they are named after, each violates the
property `PROJECT.json` pairs it with.

## 3. Runs

| Run | Configuration | Distinct states | Question |
|---|---|---|---|
| `pipeline_all` | 6 visits (2 unreadable, 1 bad file), 3 workers, queue of 2, fair | 17 051 | paths, closing of channels, counters, termination, refinement of `ScanContract` |
| `pipeline_partial` | 1 file as the root, 1 worker | violation | finding 1 |
| `pipeline_panic` | 1 file, 1 unreadable path, 2 workers | violation | finding 2 |
| `feed_shown` | 3 visits, 2 workers, notification at every 2nd file | 81 730 | what the display shows |
| `feed_torn` | 2 files, 1 worker | violation | finding 3 |
| `display` | 1 scan goroutine, 2 results, 2 ticks, every mode and output format | 141 202 | screen, Stop, late updates |
| `archive_limits` | depth 3, 4 entries, 5 bytes, entries of 0 to 4 bytes | 144 055 | limits, accounting, errors, end |
| `walk_follow` | 4 directories, one above the root, 3 symlinks, 4 filters, 4 mounts, with and without following | 490 476 | filters, cycles, completeness, end |
| `walk_excluded` | the same | violation | finding 4 |
| `content` | limit of 2 blocks, every file of up to 3, growing to 5 | 1 214 287 | parts taken for wholes, the limit |
| `keystores` | files of 12 to 72 bytes, 2 contents, 4 bags, 2 nested levels; every decoder on short inputs | 348 143 | lengths, limits, errors, marks, positions, encodings |
| `cli` | 2 items, every content and option, 2 ticks of the clock | 2 563 956 | exit status, output, verdicts, times |

All of them take less than two minutes on two cores.

### The bounds, and why they are enough

* *Pipeline.* Three workers and a queue of two make every pairing of blocked
  goroutines possible (the walker on a full queue, the walker and a worker both
  on `outcomes`, a worker idle at an empty queue); six visits put an unreadable
  path both before the first file and between files. Two of `Scan`'s cases are
  not in the passing run: `RootIsFile = TRUE` (run `pipeline_partial` has it) and
  an empty walk; the proofs of section 5 cover all values.
* *Feed.* Loads of three counters show every tear two counters can; the file
  counted between two notifications (`NotifyEvery` = 2, three visits) is the
  case that a later notification has to make up for.
* *Display.* One scan goroutine, for they differ in nothing but the mutex they
  wait for; two results and two ticks put a status before, between and after
  results, and a tick behind `Stop`.
* *Archives.* One level more than needed for "the level in between": outer,
  middle, inner. Five bytes and a sniffing limit of one let the budget end
  within a prefix, within a rest, and exactly at an entry's end. `MaxBytes` = 0
  (no limit per entry) is covered by the proofs only.
* *Walk.* A symlink before and one behind the real directory, one inside it and
  one outside: names tried before and after the directory's own, cycles to the
  root and to oneself, a way down to the root from the directory above it, and
  targets on another file system.
* *Command.* Two items are enough for a duplicate, a duplicate that is one
  certificate twice, an issuer delivered before or after what it issued, and an
  error before or after anything else. Two ticks let the clock reach and pass
  both instants at which a certificate ends.
* *Content.* A limit of two blocks is the least that can cut a PEM certificate in
  half; three blocks are one more than the limit, and two appended ones let the
  file pass it between any two reads.
* *Keystores.* `IntMax` = 127 with lengths to 255 is an int that does not hold
  every length, as on a 32-bit platform; the sizes end a file in the header, in a
  certificate, and behind one or two entries. Two nested levels below a content
  and four bags let the depth, the count, and both together be passed. The runes
  are the ends of each UTF-8 and surrogate range; the bytes are those at which a
  decoder's comparisons change.

Named bounds that the code does not have: `MaxCount`, `MaxResults`, `MaxTicks`
of `ProgressDisplay`, `MaxLen` of `ContentScan`, `LastInstant` of `CliRun`. Deadlock is checked in every run; each module stutters
only where the program has come to its end.

### Fairness

* `ScanPipeline`: weak fairness of each goroutine's steps. Go's scheduler runs
  every goroutine that can run, and the visits of a walk and the scan of a file
  are finite. Nothing is assumed about which ready case a `select` takes, nor
  that a cancellation ever comes.
* `ProgressDisplay`: strong fairness of locking, since `sync.Mutex` passes
  itself to a goroutine that has waited for a millisecond; strong fairness of
  the refresh goroutine taking `done`, which is ready for good once closed and
  which a `select` picks at random among ready cases; weak fairness of the
  others. Nobody has to call `Update`.
* `ArchiveScan`, `DiscoveryWalk`: weak fairness of the one goroutine; every
  system call returns. A TAR may go on for as long as its reader has entries: it
  is a file, or was read under the byte budget, and the entry count ends it.

The feed, the command, the readers of files and the violated runs use their
specifications without fairness: their properties are about safety alone.

### What the properties say

The comment over each property says what it means. The ones most worth a look:

* `GoroutinesEndInOrder`, `NoPathLost`, `EachPathInOnePlace` (`ScanPipeline`):
  the order in which channels are closed, and where each path is at each moment.
* `FinalDisplayExact` (`ProgressFeed`): the summary is exact although the last
  values of different goroutines arrive in any order.
* `StopEnds`, `StopIsFinal`, `LinesKept` (`ProgressDisplay`): what may stand behind
  an unfinished status, and what may be drawn behind the summary.
* `ErrorsNeverLost`, `ByteLimitStops`, `EntriesAccounted` (`ArchiveScan`): each
  spans several nesting levels. `ByteLimitStops` also says that an exact end is no
  error: an entry that fails has used the budget up and has more to read.
* `CompleteUnlessPathExcluded` (`DiscoveryWalk`): compared with a reference
  definition of the accessible files.
* `WholeOrCapped` (`ContentScan`): a result is compared with what the parsers say
  of the whole file, as it was at some moment since it was opened.
* `WorkPaidFor`, `SilentMeansComplete`, `MarkDeserved`, `ChainIndicesExact`
  (`Keystores`): what a file claims against what was read of it.
* `DecodingExact`, `DERHeaderExact` (`Encodings`): a decoder accepts just what its
  encoding produces, so no two byte strings are one name, and no length wraps.
* `StatusExact`, `OutputExact` (`CliRun`): compared with what the repository's
  README says of exit statuses and identity modes.
* `ExpiryAgrees`, `VerdictsExact` (`CliRun`): three comparisons with two clocks
  made at different moments, and a verdict that needs what is found last.

## 4. Findings

1. `pipeline_partial`: after a cancellation the closed `outcomes` channel and
   `ctx.Done` can both be ready in the collector's `select`; if it takes the
   first, `Scan` returns a partial report with a nil error.
2. `pipeline_panic`: the closer waits for the workers but not for the discovery
   goroutine, which sends traversal errors on the same channel. After a
   cancellation it can send on the closed channel, which panics.
   `PanicNeedsCancel` (proved) shows that a cancellation is needed.
3. `feed_torn`: a `Progress` value is called a point-in-time snapshot; its
   counters are loaded one by one. The display's merge makes up for it
   (`FinalDisplayExact`, `ShownNeverRegresses`).
4. `walk_excluded`: a directory is walked only under the name by which it was
   first met, while a pattern with a `/` is matched with that name. With
   -follow-symlinks a file can be hidden that is scanned without it.

Met while modelling, and no more than a matter of wording, so not listed as
findings:

* `src/README.md:325` says that -expired prints "only already expired certificates".
  A certificate that ends at the very instant the run begins, or during the run
  and before it is printed, can be selected and printed as `valid`, or filtered
  out by a run that would print it as `expired`. `ExpiryAgrees` shows that no
  other certificate is judged in two ways.
* `src/README.md:197` has the truststore mark mean that a PKCS#12 file holds nothing
  encrypted and no key. It is decided from the parts that could be read; where
  one could not, the outcome carries an error too (`P12MarkDeserved` says so).
* JSON Lines go to stdout past the display's mutex (`main.go:314-315`, 329, 373) and
  clear no status, so on a terminal that shows both stdout and stderr a line may
  begin behind an unfinished status. `src/README.md:426-428` promises only that
  text results replace the status, and stdout itself is unharmed. `LinesKept` makes
  an exception of these lines alone.
* `src/README.md:195` makes a chain index the position "within its plaintext
  `SafeContents`"; nested contents go on with the count of the outer one
  (`ChainIndicesExact`).

## 5. Proofs

Eight modules, one for each specification, hold theorems for every value of the
constants that the specification's assumption admits. Each follows one pattern: an
inductive invariant stronger than the properties of the runs; a lemma for each action or group of actions with one effect; an
invariance theorem; and the properties as corollaries. `PROJECT.json` lists the
theorems beside the properties that they state.

`ScanPipelineProofs`, for every walk, number of workers and queue capacity
(`PipelineAssumption`). The inductive invariant `IInv` is the conjunction of the
type invariant, `EachPathInOnePlace`, `NoPathLost`, `GoroutinesEndInOrder` and
`CountersExact`: none of the last four is inductive alone. A path is not lost
because it is in one place; the queue may be closed because the walker is behind
its last visit; the counters are cardinalities of sets of paths in places.
`NextPreservesIInv` takes the actions one by one. From it follow `TypeCorrect`,
`PathsUnique`, `PathsKept`, `EndOrder`, `CountersCorrect`, and with a second
argument on what a return implies, `ReportComplete`, `PanicNeedsCancel`,
`NoLeak`, the action property `DiscoveredIsFinal`, and the refinement
`PipelineImplementsContract`: initial states map to initial states, and every
step of the pipeline is a step of `ScanContract` or leaves its variables alone.

`ProgressFeedProofs` first shows `FeedSpec => Spec` (`FeedImplementsPipeline`): a
notification reads and never writes the pipeline's state, so every theorem about
the pipeline holds of the feed. `FeedInv` adds to `IInv` that
what is shown, and what any notification under way has loaded, has happened
(`AllHappened`), and that the collector's last notification loads counters nobody
moves any more (`LastNotification`).
Hence `ShownIsTrue`, `FinalDisplay` and `DisplayNeverRegresses`.

`ArchiveScanProofs`, for every limit, entry size and entry count
(`ArchiveAssumption`, which is what `Scan` validates). `ArchiveIInv` adds to the
type invariant and `EntriesAccounted`:

* `StackInv`: the stack within the depth limit, with room left where an archive
  may be opened;
* `EntryInv`: entries are within the limit wherever an entry is under way, and
  the number beyond it plus the number of open archives is at most the depth
  limit: a refused entry ends its archive, so each level can refuse one only.
  `LimitsKept` alone is not inductive, for it forgets which levels are spent;
* `ErrorInv`: a result is there only until it is merged, and an exhausted byte
  budget is known only at the very top of the stack, where the walk is returning.

Lemmas state what the stack operations do (`AddToTopFacts`, `TakeEntryFacts`,
`PushFacts`, `PopFacts`), then one lemma for each group of actions with the same
effect (`WithinEntryInv`, `MergeKeeps`, ...). Proved from it: `ArchiveTypeCorrect`,
`LimitsHold`, `RemainingStaysNonnegative`, `EntriesAddUp`, and the action
properties `ByteLimitFinal` and `ErrorsKept`.

`DiscoveryWalkProofs`, for every file system of the shape `WalkAssumption`
describes and every set of options. `WalkInv` says of the frames of the walk that
each is somewhere among the entries of its own directory, which the visited map
holds (`FramesUnderWay`, `ReadOnce`), that without following a directory was
reached by the one entry it is, and that entry passed (`ReachedByEntry`), and that
what was reached was not excluded and is on the root's file system (`Pruned`,
`Stays`). `EachDirectoryOnce` rests on two different
facts, the map when links are followed and the tree when they are not, which is
why both are in the invariant. The tree is needed at the root, too: an entry that
leads to it exists where a directory above the root does, and is never met
without following, since what is visited then is at least as deep as the root
(`ReachedByEntry`, `RealDepth`). Proved: `DirectoriesOnce`, `ExclusionHolds`,
`FilesystemHolds`. `WalkComplete` proves `CompleteUnlessPathExcluded`, whose
reference definition is a closure over real paths. A second invariant,
`FoundInv`, says that of every directory visited, each entry already passed that is
due under a real path of that directory has been taken up. It needs
`SameExclusion`: a pattern of one name judges an entry alike under each name of its
directory. Once the stack is empty, `FoundEverything` goes down every real path
from the root, one directory at a time. Beside `WalkAssumption`'s shape it
uses that the directories are finitely many.

`ProgressDisplayProofs`, for any number of callers, results and ticks. `QuietInv`
says what a quiet display never starts or writes, `EndInv` that the refresh
goroutine has ended before `Stop` writes its summary, and `LinesHold` follows
because every write adds lines that are `Tidy` and clears the status it finds
(`TidyWrite`). `DrawInv` is what the second write of a redraw needs: since the
first, nothing but JSON Lines has been written. `StopFinal` is the action property. `ResultsAreShown` proves
`ResultsPrinted` from `ShownInv`, which counts the result that is under way: the
positions of results on the screen gain the one that a write appends, and no other
write adds or moves any.

`ContentScanProofs`, for every limit, file and length: `PositionInv` says
where the position can be in each phase, `ProbeInv` what the probe has told (the
data was the file once, or the file is larger than the limit), `RestInv` why a
file is read again, `ResultInv` that there is no result before the end.
The lemma `PrefixStays` carries all of them over another program's append.
Proved: `WholeReported`, `LimitKeptUnlessShown`.

`KeystoresProofs`, for every size, limit and width of an int. `KeystoreInv` is
`JksInv` or `PInv`, after the format of the file. For a JKS file: the offset
stays within the data, and the entries and certificates read are paid for by bytes
behind the offset, for which the comparison of lengths before their conversion is
the lemma on `ToInt`. For PKCS#12: `StackOK` and `CountsOK`, `LimitInv` (a bag
is counted before it is read, without which the limit is not inductive),
`OutcomeInv` (a mark is decided at the end, with all counts known), `ChainInv` with
`PlacesTaken` (the certificates found have the places below the counter of their
contents, without which the exact positions are not inductive). Proved: `KeystoreWork`, `KeystoreBagLimit`,
`KeystoreChainIndices`, `KeystoreSilence`, `KeystoreMark`.

The other half of that module is about the decoders of `Encodings`, which recur
over their input and are written as recursive functions. Such a definition is a
`CHOOSE`, so there is first shown to be a function that satisfies it, for which the
values it calls for have lower ranks, such as later positions (`Ranked`); and then
what its values have in common, by `Induction`: a fact about a *set* of numbers, which follows from
the well-foundedness of strict inclusion among finite sets and so takes no
operator as its parameter.

* `HeadersExact`, for every width of an int and of a byte that `WidthAssumption` and
  `HeaderAssumption` allow (an int of at least 5, and no more bits than the length
  bytes have): digits add up to less than the power of their number, a number has
  one sequence of digits without a leading zero, so the loop over length bytes
  undoes `Header`; the two comparisons of `EndFits` come before any sum can wrap.
* `DecodingsExact`, for every set of `Runes` that are code points other than
  surrogates (`RuneAssumption`) and every set of `Bytes`. An encoding is the
  concatenation of the codes of its symbols (`Coded`). At each position a decoder
  either refuses, and no symbol's code is there, or takes the only one that is
  (`Decodes`): that is arithmetic on bytes and surrogates. `DecodedStep` carries
  exactness from the later positions to this one, so it holds of the first
  (`DecodedAt`). The lemma is used once for bytes and units and once for units and
  runes, and the two composed make a decoder; UTF-16BE's first step, pairs of
  bytes, is `PairsEqual`.

`CliRunProofs`, for every set of items, every option and every course of the clock:
`PlaceInv` says what is so in each phase of a run, `ErrorsInv` which errors can
have been noticed by then, `FindingInv` that the finding is exactly what the items
looked at so far call for, with `LookAtFacts` for one item. Proved: `StatusCorrect`
and the action property `NothingAfterFailure`. A second invariant, `OutInv`, is
about what is printed: `VerdictInv` (a verdict is that of the pool of all that was
collected), `LinesInv` (a line was right when it was written), `CountInv` (the
counts of each certificate are those of the items looked at), `WrittenInv` and
`GroupsInv` (who has a line by now, in each format and identity mode), and
`SummaryInv`, for which the sum over certificates has to be the number of items:
`IsSum` and `AddsUp` show it over subsets, whichever order the fold picks. Proved
from it (`OutInvariance`): `OutputCorrect`, `ExpiryAgreement`, `VerdictsCorrect`.
`ScanCalledAsPromised` is `CliSpec => ContractSpec`: every step of the command is
one that `ScanContract` allows its caller and `Scan`, or leaves its variables
alone, and `ScanPipelineProofs` shows `Scan`'s side of the same contract.

Only model-checked: liveness under fairness (`Termination`, `StopEnds`,
`ArchiveEnds`, `WalkEnds`), which is beyond the prover. Every invariant and every
action property that a passing run checks is stated by a theorem. The violated
runs of section 4 have none, but for `PanicNeedsCancel`.

## 6. What is not modelled, and what is next

Not planned, for they are functions without state that the repository's tests
exercise directly: text and JSON layout, the values of options, certificate
descriptions, build information. `crypto/x509`, `archive/zip`, `archive/tar`,
`compress/gzip` and `encoding/asn1` are outside the repository and appear as
choices of their outcome.

Abstracted or left out of what is modelled:

* names of files and entries beyond what filters see; globs are exact names;
* other programs that rewrite or truncate a file while it is scanned (they append
  to it), and a limit smaller than the few bytes by which an archive is known;
* the order of groups, of locations, and of certificates whose keys tie;
* certificates that are not yet valid; in verification, expired intermediates
  and foreign roots;
* the seven counters of `Progress` that behave as `FilesScanned` does.

Next: certificates that are not yet valid, and chains with an expired
intermediate, in `CliRun`; the entries of `ArchiveScan` composed with the reading of
`ContentScan`; the display of `ProgressDisplay` composed with the failing writes of
`CliRun`.
