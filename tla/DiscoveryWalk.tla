--------------------------- MODULE DiscoveryWalk ---------------------------
(***************************************************************************)
(* The walk of the discovery goroutine (scanner.go, discoveryWalker):      *)
(* which directories it reads, which files it queues and which errors it   *)
(* reports, with and without -follow-symlinks, -exclude, -one-file-system. *)
(*                                                                         *)
(* The recursion of walkDirectory and visitSymlink is a stack of the       *)
(* directories being read.  A directory is what its canonical path names;  *)
(* symlinks give it further names, and may lead above the root or in       *)
(* cycles.  Sending a path or an error is one step here: ScanPipeline has  *)
(* the channels.                                                           *)
(***************************************************************************)
EXTENDS Naturals, Sequences, FiniteSets, SequencesExt

CONSTANTS
  Dirs,               \* directories, by canonical path
  Files,              \* regular files that match -extensions
  Root,               \* the directory walkRoot names
  Nowhere,            \* what a broken symlink leads to
  Setups              \* file systems and options, see SetupType

Targets == Dirs \cup Files \cup {Nowhere}

\* An entry as os.ReadDir gives it.  "other" is what neither walk takes up: a
\* socket, a device or a file with another extension.
EntryType(e) ==
  /\ e.kind \in {"dir", "file", "link", "other"}
  /\ e.kind = "dir" => e.to \in Dirs
  /\ e.kind = "file" => e.to \in Files
  /\ e.kind = "link" => e.to \in Targets

\* The names of a directory differ, and a directory is an entry of one directory at
\* most, under one name.
OneEntryEach(s) ==
  \A d1, d2 \in Dirs :
    \A i \in DOMAIN s.entries[d1], j \in DOMAIN s.entries[d2] :
      /\ (d1 = d2 /\ s.entries[d1][i].name = s.entries[d1][j].name) => i = j
      /\ /\ s.entries[d1][i].kind = "dir" /\ s.entries[d2][j].kind = "dir"
         /\ s.entries[d1][i].to = s.entries[d2][j].to
         => d1 = d2 /\ i = j

\* Every directory lies deeper than the one it is an entry of.
Deepens(s, depth) ==
  \A d \in Dirs : \A i \in DOMAIN s.entries[d] :
    s.entries[d][i].kind = "dir" => depth[s.entries[d][i].to] > depth[d]

\* entries: the sorted entries of each directory.  They are trees: no directory is
\*   below itself, but the root may be below one that a symlink leads to.
\* exclude: the -exclude patterns, each a sequence of names.
\* elsewhere: the directories and files of other file systems.
SetupType(s) ==
  /\ \A d \in Dirs :
       /\ s.entries[d] \in Seq(Range(s.entries[d]))
       /\ \A i \in DOMAIN s.entries[d] : EntryType(s.entries[d][i])
  /\ OneEntryEach(s)
  /\ \E depth \in [Dirs -> 0 .. Cardinality(Dirs)] : Deepens(s, depth)
  /\ s.follow \in BOOLEAN /\ s.oneFileSystem \in BOOLEAN
  /\ s.elsewhere \subseteq (Dirs \cup Files) \ {Root}

ASSUME WalkAssumption ==
  Root \in Dirs /\ IsFiniteSet(Dirs) /\ Nowhere \notin Dirs \cup Files

ASSUME SetupAssumption == \A s \in Setups : SetupType(s)

VARIABLES
  setup,              \* the file system and the options, fixed
  stack,              \* the directories being read, the root first
  visited,            \* walker.visited
  queued,             \* the paths queued, with the file each one names
  errors,             \* the paths reported with an error
  opened,             \* history: the directories read, in order
  cancelled,          \* the context has ended
  ended               \* the walk has returned

walkVars ==
  <<setup, stack, visited, queued, errors, opened, cancelled, ended>>

\* next is the entry to visit; 0 before os.ReadDir.
Frame(dir, relative) == [dir |-> dir, relative |-> relative, next |-> 0]

WalkInit ==
  /\ setup \in Setups
  /\ stack = <<Frame(Root, <<>>)>>
  /\ visited = {Root}
  /\ queued = {}
  /\ errors = {}
  /\ opened = <<>>
  /\ cancelled = FALSE
  /\ ended = FALSE

Top == stack[Len(stack)]
Entry == setup.entries[Top.dir][Top.next]
Relative == Append(Top.relative, Entry.name)
Advanced == [stack EXCEPT ![Len(stack)].next = @ + 1]

\* isExcluded: a pattern without "/" is matched with the last name, any other
\* with the whole relative path.
Excludes(pattern, relative) ==
  IF Len(pattern) = 1 THEN Last(relative) = pattern[1] ELSE relative = pattern
IsExcluded(relative) == \E p \in setup.exclude : Excludes(p, relative)

OnRootFilesystem(node) == setup.oneFileSystem => node \notin setup.elsewhere

\* The walk is about to visit the next entry of the innermost directory.
AtEntry ==
  /\ ~ended /\ ~cancelled /\ stack # <<>>
  /\ Top.next \in DOMAIN setup.entries[Top.dir]

-----------------------------------------------------------------------------
(* Slips, each in place of the definition it is named after.               *)

\* A symlink to a directory is followed without a look at visited.
ForgetfulVisitDirLink ==
  /\ AtEntry /\ ~IsExcluded(Relative) /\ setup.follow
  /\ Entry.kind = "link" /\ Entry.to \in Dirs /\ OnRootFilesystem(Entry.to)
  /\ visited' = visited \cup {Entry.to}
  /\ stack' = Append(Advanced, Frame(Entry.to, Relative))
  /\ UNCHANGED <<setup, queued, errors, opened, cancelled, ended>>

\* The file system of a symlink's target is not looked at.
StrayVisitFileLink ==
  /\ AtEntry /\ ~IsExcluded(Relative) /\ setup.follow
  /\ Entry.kind = "link" /\ Entry.to \in Files
  /\ queued' = queued \cup {[file |-> Entry.to, relative |-> Relative]}
  /\ stack' = Advanced
  /\ UNCHANGED <<setup, visited, errors, opened, cancelled, ended>>

\* Patterns are matched with files only: no directory is pruned.
UnprunedVisitDirectory ==
  /\ AtEntry
  /\ Entry.kind = "dir" /\ OnRootFilesystem(Entry.to)
  /\ IF setup.follow /\ Entry.to \in visited
       THEN stack' = Advanced /\ visited' = visited
       ELSE /\ stack' = Append(Advanced, Frame(Entry.to, Relative))
            /\ visited' = visited \cup {Entry.to}
  /\ UNCHANGED <<setup, queued, errors, opened, cancelled, ended>>

\* A directory on another file system, or behind a symlink that is not
\* followed, is marked visited all the same.
EagerSkipEntry ==
  /\ AtEntry
  /\ \/ IsExcluded(Relative)
     \/ Entry.kind = "other"
     \/ Entry.kind = "link" /\ ~setup.follow
     \/ Entry.to # Nowhere /\ ~OnRootFilesystem(Entry.to)
  /\ stack' = Advanced
  /\ visited' = visited \cup ({Entry.to} \cap Dirs)
  /\ UNCHANGED <<setup, queued, errors, opened, cancelled, ended>>

\* Nothing makes the recursion return when the context has ended.
ForgetfulEndWalk ==
  /\ ~ended /\ stack = <<>>
  /\ ended' = TRUE
  /\ UNCHANGED <<setup, stack, visited, queued, errors, opened, cancelled>>

-----------------------------------------------------------------------------
(* Directories.                                                            *)

ReadDirectory ==
  /\ ~ended /\ ~cancelled /\ stack # <<>> /\ Top.next = 0
  /\ stack' = Advanced
  /\ opened' = Append(opened, Top.dir)
  /\ UNCHANGED <<setup, visited, queued, errors, cancelled, ended>>

\* os.ReadDir fails: the directory is reported and given up.
FailDirectory ==
  /\ ~ended /\ ~cancelled /\ stack # <<>> /\ Top.next = 0
  /\ errors' = errors \cup {Top.relative}
  /\ stack' = SubSeq(stack, 1, Len(stack) - 1)
  /\ UNCHANGED <<setup, visited, queued, opened, cancelled, ended>>

EndDirectory ==
  /\ ~ended /\ ~cancelled /\ stack # <<>>
  /\ Top.next > Len(setup.entries[Top.dir])
  /\ stack' = SubSeq(stack, 1, Len(stack) - 1)
  /\ UNCHANGED <<setup, visited, queued, errors, opened, cancelled, ended>>

EndWalk ==
  /\ ~ended /\ (cancelled \/ stack = <<>>)
  /\ ended' = TRUE
  /\ UNCHANGED <<setup, stack, visited, queued, errors, opened, cancelled>>

\* The context ends.  Every visit tests it first.
Cancel ==
  /\ ~cancelled /\ ~ended
  /\ cancelled' = TRUE
  /\ UNCHANGED <<setup, stack, visited, queued, errors, opened, ended>>

-----------------------------------------------------------------------------
(* Entries.                                                                *)

SkipEntry ==
  /\ AtEntry
  /\ \/ IsExcluded(Relative)
     \/ Entry.kind = "other"
     \/ Entry.kind = "link" /\ ~setup.follow
     \/ Entry.to # Nowhere /\ ~OnRootFilesystem(Entry.to)
  /\ stack' = Advanced
  /\ UNCHANGED <<setup, visited, queued, errors, opened, cancelled, ended>>

\* A followed symlink that is broken, loops or cannot be resolved, or an entry
\* whose file system cannot be told.
MayFail == \/ Entry.kind = "link" /\ setup.follow
           \/ Entry.kind \in {"dir", "file"} /\ setup.oneFileSystem

FailEntry ==
  /\ AtEntry /\ ~IsExcluded(Relative) /\ MayFail
  /\ errors' = errors \cup {Relative}
  /\ stack' = Advanced
  /\ UNCHANGED <<setup, visited, queued, opened, cancelled, ended>>

\* Only the walk that follows symlinks has a visited map.
VisitDirectory ==
  /\ AtEntry /\ ~IsExcluded(Relative)
  /\ Entry.kind = "dir" /\ OnRootFilesystem(Entry.to)
  /\ IF setup.follow /\ Entry.to \in visited
       THEN stack' = Advanced /\ visited' = visited
       ELSE /\ stack' = Append(Advanced, Frame(Entry.to, Relative))
            /\ visited' = visited \cup {Entry.to}
  /\ UNCHANGED <<setup, queued, errors, opened, cancelled, ended>>

VisitFile ==
  /\ AtEntry /\ ~IsExcluded(Relative)
  /\ Entry.kind = "file" /\ OnRootFilesystem(Entry.to)
  /\ queued' = queued \cup {[file |-> Entry.to, relative |-> Relative]}
  /\ stack' = Advanced
  /\ UNCHANGED <<setup, visited, errors, opened, cancelled, ended>>

VisitDirLink ==
  /\ AtEntry /\ ~IsExcluded(Relative) /\ setup.follow
  /\ Entry.kind = "link" /\ Entry.to \in Dirs /\ OnRootFilesystem(Entry.to)
  /\ IF Entry.to \in visited
       THEN stack' = Advanced /\ visited' = visited
       ELSE /\ stack' = Append(Advanced, Frame(Entry.to, Relative))
            /\ visited' = visited \cup {Entry.to}
  /\ UNCHANGED <<setup, queued, errors, opened, cancelled, ended>>

VisitFileLink ==
  /\ AtEntry /\ ~IsExcluded(Relative) /\ setup.follow
  /\ Entry.kind = "link" /\ Entry.to \in Files /\ OnRootFilesystem(Entry.to)
  /\ queued' = queued \cup {[file |-> Entry.to, relative |-> Relative]}
  /\ stack' = Advanced
  /\ UNCHANGED <<setup, visited, errors, opened, cancelled, ended>>

WalkStep ==
  \/ ReadDirectory \/ FailDirectory \/ EndDirectory \/ EndWalk
  \/ SkipEntry \/ FailEntry \/ VisitDirectory \/ VisitFile
  \/ VisitDirLink \/ VisitFileLink

WalkNext == WalkStep \/ Cancel \/ (ended /\ UNCHANGED walkVars)

WalkSpec == WalkInit /\ [][WalkNext]_walkVars

\* The discovery goroutine is scheduled and every file system call returns.
WalkFairSpec == WalkSpec /\ WF_walkVars(WalkStep)

-----------------------------------------------------------------------------
(* Properties.                                                             *)

WalkTypeOK ==
  /\ setup \in Setups
  /\ \A i \in DOMAIN stack :
       /\ stack[i].dir \in visited
       /\ stack[i].next \in 0 .. Len(setup.entries[stack[i].dir]) + 1
       /\ i < Len(stack) => stack[i].next > 1
  /\ visited \subseteq Dirs
  /\ \A q \in queued : q.file \in Files
  /\ opened \in Seq(Dirs)
  /\ cancelled \in BOOLEAN /\ ended \in BOOLEAN

\* Whatever the symlinks do: no directory is read twice, which also bounds the
\* walk.
EachDirectoryOnce == IsInjective(opened)

\* No path is queued that has an excluded name or lies, by that name, below an
\* excluded directory.
ExclusionKept ==
  \A q \in queued : \A n \in 1 .. Len(q.relative) :
    ~IsExcluded(SubSeq(q.relative, 1, n))

\* With -one-file-system no directory is read and no file queued that is on
\* another file system, not even through a symlink.
StaysOnRootFilesystem ==
  setup.oneFileSystem =>
    /\ Range(opened) \cap setup.elsewhere = {}
    /\ \A q \in queued : q.file \notin setup.elsewhere

\* Reference: the directories at each depth below the root that no symlink is
\* needed for, by their own paths, none of them excluded.
EntriesOf(p, kind) ==
  {e \in Range(setup.entries[p.dir]) :
     /\ e.kind = kind /\ OnRootFilesystem(e.to)
     /\ ~IsExcluded(Append(p.relative, e.name))}
RealDirs[n \in Nat] ==
  IF n = 0 THEN {[dir |-> Root, relative |-> <<>>]}
  ELSE UNION {{[dir |-> e.to, relative |-> Append(p.relative, e.name)] :
                 e \in EntriesOf(p, "dir")} : p \in RealDirs[n - 1]}
AccessibleFiles ==
  UNION {{e.to : e \in EntriesOf(p, "file")} :
           p \in UNION {RealDirs[n] : n \in 0 .. Cardinality(Dirs) - 1}}

FoundAll ==
  ended /\ ~cancelled /\ errors = {} =>
    AccessibleFiles \subseteq {q.file : q \in queued}

\* Every accessible file is queued, however symlinks lead around it, unless
\* symlinks are followed and a pattern names a whole path.
CompleteUnlessPathExcluded ==
  (setup.follow => \A p \in setup.exclude : Len(p) = 1) => FoundAll

\* "after all accessible files have been scanned": -follow-symlinks only ever
\* adds files.
FollowingAddsOnly == setup.follow => FoundAll

\* The walk ends, whatever the symlinks do.
WalkEnds == <>ended
=============================================================================
