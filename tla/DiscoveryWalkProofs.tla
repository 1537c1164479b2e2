------------------------- MODULE DiscoveryWalkProofs -------------------------
(***************************************************************************)
(* The safety of the walk for every file system, every web of symlinks and *)
(* every set of patterns: what is read once, what is pruned, what is never *)
(* left, and that nothing accessible is missed.                            *)
(***************************************************************************)
EXTENDS DiscoveryWalk, SequenceTheorems, FiniteSetTheorems, TLAPS

Names ==
  UNION {{setup.entries[d][i].name : i \in DOMAIN setup.entries[d]} : d \in Dirs}

Frames == [dir : Dirs, relative : Seq(Names), next : Nat]

-----------------------------------------------------------------------------
(* The invariant.                                                          *)

WalkTypes ==
  /\ setup \in Setups
  /\ stack \in Seq(Frames)
  /\ visited \subseteq Dirs
  /\ queued \subseteq [file : Files, relative : Seq(Names)]
  /\ opened \in Seq(Dirs)
  /\ cancelled \in BOOLEAN /\ ended \in BOOLEAN

\* A directory under way is left only for one of its entries, and has been read.
FramesUnderWay ==
  \A i \in 1 .. Len(stack) :
    /\ stack[i].next <= Len(setup.entries[stack[i].dir]) + 1
    /\ i < Len(stack) => stack[i].next > 1

\* The directories under way are different, and are read when their frame comes to
\* its first entry.
ReadOnce ==
  /\ \A i \in 1 .. Len(stack) : stack[i].dir \in visited
  /\ \A i, j \in 1 .. Len(stack) : stack[i].dir = stack[j].dir => i = j
  /\ \A i \in 1 .. Len(opened) : opened[i] \in visited
  /\ \A i \in 1 .. Len(stack), j \in 1 .. Len(opened) :
       stack[i].dir = opened[j] => stack[i].next > 0
  /\ \A i, j \in 1 .. Len(opened) : opened[i] = opened[j] => i = j

\* How deep the directories lie.
Depth == CHOOSE depth \in [Dirs -> 0 .. Cardinality(Dirs)] : Deepens(setup, depth)

\* Without symlinks the walk stays below the root, which is no entry there, and a
\* directory was reached by the one entry that it is, which the walk has passed.
ReachedByEntry ==
  ~setup.follow =>
    /\ \A d \in visited : Depth[d] >= Depth[Root]
    /\ \A d \in visited \ {Root} :
         \E p \in visited : \E i \in DOMAIN setup.entries[p] :
           /\ setup.entries[p][i].kind = "dir" /\ setup.entries[p][i].to = d
           /\ \A k \in 1 .. Len(stack) : stack[k].dir = p => i < stack[k].next

\* No prefix of a relative path is excluded.
Clean(relative) ==
  \A n \in 1 .. Len(relative) : ~IsExcluded(SubSeq(relative, 1, n))

Pruned ==
  /\ \A i \in 1 .. Len(stack) : Clean(stack[i].relative)
  /\ \A q \in queued : Clean(q.relative)

Stays ==
  setup.oneFileSystem =>
    /\ \A i \in 1 .. Len(stack) : stack[i].dir \notin setup.elsewhere
    /\ \A i \in 1 .. Len(opened) : opened[i] \notin setup.elsewhere
    /\ \A q \in queued : q.file \notin setup.elsewhere

WalkInv ==
  WalkTypes /\ FramesUnderWay /\ ReadOnce /\ ReachedByEntry /\ Pruned /\ Stays

-----------------------------------------------------------------------------
(* The stack operations.                                                   *)

\* A directory lies deeper than the one it is an entry of.
LEMMA DepthFacts ==
  ASSUME setup \in Setups
  PROVE  /\ \A d \in Dirs : Depth[d] \in Nat
         /\ \A d \in Dirs : \A i \in DOMAIN setup.entries[d] :
              setup.entries[d][i].kind = "dir" =>
                setup.entries[d][i].to \in Dirs /\ Depth[setup.entries[d][i].to] > Depth[d]
<1>1. SetupType(setup)
  BY SetupAssumption
<1>2. Cardinality(Dirs) \in Nat
  BY WalkAssumption, FS_CardinalityType
<1>3. \E depth \in [Dirs -> 0 .. Cardinality(Dirs)] : Deepens(setup, depth)
  BY <1>1 DEF SetupType
<1>4. Depth \in [Dirs -> 0 .. Cardinality(Dirs)] /\ Deepens(setup, Depth)
  BY <1>3, Zenon DEF Depth
<1>5. \A d \in Dirs : Depth[d] \in Nat
  BY <1>2, <1>4
<1>6. \A d \in Dirs : \A i \in DOMAIN setup.entries[d] : EntryType(setup.entries[d][i])
  BY <1>1 DEF SetupType
<1> QED
  BY <1>4, <1>5, <1>6 DEF Deepens, EntryType

\* A directory is an entry of one directory, under one name.
LEMMA OneEntry ==
  ASSUME setup \in Setups, NEW d1 \in Dirs, NEW d2 \in Dirs,
         NEW i \in DOMAIN setup.entries[d1], NEW j \in DOMAIN setup.entries[d2],
         setup.entries[d1][i].kind = "dir", setup.entries[d2][j].kind = "dir",
         setup.entries[d1][i].to = setup.entries[d2][j].to
  PROVE  d1 = d2 /\ i = j
<1>1. OneEntryEach(setup)
  BY SetupAssumption DEF SetupType
<1> QED
  BY <1>1 DEF OneEntryEach

\* The depths are fixed with the file system.
LEMMA SameDepth ==
  ASSUME setup' = setup
  PROVE  Depth' = Depth
BY DEF Depth, Deepens

\* There is an innermost directory.
LEMMA TopFacts ==
  ASSUME WalkTypes, stack # <<>>
  PROVE  /\ Len(stack) \in Nat \ {0} /\ Len(stack) \in 1 .. Len(stack)
         /\ Top = stack[Len(stack)] /\ Top \in Frames
<1>1. Len(stack) \in Nat \ {0}
  BY EmptySeq DEF WalkTypes
<1>2. Top \in Frames
  BY <1>1, ElementOfSeq DEF Top, WalkTypes
<1> QED
  BY <1>1, <1>2 DEF Top

\* So there is for every directory under way.
LEMMA FrameFacts ==
  ASSUME WalkTypes, NEW i \in 1 .. Len(stack)
  PROVE  stack[i] \in Frames /\ stack[i].dir \in Dirs /\ stack[i].next \in Nat
<1>1. stack[i] \in Frames
  BY ElementOfSeq DEF WalkTypes
<1> QED
  BY <1>1 DEF Frames

\* The names are those of the file system, which is fixed.
LEMMA SameNames ==
  ASSUME setup' = setup
  PROVE  Names' = Names /\ Frames' = Frames
<1>1. Names' = Names
  BY DEF Names
<1> QED
  BY <1>1 DEF Frames

\* Only the position in the innermost directory moves.
LEMMA AdvancedFacts ==
  ASSUME WalkTypes, stack # <<>>
  PROVE  /\ Advanced \in Seq(Frames) /\ Len(Advanced) = Len(stack)
         /\ \A i \in 1 .. Len(stack) - 1 : Advanced[i] = stack[i]
         /\ \A i \in 1 .. Len(stack) :
              /\ Advanced[i].dir = stack[i].dir
              /\ Advanced[i].relative = stack[i].relative
              /\ Advanced[i].next >= stack[i].next
         /\ Advanced[Len(stack)].next = Top.next + 1
<1> DEFINE top == [Top EXCEPT !.next = @ + 1]
<1>1. Len(stack) \in Nat \ {0} /\ Len(stack) \in 1 .. Len(stack) /\ Top \in Frames
      /\ Top = stack[Len(stack)]
  BY TopFacts
<1>2. /\ top \in Frames /\ top.dir = Top.dir /\ top.relative = Top.relative
      /\ top.next = Top.next + 1 /\ top.next >= Top.next
  BY <1>1 DEF Frames
<1>3. Advanced = [stack EXCEPT ![Len(stack)] = top]
  BY <1>1 DEF Advanced
<1> HIDE DEF top
<1>4. /\ Advanced \in Seq(Frames) /\ Len(Advanced) = Len(stack)
      /\ \A i \in 1 .. Len(stack) :
           Advanced[i] = IF i = Len(stack) THEN top ELSE stack[i]
  BY <1>1, <1>2, <1>3, ExceptSeq DEF WalkTypes
<1>5. \A i \in 1 .. Len(stack) : stack[i] \in Frames /\ stack[i].next \in Nat
  BY FrameFacts
<1>6. ASSUME NEW i \in 1 .. Len(stack)
      PROVE  /\ Advanced[i].dir = stack[i].dir
             /\ Advanced[i].relative = stack[i].relative
             /\ Advanced[i].next >= stack[i].next
  <2>1. CASE i = Len(stack)
    BY <1>1, <1>2, <1>4, <2>1
  <2>2. CASE i # Len(stack)
    <3>1. Advanced[i] = stack[i]
      BY <1>4, <2>2
    <3> QED
      BY <1>5, <3>1
  <2> QED
    BY <2>1, <2>2
<1>7. /\ \A i \in 1 .. Len(stack) - 1 : Advanced[i] = stack[i]
      /\ Advanced[Len(stack)].next = Top.next + 1
  BY <1>1, <1>2, <1>4
<1> QED
  BY <1>4, <1>6, <1>7

\* A directory that is left uncovers the one around it.
LEMMA PopFacts ==
  ASSUME WalkTypes, stack # <<>>
  PROVE  LET outer == SubSeq(stack, 1, Len(stack) - 1) IN
         /\ outer \in Seq(Frames) /\ Len(outer) = Len(stack) - 1
         /\ \A i \in 1 .. Len(stack) - 1 : outer[i] = stack[i]
<1> DEFINE n == Len(stack) - 1
<1>1. n \in Nat /\ Len(stack) = n + 1
  BY TopFacts
<1>2. \A i \in 1 .. n : stack[i] \in Frames
  BY <1>1, ElementOfSeq DEF WalkTypes
<1> HIDE DEF n
<1>3. /\ SubSeq(stack, 1, n) \in Seq(Frames)
      /\ Len(SubSeq(stack, 1, n)) = IF 1 <= n THEN n - 1 + 1 ELSE 0
      /\ \A i \in 1 .. n - 1 + 1 : SubSeq(stack, 1, n)[i] = stack[1 + i - 1]
  BY <1>1, <1>2, SubSeqProperties
<1>4. n - 1 + 1 = n /\ (~(1 <= n) => n = 0) /\ \A i \in 1 .. n : 1 + i - 1 = i
  BY <1>1
<1>5. /\ SubSeq(stack, 1, n) \in Seq(Frames) /\ Len(SubSeq(stack, 1, n)) = n
      /\ \A i \in 1 .. n : SubSeq(stack, 1, n)[i] = stack[i]
  BY <1>3, <1>4
<1> QED
  BY <1>5 DEF n

\* The entry the walk has come to.
LEMMA EntryFacts ==
  ASSUME WalkTypes, AtEntry
  PROVE  /\ Top \in Frames /\ Top.dir \in Dirs /\ stack # <<>>
         /\ Top.next \in DOMAIN setup.entries[Top.dir]
         /\ Top.next \in 1 .. Len(setup.entries[Top.dir])
         /\ EntryType(Entry) /\ Relative \in Seq(Names)
<1>1. stack # <<>> /\ Top \in Frames /\ Top.next \in DOMAIN setup.entries[Top.dir]
  BY TopFacts DEF AtEntry
<1>2. Top.dir \in Dirs /\ Top.relative \in Seq(Names)
  BY <1>1 DEF Frames
<1>3. /\ setup.entries[Top.dir] \in Seq(Range(setup.entries[Top.dir]))
      /\ EntryType(Entry)
  BY <1>1, <1>2, SetupAssumption DEF WalkTypes, SetupType, Entry
<1>4. DOMAIN setup.entries[Top.dir] = 1 .. Len(setup.entries[Top.dir])
  BY <1>3, LenProperties
<1>5. Entry.name \in Names
  BY <1>1, <1>2 DEF Entry, Names
<1>6. Relative \in Seq(Names)
  BY <1>2, <1>5, AppendProperties DEF Relative
<1> QED
  BY <1>1, <1>2, <1>3, <1>4, <1>6

\* A path that is not excluded is clean when the directory it is in is.
LEMMA RelativeClean ==
  ASSUME WalkTypes, AtEntry, Clean(Top.relative), ~IsExcluded(Relative)
  PROVE  Clean(Relative)
<1> DEFINE r == Top.relative
           m == Len(r)
<1>1. r \in Seq(Names) /\ m \in Nat /\ Entry.name \in Names
  <2>1. Top \in Frames /\ Top.dir \in Dirs /\ Top.next \in DOMAIN setup.entries[Top.dir]
    BY EntryFacts
  <2> QED
    BY <2>1, LenProperties DEF Frames, Entry, Names
<1>2. /\ Relative \in Seq(Names) /\ Len(Relative) = m + 1
      /\ \A i \in 1 .. m : Relative[i] = r[i]
  BY <1>1, AppendProperties DEF Relative
<1> SUFFICES ASSUME NEW n \in 1 .. m + 1
             PROVE  ~IsExcluded(SubSeq(Relative, 1, n))
  BY <1>2 DEF Clean
<1>3. CASE n = m + 1
  <2>1. SubSeq(Relative, 1, n) = Relative
    BY <1>2, <1>3, SubSeqFull
  <2> QED
    BY <2>1
<1>4. CASE n \in 1 .. m
  <2>1. SubSeq(Relative, 1, n) = SubSeq(r, 1, n)
    BY <1>1, <1>2, <1>4
  <2> QED
    BY <1>4, <2>1 DEF Clean
<1> QED
  BY <1>1, <1>3, <1>4

-----------------------------------------------------------------------------
(* The steps.                                                              *)

\* The walk begins with the root, unread.
LEMMA InitWalk == WalkInit => WalkInv
<1> SUFFICES ASSUME WalkInit PROVE WalkInv
  OBVIOUS
<1>1. /\ stack = <<Frame(Root, <<>>)>> /\ stack \in Seq(Frames) /\ Len(stack) = 1
      /\ stack[1].dir = Root /\ stack[1].next = 0 /\ stack[1].relative = <<>>
  <2>1. <<>> \in Seq(Names)
    BY EmptySeq
  <2>2. Frame(Root, <<>>) \in Frames
    BY <2>1, WalkAssumption DEF Frame, Frames
  <2> QED
    BY <2>2 DEF WalkInit, Frame
<1>2. opened = <<>> /\ opened \in Seq(Dirs) /\ Len(opened) = 0
  BY EmptySeq DEF WalkInit
<1>3. WalkTypes
  <2>1. cancelled \in BOOLEAN /\ ended \in BOOLEAN
    BY Zenon DEF WalkInit
  <2> QED
    BY <1>1, <1>2, <2>1, WalkAssumption DEF WalkInit, WalkTypes
<1>4. FramesUnderWay
  <2>1. Len(setup.entries[Root]) \in Nat
    BY WalkAssumption, SetupAssumption, LenProperties DEF WalkInit, SetupType
  <2> QED
    BY <1>1, <2>1 DEF FramesUnderWay
<1>5. ReadOnce
  BY <1>1, <1>2 DEF WalkInit, ReadOnce
<1>8. ReachedByEntry
  <2>1. Depth[Root] \in Nat /\ visited = {Root}
    BY WalkAssumption, DepthFacts DEF WalkInit
  <2> QED
    BY <2>1 DEF ReachedByEntry
<1>6. Pruned
  BY <1>1, EmptySeq DEF WalkInit, Pruned, Clean
<1>7. Stays
  BY <1>1, <1>2, WalkAssumption, SetupAssumption DEF WalkInit, Stays, SetupType
<1> QED
  BY <1>3, <1>4, <1>5, <1>6, <1>7, <1>8 DEF WalkInv

\* A step that reads or leaves a directory, or passes an entry, opens none: its
\* frames are the old ones, further on.
FurtherOn ==
  /\ setup' = setup /\ visited' = visited
  /\ stack' \in Seq(Frames)
  /\ Len(stack') <= Len(stack)
  /\ \A i \in 1 .. Len(stack') :
       /\ stack'[i].dir = stack[i].dir
       /\ stack'[i].relative = stack[i].relative
       /\ stack'[i].next >= stack[i].next

\* Such a step keeps what holds of the frames.
LEMMA FurtherOnInv ==
  ASSUME WalkInv, FurtherOn
  PROVE  /\ ReachedByEntry'
         /\ opened' = opened => ReadOnce'
         /\ queued' = queued => Pruned'
         /\ opened' = opened /\ queued' = queued => Stays'
<1>1. /\ stack \in Seq(Frames) /\ Len(stack) \in Nat /\ Len(stack') \in Nat
      /\ \A i \in 1 .. Len(stack') :
           i \in 1 .. Len(stack) /\ stack[i].next \in Nat /\ stack'[i].next \in Nat
  <2>1. /\ stack \in Seq(Frames) /\ Len(stack) \in Nat /\ Len(stack') \in Nat
    BY LenProperties DEF WalkInv, WalkTypes, FurtherOn
  <2>2. \A i \in 1 .. Len(stack') : i \in 1 .. Len(stack)
    BY <2>1 DEF FurtherOn
  <2>3. \A i \in 1 .. Len(stack) : stack[i].next \in Nat
    BY FrameFacts DEF WalkInv
  <2>4. \A i \in 1 .. Len(stack') : stack'[i] \in Frames
    BY ElementOfSeq DEF FurtherOn
  <2>5. \A i \in 1 .. Len(stack') : stack'[i].next \in Nat
    BY <2>4 DEF Frames
  <2> QED
    BY <2>1, <2>2, <2>3, <2>5
<1>2. ReachedByEntry'
  <2> SUFFICES ASSUME ~setup.follow, NEW d \in visited \ {Root}
               PROVE  \E p \in visited : \E i \in DOMAIN setup.entries[p] :
                        /\ setup.entries[p][i].kind = "dir"
                        /\ setup.entries[p][i].to = d
                        /\ \A k \in 1 .. Len(stack') :
                             stack'[k].dir = p => i < stack'[k].next
    <3>1. ~setup.follow => \A e \in visited' : Depth'[e] >= Depth'[Root]
      BY SameDepth DEF WalkInv, ReachedByEntry, FurtherOn
    <3> QED
      BY <3>1 DEF ReachedByEntry, FurtherOn
  <2>0. PICK p \in visited : \E i \in DOMAIN setup.entries[p] :
          /\ setup.entries[p][i].kind = "dir" /\ setup.entries[p][i].to = d
          /\ \A k \in 1 .. Len(stack) : stack[k].dir = p => i < stack[k].next
    BY DEF WalkInv, ReachedByEntry
  <2>1. PICK i \in DOMAIN setup.entries[p] :
          /\ setup.entries[p][i].kind = "dir" /\ setup.entries[p][i].to = d
          /\ \A k \in 1 .. Len(stack) : stack[k].dir = p => i < stack[k].next
    BY <2>0
  <2>2. i \in Nat
    BY SetupAssumption, LenProperties DEF WalkInv, WalkTypes, SetupType
  <2>3. \A k \in 1 .. Len(stack') : stack'[k].dir = p => i < stack'[k].next
    BY <1>1, <2>1, <2>2 DEF FurtherOn
  <2> QED
    BY <2>1, <2>3
<1>3. ASSUME opened' = opened PROVE ReadOnce'
  <2>1. \A i \in 1 .. Len(stack') : stack[i].next > 0 => stack'[i].next > 0
    BY <1>1 DEF FurtherOn
  <2> QED
    BY <1>1, <1>3, <2>1 DEF WalkInv, ReadOnce, FurtherOn
<1>4. ASSUME queued' = queued PROVE Pruned'
  BY <1>1, <1>4 DEF WalkInv, Pruned, FurtherOn, Clean, IsExcluded
<1>5. ASSUME queued' = queued, opened' = opened PROVE Stays'
  BY <1>1, <1>5 DEF WalkInv, Stays, FurtherOn
<1> QED
  BY <1>2, <1>3, <1>4, <1>5

\* The directory whose frame is innermost is read, once.
LEMMA ReadDirectoryInv ==
  ASSUME WalkInv, ReadDirectory
  PROVE  WalkInv'
<1>1. /\ WalkTypes /\ stack # <<>> /\ Top.next = 0 /\ stack' = Advanced
      /\ opened' = Append(opened, Top.dir)
      /\ UNCHANGED <<setup, visited, queued, cancelled, ended>>
  BY DEF ReadDirectory, WalkInv
<1>2. /\ Len(stack) \in Nat \ {0} /\ Len(stack) \in 1 .. Len(stack)
      /\ Top = stack[Len(stack)] /\ Top \in Frames /\ Top.dir \in Dirs
  BY <1>1, TopFacts DEF Frames
<1>3. FurtherOn
  BY <1>1, AdvancedFacts DEF FurtherOn
<1>4. /\ stack' \in Seq(Frames) /\ Len(stack') = Len(stack)
      /\ stack'[Len(stack)].next = 1 /\ stack'[Len(stack)].dir = Top.dir
      /\ \A i \in 1 .. Len(stack) - 1 : stack'[i] = stack[i]
  BY <1>1, <1>2, AdvancedFacts
<1>5. /\ opened' \in Seq(Dirs) /\ Len(opened') = Len(opened) + 1
      /\ Len(opened) \in Nat
      /\ \A i \in 1 .. Len(opened) : opened'[i] = opened[i]
      /\ opened'[Len(opened) + 1] = Top.dir
  BY <1>1, <1>2, AppendProperties, LenProperties DEF WalkTypes
<1>6. WalkTypes'
  BY <1>1, <1>4, <1>5, SameNames DEF WalkTypes
<1>7. FramesUnderWay'
  <2>1. Len(setup.entries[Top.dir]) \in Nat
    BY <1>1, <1>2, SetupAssumption, LenProperties DEF WalkTypes, SetupType
  <2>2. stack'[Len(stack)].next <= Len(setup.entries[stack'[Len(stack)].dir]) + 1
    BY <1>4, <2>1
  <2> QED
    BY <1>1, <1>2, <1>4, <2>2, SMTT(20) DEF WalkInv, FramesUnderWay
<1>8. ReadOnce'
  <2>1. \A j \in 1 .. Len(opened) : opened[j] # Top.dir
    BY <1>1, <1>2 DEF WalkInv, ReadOnce
  <2>2. Top.dir \in visited
    BY <1>2 DEF WalkInv, ReadOnce
  <2>3. /\ \A i \in 1 .. Len(stack) : stack'[i].dir = stack[i].dir
        /\ \A i \in 1 .. Len(stack) : stack[i].next > 0 => stack'[i].next > 0
        /\ \A i \in 1 .. Len(stack) : stack[i].dir = Top.dir => i = Len(stack)
    BY <1>2, <1>3, <1>4 DEF WalkInv, ReadOnce, FurtherOn
  <2>4. \A i \in 1 .. Len(stack), j \in 1 .. Len(opened) + 1 :
          stack[i].dir = opened'[j] => stack'[i].next > 0
    BY <1>2, <1>4, <1>5, <2>3 DEF WalkInv, ReadOnce
  <2>5. \A i, j \in 1 .. Len(opened) + 1 : opened'[i] = opened'[j] => i = j
    BY <1>5, <2>1 DEF WalkInv, ReadOnce
  <2>6. \A i \in 1 .. Len(opened) + 1 : opened'[i] \in visited
    BY <1>5, <2>2 DEF WalkInv, ReadOnce
  <2>7. /\ \A i \in 1 .. Len(stack) : stack'[i].dir \in visited
        /\ \A i, j \in 1 .. Len(stack) : stack'[i].dir = stack'[j].dir => i = j
        /\ \A i \in 1 .. Len(stack), j \in 1 .. Len(opened) + 1 :
             stack'[i].dir = opened'[j] => stack'[i].next > 0
    BY <2>3, <2>4 DEF WalkInv, ReadOnce
  <2>8. /\ Len(stack') = Len(stack) /\ Len(opened') = Len(opened) + 1
        /\ visited' = visited
    BY <1>1, <1>4, <1>5
  <2> QED
    BY <2>5, <2>6, <2>7, <2>8, SMTT(20) DEF ReadOnce
<1>9. ReachedByEntry' /\ Pruned'
  BY <1>1, <1>3, FurtherOnInv
<1>10. Stays'
  BY <1>1, <1>2, <1>4, <1>5, <1>3 DEF WalkInv, Stays, FurtherOn
<1> QED
  BY <1>6, <1>7, <1>8, <1>9, <1>10 DEF WalkInv

\* A directory is left: the one around it goes on behind its entry.
LEMMA PopInv ==
  ASSUME WalkInv, stack # <<>>, stack' = SubSeq(stack, 1, Len(stack) - 1),
         UNCHANGED <<setup, visited, queued, opened, cancelled, ended>>
  PROVE  WalkInv'
<1>1. WalkTypes
  BY DEF WalkInv
<1>2. /\ stack' \in Seq(Frames) /\ Len(stack') = Len(stack) - 1
      /\ \A i \in 1 .. Len(stack) - 1 : stack'[i] = stack[i]
      /\ Len(stack) \in Nat \ {0}
  BY <1>1, PopFacts, TopFacts
<1>3. \A i \in 1 .. Len(stack) - 1 : i \in 1 .. Len(stack) /\ stack[i].next \in Nat
  BY <1>1, <1>2, FrameFacts
<1>4. FurtherOn
  BY <1>2, <1>3 DEF FurtherOn
<1>5. WalkTypes'
  BY <1>1, <1>2, SameNames DEF WalkTypes
<1>6. FramesUnderWay'
  BY <1>2, <1>3 DEF WalkInv, FramesUnderWay
<1> QED
  BY <1>4, <1>5, <1>6, FurtherOnInv DEF WalkInv

\* An entry is passed: it may be reported, and a file may be queued under a path
\* of which nothing is excluded.
LEMMA PassInv ==
  ASSUME WalkInv, AtEntry, stack' = Advanced,
         UNCHANGED <<setup, visited, opened, cancelled, ended>>,
         \/ queued' = queued
         \/ /\ queued' = queued \cup {[file |-> Entry.to, relative |-> Relative]}
            /\ Entry.to \in Files /\ OnRootFilesystem(Entry.to) /\ ~IsExcluded(Relative)
  PROVE  WalkInv'
<1>1. WalkTypes
  BY DEF WalkInv
<1>2. /\ Top \in Frames /\ Top.dir \in Dirs /\ stack # <<>>
      /\ Top.next \in 1 .. Len(setup.entries[Top.dir])
      /\ Relative \in Seq(Names)
  BY <1>1, EntryFacts
<1>3. /\ Len(stack) \in Nat \ {0} /\ Len(stack) \in 1 .. Len(stack)
      /\ Top = stack[Len(stack)]
  BY <1>1, <1>2, TopFacts
<1>4. /\ stack' \in Seq(Frames) /\ Len(stack') = Len(stack)
      /\ \A i \in 1 .. Len(stack) - 1 : stack'[i] = stack[i]
      /\ \A i \in 1 .. Len(stack) :
           /\ stack'[i].dir = stack[i].dir /\ stack'[i].relative = stack[i].relative
           /\ stack'[i].next >= stack[i].next
      /\ stack'[Len(stack)].next = Top.next + 1
  BY <1>1, <1>2, AdvancedFacts
<1>5. FurtherOn
  BY <1>3, <1>4 DEF FurtherOn
<1>6. WalkTypes'
  <2>1. Entry.to \in Files => [file |-> Entry.to, relative |-> Relative]
                                 \in [file : Files, relative : Seq(Names)]
    BY <1>2
  <2>2. queued' \subseteq [file : Files, relative : Seq(Names)]
    BY <1>1, <2>1 DEF WalkTypes
  <2> QED
    BY <1>1, <1>4, <2>2, SameNames DEF WalkTypes
<1>7. FramesUnderWay'
  <2>1. stack'[Len(stack)].next <= Len(setup.entries[stack'[Len(stack)].dir]) + 1
    BY <1>2, <1>3, <1>4
  <2> QED
    BY <1>3, <1>4, <2>1 DEF WalkInv, FramesUnderWay
<1>8. Pruned'
  <2>1. CASE queued' = queued
    BY <1>5, <2>1, FurtherOnInv
  <2>2. CASE /\ queued' = queued \cup {[file |-> Entry.to, relative |-> Relative]}
             /\ ~IsExcluded(Relative)
    <3>1. Clean(Relative)
      BY <1>1, <1>3, <2>2, RelativeClean DEF WalkInv, Pruned
    <3> QED
      BY <1>3, <1>4, <2>2, <3>1 DEF WalkInv, Pruned, Clean, IsExcluded
  <2> QED
    BY <2>1, <2>2
<1>9. Stays'
  BY <1>3, <1>4 DEF WalkInv, Stays, OnRootFilesystem
<1> QED
  BY <1>5, <1>6, <1>7, <1>8, <1>9, FurtherOnInv DEF WalkInv

\* A directory that the walk enters as an entry, or behind a symlink that it has
\* not visited, is new.
LEMMA NewDirectory ==
  ASSUME WalkInv, AtEntry, Entry.kind \in {"dir", "link"}, Entry.to \in Dirs,
         Entry.kind = "link" => setup.follow /\ Entry.to \notin visited,
         setup.follow => Entry.to \notin visited
  PROVE  Entry.to \notin visited
<1> SUFFICES ASSUME ~setup.follow, Entry.to \in visited PROVE FALSE
  OBVIOUS
<1>1. /\ WalkTypes /\ Top \in Frames /\ Top.dir \in Dirs /\ stack # <<>>
      /\ Top.next \in DOMAIN setup.entries[Top.dir]
      /\ Top.next \in Nat
  BY EntryFacts DEF WalkInv, Frames
<1>2. Len(stack) \in 1 .. Len(stack) /\ Top = stack[Len(stack)]
  BY <1>1, TopFacts
<1>3. setup \in Setups /\ visited \subseteq Dirs
  BY <1>1 DEF WalkTypes
<1>4. Entry.kind = "dir" /\ Entry.to # Root
  <2>1. Entry.kind = "dir" /\ Entry = setup.entries[Top.dir][Top.next]
    BY DEF Entry
  <2>2. Top.dir \in visited
    BY <1>2 DEF WalkInv, ReadOnce
  <2>3. Depth[Top.dir] >= Depth[Root] /\ Depth[Entry.to] > Depth[Top.dir]
    BY <1>1, <2>1, <2>2, DepthFacts DEF WalkInv, WalkTypes, ReachedByEntry
  <2>4. Depth[Top.dir] \in Nat /\ Depth[Entry.to] \in Nat /\ Depth[Root] \in Nat
    BY <1>1, WalkAssumption, DepthFacts DEF WalkTypes
  <2> QED
    BY <2>1, <2>3, <2>4
<1>5. PICK p \in visited : \E i \in DOMAIN setup.entries[p] :
        /\ setup.entries[p][i].kind = "dir" /\ setup.entries[p][i].to = Entry.to
        /\ \A k \in 1 .. Len(stack) : stack[k].dir = p => i < stack[k].next
  BY <1>4 DEF WalkInv, ReachedByEntry
<1>6. PICK i \in DOMAIN setup.entries[p] :
        /\ setup.entries[p][i].kind = "dir" /\ setup.entries[p][i].to = Entry.to
        /\ \A k \in 1 .. Len(stack) : stack[k].dir = p => i < stack[k].next
  BY <1>5
<1>7. p = Top.dir /\ i = Top.next
  BY <1>1, <1>3, <1>4, <1>6, OneEntry DEF Entry, WalkTypes
<1> QED
  BY <1>1, <1>2, <1>6, <1>7

\* A new directory is entered: its frame is put above the entry's, which is passed.
LEMMA EnterInv ==
  ASSUME WalkInv, AtEntry, ~IsExcluded(Relative),
         Entry.kind \in {"dir", "link"}, Entry.to \in Dirs, OnRootFilesystem(Entry.to),
         Entry.to \notin visited, setup.follow \/ Entry.kind = "dir",
         stack' = Append(Advanced, Frame(Entry.to, Relative)),
         visited' = visited \cup {Entry.to},
         UNCHANGED <<setup, queued, opened, cancelled, ended>>
  PROVE  WalkInv'
<1> DEFINE n == Len(stack)
           new == Frame(Entry.to, Relative)
<1>1. WalkTypes /\ SetupType(setup)
  BY SetupAssumption DEF WalkInv, WalkTypes
<1>2. /\ Top \in Frames /\ Top.dir \in Dirs /\ stack # <<>>
      /\ Top.next \in DOMAIN setup.entries[Top.dir]
      /\ Top.next \in 1 .. Len(setup.entries[Top.dir])
      /\ Relative \in Seq(Names)
  BY <1>1, EntryFacts
<1>3. n \in Nat \ {0} /\ n \in 1 .. n /\ Top = stack[n]
  BY <1>1, <1>2, TopFacts
<1>4. new \in Frames /\ new.dir = Entry.to /\ new.relative = Relative /\ new.next = 0
  BY <1>2 DEF Frame, Frames
<1> HIDE DEF new
<1>5. /\ Advanced \in Seq(Frames) /\ Len(Advanced) = n
      /\ \A i \in 1 .. n - 1 : Advanced[i] = stack[i]
      /\ \A i \in 1 .. n :
           /\ Advanced[i].dir = stack[i].dir /\ Advanced[i].relative = stack[i].relative
           /\ Advanced[i].next >= stack[i].next
      /\ Advanced[n].next = Top.next + 1
  BY <1>1, <1>2, AdvancedFacts
<1>6. /\ stack' \in Seq(Frames) /\ Len(stack') = n + 1
      /\ \A i \in 1 .. n : stack'[i] = Advanced[i]
      /\ stack'[n + 1] = new
  BY <1>4, <1>5, AppendProperties DEF new
<1> HIDE DEF n
<1>7. /\ \A i \in 1 .. n :
           /\ stack'[i].dir = stack[i].dir /\ stack'[i].relative = stack[i].relative
           /\ stack'[i].next >= stack[i].next
           /\ stack[i].next \in Nat /\ stack'[i].next \in Nat
      /\ stack'[n].next = Top.next + 1
      /\ \A i \in 1 .. n - 1 : stack'[i] = stack[i]
      /\ \A i \in 1 .. n + 1 : i \in 1 .. n \/ i = n + 1
  <2>1. \A i \in 1 .. n : stack[i].next \in Nat
    BY <1>1, FrameFacts DEF n
  <2>2. ASSUME NEW i \in 1 .. n
        PROVE  Advanced[i].next \in Nat
    <3>1. Advanced[i] \in Frames
      BY <1>5, ElementOfSeq
    <3> QED
      BY <3>1 DEF Frames
  <2>3. \A i \in 1 .. n :
          /\ stack'[i].dir = stack[i].dir /\ stack'[i].relative = stack[i].relative
          /\ stack'[i].next >= stack[i].next
    BY <1>5, <1>6
  <2>4. \A i \in 1 .. n : stack'[i].next \in Nat
    BY <1>6, <2>2
  <2>5. \A i \in 1 .. n - 1 : i \in 1 .. n
    BY <1>3
  <2>6. stack'[n].next = Top.next + 1
    BY <1>3, <1>5, <1>6
  <2>7. \A i \in 1 .. n - 1 : stack'[i] = stack[i]
    BY <1>5, <1>6, <2>5
  <2>8. \A i \in 1 .. n + 1 : i \in 1 .. n \/ i = n + 1
    BY <1>3
  <2> QED
    BY <2>1, <2>3, <2>4, <2>6, <2>7, <2>8
<1> DEFINE Rises(x, y) == x \in Nat /\ y \in Nat /\ y >= x
<1>8. /\ \A x, y : Rises(x, y) => \A z \in Nat : z < x => z < y
      /\ \A x : x \in Nat => x < x + 1
  OBVIOUS
<1>9. \A i \in 1 .. n : Rises(stack[i].next, stack'[i].next)
  BY <1>7
<1> HIDE DEF Rises
<1>10. WalkTypes'
  BY <1>1, <1>6, SameNames DEF WalkTypes
<1>11. FramesUnderWay'
  <2>1. /\ stack'[n].next > 1
        /\ stack'[n].next <= Len(setup.entries[stack'[n].dir]) + 1
    <3>1. stack'[n].dir = Top.dir /\ stack'[n].next = Top.next + 1
      BY <1>3, <1>7
    <3>2. setup.entries[Top.dir] \in Seq(Range(setup.entries[Top.dir]))
      BY <1>1, <1>2 DEF SetupType
    <3>3. Len(setup.entries[Top.dir]) \in Nat
      BY <3>2, LenProperties
    <3> QED
      BY <1>2, <3>1, <3>3
  <2>2. stack'[n + 1].next <= Len(setup.entries[stack'[n + 1].dir]) + 1
    <3>1. setup.entries[Entry.to] \in Seq(Range(setup.entries[Entry.to]))
      BY <1>1 DEF SetupType
    <3>2. Len(setup.entries[Entry.to]) \in Nat
      BY <3>1, LenProperties
    <3> QED
      BY <1>4, <1>6, <3>2
  <2>3. \A i \in 1 .. n - 1 :
          /\ stack'[i].next <= Len(setup.entries[stack'[i].dir]) + 1
          /\ stack'[i].next > 1
    <3>1. \A i \in 1 .. n - 1 : i \in 1 .. n /\ i < n
      BY <1>3
    <3>2. \A i \in 1 .. n - 1 :
            /\ stack[i].next <= Len(setup.entries[stack[i].dir]) + 1
            /\ stack[i].next > 1
      BY <3>1 DEF WalkInv, FramesUnderWay, n
    <3> QED
      BY <1>7, <3>2
  <2>4. \A i \in 1 .. n + 1 : i \in 1 .. n - 1 \/ i = n \/ i = n + 1
    BY <1>3
  <2> QED
    BY <1>3, <1>6, <2>1, <2>2, <2>3, <2>4, SMTT(20) DEF FramesUnderWay
<1>12. ReadOnce'
  <2>1. \A i \in 1 .. n + 1 : stack'[i].dir \in visited'
    BY <1>4, <1>6, <1>7 DEF WalkInv, ReadOnce, n
  <2>2. \A i \in 1 .. n : stack'[i].dir \in visited /\ stack'[i].dir # Entry.to
    BY <1>7 DEF WalkInv, ReadOnce, n
  <2>3. \A i, j \in 1 .. n + 1 : stack'[i].dir = stack'[j].dir => i = j
    <3>1. ASSUME NEW i \in 1 .. n, NEW j \in 1 .. n, stack'[i].dir = stack'[j].dir
          PROVE  i = j
      <4>1. stack[i].dir = stack[j].dir
        BY <1>7, <3>1
      <4> QED
        BY <4>1 DEF WalkInv, ReadOnce, n
    <3> QED
      BY <1>4, <1>6, <1>7, <2>2, <3>1
  <2>4. /\ \A j \in 1 .. Len(opened) : opened[j] \in visited /\ opened[j] # Entry.to
        /\ \A i, j \in 1 .. Len(opened) : opened[i] = opened[j] => i = j
    BY DEF WalkInv, ReadOnce
  <2>5. \A i \in 1 .. n + 1, j \in 1 .. Len(opened) :
          stack'[i].dir = opened[j] => stack'[i].next > 0
    <3>1. \A i \in 1 .. n, j \in 1 .. Len(opened) :
            stack[i].dir = opened[j] => stack[i].next > 0
      BY DEF WalkInv, ReadOnce, n
    <3>2. ASSUME NEW i \in 1 .. n
          PROVE  /\ stack[i].next > 0 => stack'[i].next > 0
                 /\ stack'[i].dir = stack[i].dir
      <4> DEFINE x == stack[i].next
                 y == stack'[i].next
      <4>1. x \in Nat /\ y \in Nat /\ y >= x /\ stack'[i].dir = stack[i].dir
        BY <1>7
      <4> HIDE DEF x, y
      <4>2. x > 0 => y > 0
        BY <4>1
      <4> QED
        BY <4>1, <4>2 DEF x, y
    <3>3. \A i \in 1 .. n + 1 : i \in 1 .. n \/ i = n + 1
      BY <1>7
    <3>4. stack'[n + 1].dir = Entry.to
      BY <1>4, <1>6
    <3>5. ASSUME NEW i \in 1 .. n, NEW j \in 1 .. Len(opened),
                 stack'[i].dir = opened[j]
          PROVE  stack'[i].next > 0
      <4>1. stack[i].dir = opened[j] /\ (stack[i].next > 0 => stack'[i].next > 0)
        BY <3>2, <3>5
      <4> QED
        BY <3>1, <4>1
    <3>6. \A j \in 1 .. Len(opened) : stack'[n + 1].dir # opened[j]
      BY <2>4, <3>4
    <3> QED
      BY <3>3, <3>5, <3>6
  <2> QED
    BY <1>6, <2>1, <2>3, <2>4, <2>5 DEF ReadOnce
<1>13. ReachedByEntry'
  <2> SUFFICES ASSUME ~setup.follow, NEW d \in visited' \ {Root}
               PROVE  \E p \in visited' : \E i \in DOMAIN setup.entries[p] :
                        /\ setup.entries[p][i].kind = "dir"
                        /\ setup.entries[p][i].to = d
                        /\ \A k \in 1 .. n + 1 :
                             stack'[k].dir = p => i < stack'[k].next
    <3>1. ASSUME ~setup.follow, NEW d \in visited'
          PROVE  Depth'[d] >= Depth'[Root]
      <4>1. Entry.kind = "dir" /\ Entry = setup.entries[Top.dir][Top.next]
        BY <3>1 DEF Entry
      <4>2. /\ Depth[Entry.to] > Depth[Top.dir] /\ Depth[Top.dir] >= Depth[Root]
            /\ Depth[Top.dir] \in Nat /\ Depth[Entry.to] \in Nat /\ Depth[Root] \in Nat
        <5>1. setup \in Setups /\ Top.dir \in visited /\ Root \in Dirs
          BY <1>1, <1>3, WalkAssumption DEF WalkInv, WalkTypes, ReadOnce, n
        <5>2. Depth[Top.dir] >= Depth[Root]
          BY <3>1, <5>1 DEF WalkInv, ReachedByEntry
        <5> QED
          BY <1>2, <4>1, <5>1, <5>2, DepthFacts
      <4>3. Depth[d] >= Depth[Root]
        BY <3>1, <4>2 DEF WalkInv, ReachedByEntry
      <4> QED
        BY <4>3, SameDepth
    <3> QED
      BY <1>6, <3>1 DEF ReachedByEntry
  <2>1. CASE d \in visited
    <3>1. PICK p \in visited : \E i \in DOMAIN setup.entries[p] :
            /\ setup.entries[p][i].kind = "dir" /\ setup.entries[p][i].to = d
            /\ \A k \in 1 .. n : stack[k].dir = p => i < stack[k].next
      BY <2>1 DEF WalkInv, ReachedByEntry, n
    <3>2. PICK i \in DOMAIN setup.entries[p] :
            /\ setup.entries[p][i].kind = "dir" /\ setup.entries[p][i].to = d
            /\ \A k \in 1 .. n : stack[k].dir = p => i < stack[k].next
      BY <3>1
    <3>3. i \in Nat
      <4>1. setup.entries[p] \in Seq(Range(setup.entries[p]))
        BY <1>1 DEF SetupType, WalkTypes
      <4> QED
        BY <4>1, LenProperties
    <3>4. ASSUME NEW k \in 1 .. n, stack'[k].dir = p
          PROVE  i < stack'[k].next
      <4>1. Rises(stack[k].next, stack'[k].next) /\ stack[k].dir = p
        BY <1>7, <1>9, <3>4
      <4>2. i < stack[k].next
        BY <3>2, <4>1
      <4> QED
        BY <1>8, <3>3, <4>1, <4>2, Zenon
    <3>5. stack'[n + 1].dir # p
      BY <1>4, <1>6
    <3>6. \A k \in 1 .. n + 1 : stack'[k].dir = p => i < stack'[k].next
      BY <1>7, <3>4, <3>5
    <3>7. p \in visited'
      OBVIOUS
    <3> HIDE DEF n
    <3> QED
      BY <3>2, <3>6, <3>7
  <2>2. CASE d = Entry.to
    <3>1. /\ setup.entries[Top.dir][Top.next].kind = "dir"
          /\ setup.entries[Top.dir][Top.next].to = d
      BY <2>2 DEF Entry
    <3>2. Top.dir \in visited
      BY <1>3 DEF WalkInv, ReadOnce, n
    <3>3. ASSUME NEW k \in 1 .. n + 1, stack'[k].dir = Top.dir
          PROVE  Top.next < stack'[k].next
      <4>1. k \in 1 .. n
        BY <1>4, <1>6, <1>7, <3>2, <3>3
      <4>2. k = n
        BY <1>3, <1>7, <3>3, <4>1 DEF WalkInv, ReadOnce, n
      <4> QED
        <5>1. Top.next \in Nat
          BY <1>2 DEF Frames
        <5>2. stack'[k].next = Top.next + 1
          BY <1>7, <4>2, Zenon
        <5> QED
          BY <1>8, <5>1, <5>2, Zenon
    <3> QED
      BY <1>2, <3>1, <3>2, <3>3
  <2> QED
    BY <2>1, <2>2
<1>14. Pruned'
  <2>1. Clean(Relative) /\ \A i \in 1 .. n : Clean(stack[i].relative)
    BY <1>1, <1>3, RelativeClean DEF WalkInv, Pruned, n
  <2>2. \A i \in 1 .. n + 1 : Clean(stack'[i].relative)
    BY <1>4, <1>6, <1>7, <2>1
  <2> QED
    BY <1>6, <2>2 DEF WalkInv, Pruned, Clean, IsExcluded
<1>15. Stays'
  <2>1. ASSUME setup.oneFileSystem
        PROVE  \A i \in 1 .. n + 1 : stack'[i].dir \notin setup.elsewhere
    BY <1>4, <1>6, <1>7, <2>1 DEF WalkInv, Stays, OnRootFilesystem, n
  <2> QED
    BY <1>6, <2>1 DEF WalkInv, Stays
<1> QED
  BY <1>10, <1>11, <1>12, <1>13, <1>14, <1>15 DEF WalkInv

\* Every step keeps the invariant.
LEMMA WalkStepInv == WalkInv /\ [WalkNext]_walkVars => WalkInv'
<1> SUFFICES ASSUME WalkInv, [WalkNext]_walkVars PROVE WalkInv'
  OBVIOUS
<1>1. ASSUME UNCHANGED <<setup, stack, visited, queued, opened>>,
             cancelled' \in BOOLEAN, ended' \in BOOLEAN
      PROVE  WalkInv'
  BY <1>1, SameNames, SameDepth
  DEF WalkInv, WalkTypes, FramesUnderWay, ReadOnce, ReachedByEntry,
         Pruned, Clean, IsExcluded, Stays
<1>2. CASE UNCHANGED walkVars
  BY <1>1, <1>2 DEF walkVars, WalkInv, WalkTypes
<1>3. CASE EndWalk
  BY <1>1, <1>3 DEF EndWalk, WalkInv, WalkTypes
<1>4. CASE Cancel
  BY <1>1, <1>4 DEF Cancel, WalkInv, WalkTypes
<1>5. CASE ReadDirectory
  BY <1>5, ReadDirectoryInv
<1>6. CASE FailDirectory \/ EndDirectory
  BY <1>6, PopInv DEF FailDirectory, EndDirectory
<1>7. CASE SkipEntry \/ FailEntry \/ VisitFile \/ VisitFileLink
  <2>1. CASE SkipEntry \/ FailEntry
    BY <2>1, PassInv DEF SkipEntry, FailEntry
  <2>2. CASE VisitFile
    <3>1. EntryType(Entry)
      BY <2>2, EntryFacts DEF VisitFile, WalkInv
    <3> QED
      BY <2>2, <3>1, PassInv DEF VisitFile, EntryType
  <2>3. CASE VisitFileLink
    BY <2>3, PassInv DEF VisitFileLink
  <2> QED
    BY <1>7, <2>1, <2>2, <2>3
<1>8. CASE VisitDirectory
  <2>1. Entry.to \in Dirs
    BY <1>8, EntryFacts DEF VisitDirectory, EntryType, WalkInv
  <2>2. CASE setup.follow /\ Entry.to \in visited
    BY <1>8, <2>2, PassInv DEF VisitDirectory
  <2>3. CASE ~(setup.follow /\ Entry.to \in visited)
    <3>1. AtEntry /\ Entry.kind = "dir"
      BY <1>8 DEF VisitDirectory
    <3>2. Entry.to \notin visited
      BY <2>1, <2>3, <3>1, NewDirectory
    <3> QED
      BY <1>8, <2>1, <2>3, <3>2, EnterInv DEF VisitDirectory
  <2> QED
    BY <2>2, <2>3
<1>9. CASE VisitDirLink
  <2>1. CASE Entry.to \in visited
    BY <1>9, <2>1, PassInv DEF VisitDirLink
  <2>2. CASE Entry.to \notin visited
    BY <1>9, <2>2, EnterInv DEF VisitDirLink
  <2> QED
    BY <2>1, <2>2
<1> QED
  BY <1>2, <1>3, <1>4, <1>5, <1>6, <1>7, <1>8, <1>9 DEF WalkNext, WalkStep

-----------------------------------------------------------------------------
(* Numbers and iterated functions.                                         *)

\* Induction, as a fact about sets of numbers: of the sets 0 .. n with n outside
\* S none is minimal.
LEMMA Induction ==
  ASSUME NEW S, 0 \in S, \A n \in Nat : n \in S => n + 1 \in S
  PROVE  Nat \subseteq S
<1> DEFINE T == {0 .. n : n \in Nat \ S}
<1>1. SUFFICES ASSUME T # {} PROVE FALSE
  OBVIOUS
<1>2. T \subseteq FiniteSubsetsOf(Nat)
  <2>1. ASSUME NEW n \in Nat PROVE 0 .. n \in FiniteSubsetsOf(Nat)
    <3>1. IsFiniteSet(0 .. n) /\ 0 .. n \subseteq Nat
      BY FS_Interval
    <3> QED
      BY <3>1 DEF FiniteSubsetsOf
  <2> QED
    BY <2>1
<1>3. PICK x \in T : \A y \in T : <<y, x>> \notin StrictSubsetOrdering(Nat)
  BY <1>1, <1>2, WFMin, FS_StrictSubsetOrderingWellFounded
<1>4. PICK n \in Nat \ S : x = 0 .. n
  BY <1>3
<1>5. n # 0 /\ n - 1 \in Nat /\ (n - 1) + 1 = n
  OBVIOUS
<1>6. n - 1 \in Nat \ S
  BY <1>4, <1>5
<1>7. /\ 0 .. n - 1 \subseteq 0 .. n /\ 0 .. n \subseteq Nat
      /\ n \in 0 .. n /\ n \notin 0 .. n - 1
  BY <1>5
<1>8. <<0 .. n - 1, 0 .. n>> \in StrictSubsetOrdering(Nat)
  <2>1. 0 .. n - 1 # 0 .. n
    BY <1>7
  <2> QED
    BY <1>7, <2>1 DEF StrictSubsetOrdering
<1> QED
  BY <1>3, <1>4, <1>6, <1>8

\* The values of f's first n iterations.
Iterates(f, V, first, n, g) ==
  /\ g \in [0 .. n -> V] /\ g[0] = first
  /\ \A i \in 0 .. n - 1 : g[i + 1] = f[g[i]]

Iterated(first, f, h) ==
  h = [n \in Nat |-> IF n = 0 THEN first ELSE f[h[n - 1]]]

\* A function can be iterated.
LEMMA Iteration ==
  ASSUME NEW V, NEW first \in V, NEW f \in [V -> V]
  PROVE  \E h \in [Nat -> V] : Iterated(first, f, h)
<1>1. \A n \in Nat : \E g : Iterates(f, V, first, n, g)
  <2> DEFINE S == {n \in Nat : \E g : Iterates(f, V, first, n, g)}
  <2>1. 0 \in S
    <3>1. Iterates(f, V, first, 0, [i \in 0 .. 0 |-> first])
      BY DEF Iterates
    <3> QED
      BY <3>1
  <2>2. ASSUME NEW n \in Nat, n \in S PROVE n + 1 \in S
    <3>1. PICK g : Iterates(f, V, first, n, g)
      BY <2>2
    <3> DEFINE h == [i \in 0 .. n + 1 |-> IF i = n + 1 THEN f[g[n]] ELSE g[i]]
    <3>2. n + 1 \in Nat /\ g[n] \in V /\ \A i \in 0 .. n + 1 : i # n + 1 => i \in 0 .. n
      BY <3>1 DEF Iterates
    <3>3. h \in [0 .. n + 1 -> V]
      BY <3>1, <3>2 DEF Iterates
    <3>4. h[0] = first
      BY <3>1 DEF Iterates
    <3>5. ASSUME NEW i \in 0 .. (n + 1) - 1 PROVE h[i + 1] = f[h[i]]
      <4>1. CASE i = n
        BY <4>1
      <4>2. CASE i \in 0 .. n - 1
        BY <3>1, <4>2 DEF Iterates
      <4> QED
        BY <4>1, <4>2
    <3>6. Iterates(f, V, first, n + 1, h)
      BY <3>3, <3>4, <3>5 DEF Iterates
    <3> QED
      BY <3>2, <3>6
  <2> HIDE DEF S
  <2>3. Nat \subseteq S
    BY <2>1, <2>2, Induction
  <2> QED
    BY <2>3 DEF S
<1>2. \A i \in Nat : \A n, m \in Nat : \A g, h :
        /\ Iterates(f, V, first, n, g) /\ Iterates(f, V, first, m, h)
        /\ i <= n /\ i <= m
        => g[i] = h[i]
  <2> DEFINE Same(i) == \A n, m \in Nat : \A g, h :
               /\ Iterates(f, V, first, n, g) /\ Iterates(f, V, first, m, h)
               /\ i <= n /\ i <= m
               => g[i] = h[i]
             S == {i \in Nat : Same(i)}
  <2>1. 0 \in S
    BY DEF Iterates
  <2>2. ASSUME NEW i \in Nat, i \in S PROVE i + 1 \in S
    <3> SUFFICES ASSUME NEW n \in Nat, NEW m \in Nat, NEW g, NEW h,
                        Iterates(f, V, first, n, g), Iterates(f, V, first, m, h),
                        i + 1 <= n, i + 1 <= m
                 PROVE  g[i + 1] = h[i + 1]
      OBVIOUS
    <3>1. i <= n /\ i <= m /\ i \in 0 .. n - 1 /\ i \in 0 .. m - 1
      OBVIOUS
    <3>2. g[i] = h[i]
      BY <2>2, <3>1
    <3> QED
      BY <3>1, <3>2 DEF Iterates
  <2> HIDE DEF S
  <2>3. Nat \subseteq S
    BY <2>1, <2>2, Induction
  <2> QED
    BY <2>3 DEF S
<1> DEFINE part(n) == CHOOSE g : Iterates(f, V, first, n, g)
           h == [n \in Nat |-> part(n)[n]]
<1>3. \A n \in Nat : Iterates(f, V, first, n, part(n))
  BY <1>1
<1> HIDE DEF part
<1>4. h \in [Nat -> V]
  BY <1>3 DEF Iterates
<1>5. h[0] = first
  BY <1>3 DEF Iterates
<1>6. ASSUME NEW n \in Nat PROVE h[n + 1] = f[h[n]]
  <2>1. n + 1 \in Nat /\ n \in 0 .. (n + 1) - 1 /\ n <= n + 1 /\ n <= n
    OBVIOUS
  <2>2. part(n + 1)[n + 1] = f[part(n + 1)[n]]
    BY <1>3, <2>1 DEF Iterates
  <2>3. part(n + 1)[n] = part(n)[n]
    BY <1>2, <1>3, <2>1
  <2> QED
    BY <2>1, <2>2, <2>3
<1> HIDE DEF h
<1>7. ASSUME NEW n \in Nat, n # 0 PROVE h[n] = f[h[n - 1]]
  <2>1. n - 1 \in Nat /\ (n - 1) + 1 = n
    BY <1>7
  <2> QED
    BY <1>6, <2>1
<1>8. h = [n \in Nat |-> IF n = 0 THEN first ELSE f[h[n - 1]]]
  BY <1>4, <1>5, <1>7
<1> QED
  BY <1>4, <1>8 DEF Iterated

-----------------------------------------------------------------------------
(* The directories that no symlink is needed for.                          *)

Paths == [dir : Dirs, relative : Seq(Names)]

\* The directories one entry below those of P.
Below(P) ==
  UNION {{[dir |-> e.to, relative |-> Append(p.relative, e.name)] :
            e \in EntriesOf(p, "dir")} : p \in P}

\* An entry of a directory, for what it is.
LEMMA EntriesOfFacts ==
  ASSUME setup \in Setups, NEW p \in Paths, NEW kind, NEW e \in EntriesOf(p, kind)
  PROVE  /\ e.kind = kind /\ EntryType(e) /\ e.name \in Names /\ OnRootFilesystem(e.to)
         /\ ~IsExcluded(Append(p.relative, e.name))
         /\ \E i \in DOMAIN setup.entries[p.dir] : setup.entries[p.dir][i] = e
<1>1. SetupType(setup) /\ p.dir \in Dirs
  BY SetupAssumption DEF Paths
<1>2. PICK i \in DOMAIN setup.entries[p.dir] : setup.entries[p.dir][i] = e
  BY DEF EntriesOf, Range
<1>3. EntryType(e)
  BY <1>1, <1>2 DEF SetupType
<1>4. e.name \in Names
  BY <1>1, <1>2 DEF Names
<1> QED
  BY <1>2, <1>3, <1>4 DEF EntriesOf

\* What is below a set of paths is one.
LEMMA BelowPaths ==
  ASSUME setup \in Setups, NEW P \in SUBSET Paths
  PROVE  Below(P) \in SUBSET Paths
<1> SUFFICES ASSUME NEW p \in P, NEW e \in EntriesOf(p, "dir")
             PROVE  [dir |-> e.to, relative |-> Append(p.relative, e.name)] \in Paths
  BY DEF Below
<1>1. e.kind = "dir" /\ EntryType(e) /\ e.name \in Names
  BY EntriesOfFacts
<1>2. e.to \in Dirs
  BY <1>1 DEF EntryType
<1>3. Append(p.relative, e.name) \in Seq(Names)
  BY <1>1, AppendProperties DEF Paths
<1> QED
  BY <1>2, <1>3 DEF Paths

\* RealDirs is the function its equation describes.
LEMMA RealDirsFacts ==
  setup \in Setups =>
    /\ RealDirs \in [Nat -> SUBSET Paths]
    /\ RealDirs[0] = {[dir |-> Root, relative |-> <<>>]}
    /\ \A n \in Nat : RealDirs[n + 1] = Below(RealDirs[n])
<1> DEFINE V == SUBSET Paths
           first == {[dir |-> Root, relative |-> <<>>]}
           below == [P \in V |-> Below(P)]
           Solves(g) == g = [n \in Nat |-> IF n = 0 THEN first ELSE Below(g[n - 1])]
<1>1. setup \in Setups => first \in V /\ below \in [V -> V]
  BY WalkAssumption, EmptySeq, BelowPaths DEF Paths
<1>2. ASSUME first \in V, below \in [V -> V]
      PROVE  \E h \in [Nat -> V] : Iterated(first, below, h)
  <2> HIDE DEF V, first, below
  <2> QED
    BY <1>2, Iteration
<1> SUFFICES ASSUME setup \in Setups
             PROVE  /\ RealDirs \in [Nat -> V] /\ RealDirs[0] = first
                    /\ \A n \in Nat : RealDirs[n + 1] = Below(RealDirs[n])
  OBVIOUS
<1>3. PICK h \in [Nat -> V] : Iterated(first, below, h)
  BY <1>1, <1>2
<1>4. Solves(h)
  <2>1. h = [n \in Nat |-> IF n = 0 THEN first ELSE below[h[n - 1]]]
    BY <1>3 DEF Iterated
  <2>2. ASSUME NEW n \in Nat, n # 0 PROVE below[h[n - 1]] = Below(h[n - 1])
    <3>1. n - 1 \in Nat
      BY <2>2
    <3> QED
      BY <1>3, <3>1
  <2> HIDE DEF first, below
  <2> QED
    BY <2>1, <2>2
<1>5. RealDirs = CHOOSE g : Solves(g)
  BY DEF RealDirs, Below
<1>6. Solves(RealDirs)
  BY <1>4, <1>5
<1> HIDE DEF first
<1>7. RealDirs[0] = first
  BY <1>6
<1>8. ASSUME NEW n \in Nat PROVE RealDirs[n + 1] = Below(RealDirs[n])
  <2>1. n + 1 \in Nat /\ n + 1 # 0 /\ (n + 1) - 1 = n
    OBVIOUS
  <2> QED
    BY <1>6, <2>1
<1>9. ASSUME NEW n \in Nat PROVE RealDirs[n] \in V
  <2> DEFINE S == {k \in Nat : RealDirs[k] \in V}
  <2>1. 0 \in S
    BY <1>1, <1>7
  <2>2. \A k \in Nat : k \in S => k + 1 \in S
    BY <1>8, BelowPaths
  <2> HIDE DEF S
  <2>3. Nat \subseteq S
    BY <2>1, <2>2, Induction
  <2> QED
    BY <2>3 DEF S
<1>10. RealDirs \in [Nat -> V]
  <2>1. RealDirs = [n \in Nat |-> RealDirs[n]]
    BY <1>6
  <2> QED
    BY <1>9, <2>1
<1> QED
  BY <1>7, <1>8, <1>10

\* It is fixed with the file system.
LEMMA RealDirsStay ==
  ASSUME setup' = setup
  PROVE  RealDirs' = RealDirs
BY DEF RealDirs, EntriesOf, OnRootFilesystem, IsExcluded

\* Where a directory that no symlink is needed for comes from.
LEMMA RealDirCases ==
  ASSUME setup \in Setups, NEW n \in Nat, NEW p \in RealDirs[n]
  PROVE  /\ p \in Paths
         /\ \/ n = 0 /\ p = [dir |-> Root, relative |-> <<>>]
            \/ /\ n # 0
               /\ \A k \in Nat : n = k + 1 =>
                  \E q \in RealDirs[k] : \E i \in DOMAIN setup.entries[q.dir] :
                    /\ q \in Paths /\ setup.entries[q.dir][i].kind = "dir"
                    /\ p = [dir |-> setup.entries[q.dir][i].to, relative |->
                              Append(q.relative, setup.entries[q.dir][i].name)]
<1>1. p \in Paths
  BY RealDirsFacts
<1>2. CASE n = 0
  BY <1>1, <1>2, RealDirsFacts
<1>3. ASSUME NEW k \in Nat, n = k + 1
      PROVE  \E q \in RealDirs[k] : \E i \in DOMAIN setup.entries[q.dir] :
               /\ q \in Paths /\ setup.entries[q.dir][i].kind = "dir"
               /\ p = [dir |-> setup.entries[q.dir][i].to, relative |->
                         Append(q.relative, setup.entries[q.dir][i].name)]
  <2>2. p \in Below(RealDirs[k]) /\ RealDirs[k] \in SUBSET Paths
    BY <1>3, RealDirsFacts
  <2>3. PICK q \in RealDirs[k] : \E e \in EntriesOf(q, "dir") :
          p = [dir |-> e.to, relative |-> Append(q.relative, e.name)]
    BY <2>2 DEF Below
  <2>4. PICK e \in EntriesOf(q, "dir") :
          p = [dir |-> e.to, relative |-> Append(q.relative, e.name)]
    BY <2>3
  <2>5. q \in Paths
    BY <2>2
  <2>6. PICK i \in DOMAIN setup.entries[q.dir] : setup.entries[q.dir][i] = e
    BY <2>5, EntriesOfFacts
  <2>7. e.kind = "dir"
    BY <2>5, EntriesOfFacts
  <2> QED
    BY <2>4, <2>5, <2>6, <2>7
<1>4. n # 0 => n - 1 \in Nat /\ n = (n - 1) + 1
  OBVIOUS
<1> QED
  BY <1>1, <1>2, <1>3, <1>4

\* What is below the root lies deeper, and so is not the root.
LEMMA RealDepth ==
  ASSUME setup \in Setups, NEW n \in Nat, NEW p \in RealDirs[n]
  PROVE  n # 0 => p.dir # Root
<1> DEFINE Deep(k) == \A q \in RealDirs[k] : Depth[q.dir] >= Depth[Root] + k
           S == {k \in Nat : Deep(k)}
<1>1. Depth[Root] \in Nat
  BY WalkAssumption, DepthFacts
<1>2. 0 \in S
  BY <1>1, RealDirsFacts
<1>3. ASSUME NEW k \in Nat, k \in S PROVE k + 1 \in S
  <2> SUFFICES ASSUME NEW a \in RealDirs[k + 1]
               PROVE  Depth[a.dir] >= Depth[Root] + (k + 1)
    OBVIOUS
  <2>1. k + 1 \in Nat /\ k + 1 # 0
    OBVIOUS
  <2>2. PICK q \in RealDirs[k] : \E i \in DOMAIN setup.entries[q.dir] :
          /\ q \in Paths /\ setup.entries[q.dir][i].kind = "dir"
          /\ a = [dir |-> setup.entries[q.dir][i].to, relative |->
                    Append(q.relative, setup.entries[q.dir][i].name)]
    <3>1. ASSUME NEW m \in Nat, m = k + 1, NEW b \in RealDirs[m]
          PROVE  \E q \in RealDirs[k] : \E i \in DOMAIN setup.entries[q.dir] :
                   /\ q \in Paths /\ setup.entries[q.dir][i].kind = "dir"
                   /\ b = [dir |-> setup.entries[q.dir][i].to, relative |->
                             Append(q.relative, setup.entries[q.dir][i].name)]
      BY <3>1, RealDirCases
    <3> QED
      BY <2>1, <3>1
  <2>3. PICK i \in DOMAIN setup.entries[q.dir] :
          /\ setup.entries[q.dir][i].kind = "dir"
          /\ a.dir = setup.entries[q.dir][i].to
    BY <2>2
  <2>4. q.dir \in Dirs
    BY <2>2 DEF Paths
  <2>5. /\ Depth[a.dir] > Depth[q.dir] /\ Depth[q.dir] \in Nat /\ Depth[a.dir] \in Nat
    BY <2>3, <2>4, DepthFacts
  <2>6. Depth[q.dir] >= Depth[Root] + k
    BY <1>3
  <2> QED
    BY <1>1, <2>5, <2>6
<1> HIDE DEF S
<1>4. Nat \subseteq S
  BY <1>2, <1>3, Induction
<1>5. Depth[p.dir] >= Depth[Root] + n
  BY <1>4 DEF S
<1> QED
  BY <1>1, <1>5

Real == UNION {RealDirs[n] : n \in Nat}

\* Such a directory has one path that no symlink is needed for.
LEMMA OnePath ==
  ASSUME setup \in Setups, NEW p \in Real, NEW q \in Real, p.dir = q.dir
  PROVE  p = q
<1> DEFINE Once(n) == \A m \in Nat : \A a \in RealDirs[n], b \in RealDirs[m] :
                        a.dir = b.dir => a = b
           S == {n \in Nat : Once(n)}
<1>1. 0 \in S
  <2> SUFFICES ASSUME NEW m \in Nat, NEW a \in RealDirs[0], NEW b \in RealDirs[m],
                      a.dir = b.dir
               PROVE  a = b
    OBVIOUS
  <2>1. a = [dir |-> Root, relative |-> <<>>]
    BY RealDirsFacts
  <2>2. m = 0
    BY <2>1, RealDepth
  <2> QED
    BY <2>1, <2>2, RealDirsFacts
<1>2. ASSUME NEW n \in Nat, n \in S PROVE n + 1 \in S
  <2> SUFFICES ASSUME NEW m \in Nat, NEW a \in RealDirs[n + 1], NEW b \in RealDirs[m],
                      a.dir = b.dir
               PROVE  a = b
    OBVIOUS
  <2>1. n + 1 \in Nat /\ n + 1 # 0
    OBVIOUS
  <2>2. PICK c \in RealDirs[n] : \E i \in DOMAIN setup.entries[c.dir] :
          /\ c \in Paths /\ setup.entries[c.dir][i].kind = "dir"
          /\ a = [dir |-> setup.entries[c.dir][i].to, relative |->
                    Append(c.relative, setup.entries[c.dir][i].name)]
    BY <2>1, RealDirCases
  <2>3. PICK i \in DOMAIN setup.entries[c.dir] :
          /\ c \in Paths /\ setup.entries[c.dir][i].kind = "dir"
          /\ a = [dir |-> setup.entries[c.dir][i].to, relative |->
                    Append(c.relative, setup.entries[c.dir][i].name)]
    BY <2>2
  <2>4. a.dir # Root
    BY <2>1, RealDepth
  <2>5. m # 0
    <3>1. m = 0 => b.dir = Root
      BY RealDirsFacts
    <3> QED
      BY <2>4, <3>1
  <2>11. m - 1 \in Nat /\ m = (m - 1) + 1
    BY <2>5
  <2>6. PICK d \in RealDirs[m - 1] : \E j \in DOMAIN setup.entries[d.dir] :
          /\ d \in Paths /\ setup.entries[d.dir][j].kind = "dir"
          /\ b = [dir |-> setup.entries[d.dir][j].to, relative |->
                    Append(d.relative, setup.entries[d.dir][j].name)]
    BY <2>5, <2>11, RealDirCases
  <2>7. PICK j \in DOMAIN setup.entries[d.dir] :
          /\ d \in Paths /\ setup.entries[d.dir][j].kind = "dir"
          /\ b = [dir |-> setup.entries[d.dir][j].to, relative |->
                    Append(d.relative, setup.entries[d.dir][j].name)]
    BY <2>6
  <2>8. c.dir \in Dirs /\ d.dir \in Dirs
    BY <2>3, <2>7 DEF Paths
  <2>9. setup.entries[c.dir][i].to = setup.entries[d.dir][j].to
    BY <2>3, <2>7
  <2>10. c.dir = d.dir /\ i = j
    BY <2>3, <2>7, <2>8, <2>9, OneEntry
  <2>12. c = d
    BY <1>2, <2>10, <2>11
  <2> QED
    BY <2>3, <2>7, <2>10, <2>12
<1> HIDE DEF S
<1>3. Nat \subseteq S
  BY <1>1, <1>2, Induction
<1> QED
  BY <1>3 DEF S, Real

\* A directory on a real path: its entries' paths are real too.
LEMMA RealStep ==
  ASSUME setup \in Setups, NEW p \in Real, NEW i \in DOMAIN setup.entries[p.dir],
         setup.entries[p.dir][i].kind = "dir",
         OnRootFilesystem(setup.entries[p.dir][i].to),
         ~IsExcluded(Append(p.relative, setup.entries[p.dir][i].name))
  PROVE  [dir |-> setup.entries[p.dir][i].to,
          relative |-> Append(p.relative, setup.entries[p.dir][i].name)] \in Real
<1>1. PICK n \in Nat : p \in RealDirs[n]
  BY DEF Real
<1>2. setup.entries[p.dir][i] \in EntriesOf(p, "dir")
  BY DEF EntriesOf, Range
<1>3. [dir |-> setup.entries[p.dir][i].to,
       relative |-> Append(p.relative, setup.entries[p.dir][i].name)]
        \in RealDirs[n + 1]
  BY <1>1, <1>2, RealDirsFacts DEF Below
<1> QED
  BY <1>3 DEF Real

-----------------------------------------------------------------------------
(* Completeness.  An entry the walk has passed has been taken up, unless   *)
(* its own path is excluded: the walk may have come to it by another.      *)

ByNames == setup.follow => \A x \in setup.exclude : Len(x) = 1

\* The entry i of the directory d has been passed, or d has been left.
Passed(d, i, frames) ==
  \A k \in 1 .. Len(frames) : frames[k].dir = d => i < frames[k].next

\* An entry is taken up when what it leads to has been visited or queued.
Taken(e, dirs, files) ==
  /\ e.kind = "dir" => e.to \in dirs
  /\ e.kind = "file" => \E q \in files : q.file = e.to

\* The entry i of the directory p is neither excluded, by its own path, nor elsewhere.
Due(p, i) ==
  /\ OnRootFilesystem(setup.entries[p.dir][i].to)
  /\ ~IsExcluded(Append(p.relative, setup.entries[p.dir][i].name))

\* Without symlinks every directory is read under its own path.
OnRealPaths ==
  ~setup.follow => \A k \in 1 .. Len(stack) :
    [dir |-> stack[k].dir, relative |-> stack[k].relative] \in Real

Found ==
  ByNames /\ ~cancelled /\ errors = {} =>
    \A p \in Real : p.dir \in visited =>
      \A i \in DOMAIN setup.entries[p.dir] :
        Due(p, i) /\ Passed(p.dir, i, stack) =>
          Taken(setup.entries[p.dir][i], visited, queued)

FoundInv ==
  /\ OnRealPaths
  /\ Root \in visited
  /\ ended /\ ~cancelled => stack = <<>>
  /\ Found

\* Whichever of its names the walk has come to a directory by, it leaves out the
\* same entries: a pattern of one name does not look at the path.
LEMMA SameExclusion ==
  ASSUME WalkTypes, OnRealPaths, ByNames, AtEntry, NEW p \in Real, p.dir = Top.dir
  PROVE  IsExcluded(Append(p.relative, Entry.name)) <=> IsExcluded(Relative)
<1>1. p \in Paths
  BY RealDirsFacts DEF Real, WalkTypes
<1>2. /\ Top \in Frames /\ Entry.name \in Names /\ Len(stack) \in 1 .. Len(stack)
      /\ Top = stack[Len(stack)]
  BY EntryFacts, TopFacts DEF Names, Entry
<1>3. CASE setup.follow
  <2> DEFINE a == Append(p.relative, Entry.name)
  <2>1. Last(a) = Entry.name /\ Last(Relative) = Entry.name
    BY <1>1, <1>2, AppendProperties, LenProperties DEF Paths, Frames, Relative, Last
  <2>2. \A x \in setup.exclude : Excludes(x, a) <=> Excludes(x, Relative)
    BY <1>3, <2>1 DEF Excludes, ByNames
  <2> QED
    BY <2>2 DEF IsExcluded
<1>4. CASE ~setup.follow
  <2>1. [dir |-> Top.dir, relative |-> Top.relative] \in Real
    BY <1>2, <1>4 DEF OnRealPaths
  <2>2. p = [dir |-> Top.dir, relative |-> Top.relative]
    BY <2>1, OnePath DEF WalkTypes
  <2>3. Append(p.relative, Entry.name) = Relative
    BY <2>2 DEF Relative
  <2> QED
    BY <2>3
<1> QED
  BY <1>3, <1>4

\* No entry counts as passed after a step that did not before, but for the entry
\* the walk has come to, and no directory is newly visited and left.
PassesOne ==
  \A d \in visited' : \A i \in DOMAIN setup.entries[d] :
    Passed(d, i, stack') =>
      /\ d \in visited
      /\ Passed(d, i, stack) \/ (AtEntry /\ d = Top.dir /\ i = Top.next)

\* A step that takes up the entry it passes loses none.
LEMMA FoundKept ==
  ASSUME WalkTypes, OnRealPaths, Found, setup' = setup,
         visited \subseteq visited', queued \subseteq queued',
         ~cancelled' /\ errors' = {} => ~cancelled /\ errors = {},
         PassesOne,
         AtEntry => \/ IsExcluded(Relative) \/ ~OnRootFilesystem(Entry.to)
                    \/ Taken(Entry, visited', queued')
  PROVE  Found'
<1>1. /\ Real' = Real /\ (ByNames' <=> ByNames) /\ \A p, i : Due(p, i)' <=> Due(p, i)
  BY RealDirsStay DEF Real, ByNames, Due, OnRootFilesystem, IsExcluded
<1> SUFFICES ASSUME ByNames, ~cancelled', errors' = {}, NEW p \in Real,
                    p.dir \in visited', NEW i \in DOMAIN setup.entries[p.dir],
                    Due(p, i), Passed(p.dir, i, stack')
             PROVE  Taken(setup.entries[p.dir][i], visited', queued')
  BY <1>1 DEF Found, Passed, Taken
<1>2. /\ p.dir \in visited
      /\ \/ Passed(p.dir, i, stack)
         \/ AtEntry /\ p.dir = Top.dir /\ i = Top.next
  BY DEF PassesOne
<1>3. CASE Passed(p.dir, i, stack)
  <2>1. Taken(setup.entries[p.dir][i], visited, queued)
    BY <1>2, <1>3 DEF Found
  <2> QED
    BY <2>1 DEF Taken
<1>4. CASE AtEntry /\ p.dir = Top.dir /\ i = Top.next
  <2>1. setup.entries[p.dir][i] = Entry
    BY <1>4 DEF Entry
  <2>2. IsExcluded(Append(p.relative, Entry.name)) <=> IsExcluded(Relative)
    BY <1>4, SameExclusion
  <2> QED
    BY <1>4, <2>1, <2>2 DEF Due
<1> QED
  BY <1>2, <1>3, <1>4

\* Passing the entry passes no other.
LEMMA AdvancedPasses ==
  ASSUME WalkTypes, stack # <<>>, NEW d \in Dirs, NEW i \in DOMAIN setup.entries[d],
         Passed(d, i, Advanced), Top.next \in Nat
  PROVE  Passed(d, i, stack) \/ (d = Top.dir /\ i = Top.next)
<1> DEFINE n == Len(stack)
<1>1. /\ Len(Advanced) = n /\ n \in Nat \ {0} /\ Top = stack[n]
      /\ \A k \in 1 .. n - 1 : Advanced[k] = stack[k]
      /\ Advanced[n].dir = Top.dir /\ Advanced[n].next = Top.next + 1
  BY AdvancedFacts, TopFacts
<1>2. i \in Nat
  BY SetupAssumption, LenProperties DEF WalkTypes, SetupType
<1>3. \A k \in 1 .. n : k = n \/ k \in 1 .. n - 1
  BY <1>1
<1>4. ASSUME ~(d = Top.dir /\ i = Top.next), NEW k \in 1 .. n, stack[k].dir = d
      PROVE  i < stack[k].next
  <2>1. CASE k = n
    <3>1. i < Top.next + 1 /\ i # Top.next
      BY <1>1, <1>4, <2>1 DEF Passed
    <3> QED
      BY <1>1, <1>2, <2>1, <3>1
  <2>2. CASE k \in 1 .. n - 1
    BY <1>1, <1>4, <2>2 DEF Passed
  <2> QED
    BY <1>3, <2>1, <2>2
<1> QED
  BY <1>4 DEF Passed

\* The walk begins at the root, which is a path of its own.
LEMMA InitFound == WalkInit => FoundInv
<1> SUFFICES ASSUME WalkInit PROVE FoundInv
  OBVIOUS
<1>1. WalkTypes /\ Len(stack) = 1 /\ stack[1].dir = Root /\ stack[1].relative = <<>>
      /\ stack[1].next = 0
  BY InitWalk DEF WalkInit, WalkInv, Frame
<1>2. [dir |-> Root, relative |-> <<>>] \in Real
  BY <1>1, RealDirsFacts DEF Real, WalkTypes
<1>3. OnRealPaths
  BY <1>1, <1>2 DEF OnRealPaths
<1>4. Found
  <2> SUFFICES ASSUME NEW i \in DOMAIN setup.entries[Root] PROVE ~Passed(Root, i, stack)
    BY DEF Found, WalkInit
  <2>1. i \in Nat
    BY SetupAssumption, WalkAssumption, LenProperties DEF WalkInit, SetupType
  <2>2. 1 \in 1 .. Len(stack) /\ ~(i < stack[1].next)
    BY <1>1, <2>1
  <2> QED
    BY <1>1, <2>2 DEF Passed
<1> QED
  BY <1>3, <1>4 DEF WalkInit, FoundInv

\* An entry is passed.
LEMMA PassFound ==
  ASSUME WalkInv, FoundInv, AtEntry, stack' = Advanced,
         UNCHANGED <<setup, visited, cancelled, ended>>,
         queued \subseteq queued', errors \subseteq errors',
         errors' # {} \/ IsExcluded(Relative) \/ ~OnRootFilesystem(Entry.to)
           \/ Taken(Entry, visited', queued')
  PROVE  FoundInv'
<1>1. WalkTypes /\ stack # <<>> /\ Top.next \in Nat /\ visited \subseteq Dirs /\ ~ended
  BY EntryFacts DEF WalkInv, WalkTypes, Frames, AtEntry
<1>2. Real' = Real
  BY RealDirsStay DEF Real
<1>3. OnRealPaths'
  BY <1>1, <1>2, AdvancedFacts DEF FoundInv, OnRealPaths
<1>4. Found'
  <2>1. CASE errors' = {}
    <3>1. PassesOne
      <4> SUFFICES ASSUME NEW d \in visited, NEW i \in DOMAIN setup.entries[d],
                          Passed(d, i, Advanced)
                   PROVE  Passed(d, i, stack) \/ (d = Top.dir /\ i = Top.next)
        BY DEF PassesOne
      <4> QED
        BY <1>1, AdvancedPasses
    <3> QED
      BY <1>1, <2>1, <3>1, FoundKept DEF FoundInv
  <2>2. CASE errors' # {}
    BY <2>2 DEF Found
  <2> QED
    BY <2>1, <2>2
<1> QED
  BY <1>1, <1>3, <1>4 DEF FoundInv

\* A new directory is entered.
LEMMA EnterFound ==
  ASSUME WalkInv, FoundInv, AtEntry, ~IsExcluded(Relative),
         Entry.kind \in {"dir", "link"}, Entry.to \in Dirs, OnRootFilesystem(Entry.to),
         Entry.to \notin visited, setup.follow \/ Entry.kind = "dir",
         stack' = Append(Advanced, Frame(Entry.to, Relative)),
         visited' = visited \cup {Entry.to},
         UNCHANGED <<setup, queued, errors, opened, cancelled, ended>>
  PROVE  FoundInv'
<1> DEFINE n == Len(stack)
<1>1. /\ WalkTypes /\ stack # <<>> /\ Top \in Frames /\ Top.dir \in Dirs
      /\ Top.next \in Nat /\ visited \subseteq Dirs /\ ~ended
      /\ Top.next \in DOMAIN setup.entries[Top.dir] /\ Relative \in Seq(Names)
  BY EntryFacts DEF WalkInv, WalkTypes, Frames, AtEntry
<1>2. /\ Advanced \in Seq(Frames) /\ Len(Advanced) = n /\ n \in Nat \ {0} /\ n \in 1 .. n
      /\ Top = stack[n]
      /\ \A k \in 1 .. n : /\ Advanced[k].dir = stack[k].dir
                           /\ Advanced[k].relative = stack[k].relative
  BY <1>1, AdvancedFacts, TopFacts
<1>3. /\ Len(stack') = n + 1 /\ \A k \in 1 .. n : stack'[k] = Advanced[k]
      /\ stack'[n + 1].dir = Entry.to /\ stack'[n + 1].relative = Relative
      /\ stack'[n + 1].next = 0
  <2>1. Frame(Entry.to, Relative) \in Frames
    BY <1>1 DEF Frame, Frames
  <2> QED
    BY <1>2, <2>1, AppendProperties DEF Frame
<1>4. /\ \A k \in 1 .. n + 1 : k \in 1 .. n \/ k = n + 1
      /\ \A k \in 1 .. n : k \in 1 .. n + 1
  BY <1>2
<1>5. Real' = Real
  BY RealDirsStay DEF Real
<1> HIDE DEF n
<1>6. OnRealPaths'
  <2> SUFFICES ASSUME ~setup.follow
               PROVE  [dir |-> Entry.to, relative |-> Relative] \in Real
    BY <1>2, <1>3, <1>4, <1>5 DEF FoundInv, OnRealPaths, n
  <2> DEFINE p == [dir |-> Top.dir, relative |-> Top.relative]
  <2>1. p \in Real
    BY <1>2 DEF FoundInv, OnRealPaths, n
  <2>2. p.dir = Top.dir /\ p.relative = Top.relative
    OBVIOUS
  <2>3. Top.next \in DOMAIN setup.entries[p.dir] /\ setup.entries[p.dir][Top.next] = Entry
    BY <1>1, <2>2 DEF Entry
  <2>4. Append(p.relative, Entry.name) = Relative
    BY <2>2 DEF Relative
  <2> HIDE DEF p
  <2> QED
    BY <1>1, <2>1, <2>3, <2>4, RealStep DEF WalkTypes
<1>7. PassesOne
  <2> SUFFICES ASSUME NEW d \in visited', NEW i \in DOMAIN setup.entries[d],
                      Passed(d, i, stack')
               PROVE  d \in visited
                      /\ (Passed(d, i, stack) \/ (d = Top.dir /\ i = Top.next))
    BY DEF PassesOne
  <2>1. i \in Nat /\ d \in Dirs
    <3>1. d \in Dirs
      BY <1>1
    <3> QED
      BY <1>1, <3>1, SetupAssumption, LenProperties DEF WalkTypes, SetupType
  <2>2. d # Entry.to
    <3>1. n + 1 \in 1 .. n + 1 /\ ~(i < stack'[n + 1].next)
      BY <1>2, <1>3, <2>1
    <3> QED
      BY <1>3, <3>1 DEF Passed
  <2>3. Passed(d, i, Advanced)
    BY <1>2, <1>3, <1>4 DEF Passed
  <2> QED
    BY <1>1, <2>1, <2>2, <2>3, AdvancedPasses
<1>8. Taken(Entry, visited', queued')
  BY DEF Taken
<1>9. Found'
  BY <1>1, <1>7, <1>8, FoundKept DEF FoundInv
<1> QED
  BY <1>1, <1>6, <1>9 DEF FoundInv

\* A directory is left that has no entry to come.
LEMMA EndFound == WalkInv /\ FoundInv /\ EndDirectory => FoundInv'
<1> SUFFICES ASSUME WalkInv, FoundInv, EndDirectory PROVE FoundInv'
  OBVIOUS
<1>1. /\ WalkTypes /\ stack # <<>> /\ ~ended /\ visited \subseteq Dirs
      /\ Top.next > Len(setup.entries[Top.dir])
      /\ stack' = SubSeq(stack, 1, Len(stack) - 1)
      /\ UNCHANGED <<setup, visited, queued, errors, opened, cancelled, ended>>
  BY DEF EndDirectory, WalkInv, WalkTypes
<1>2. /\ Len(stack) \in Nat \ {0} /\ Top = stack[Len(stack)] /\ Top \in Frames
      /\ Len(stack') = Len(stack) - 1
      /\ \A k \in 1 .. Len(stack) - 1 : stack'[k] = stack[k]
  BY <1>1, TopFacts, PopFacts
<1>3. \A k \in 1 .. Len(stack) - 1 : k \in 1 .. Len(stack)
  BY <1>2
<1>4. OnRealPaths'
  <2>1. Real' = Real
    BY <1>1, RealDirsStay DEF Real
  <2> QED
    BY <1>1, <1>2, <1>3, <2>1 DEF FoundInv, OnRealPaths
<1>5. PassesOne
  <2> SUFFICES ASSUME NEW d \in visited, NEW i \in DOMAIN setup.entries[d],
                      Passed(d, i, stack'), NEW k \in 1 .. Len(stack), stack[k].dir = d
               PROVE  i < stack[k].next
    BY <1>1 DEF PassesOne, Passed
  <2>1. CASE k = Len(stack)
    <3>1. setup.entries[d] \in Seq(Range(setup.entries[d]))
      BY <1>1, SetupAssumption DEF WalkTypes, SetupType
    <3>2. i \in 1 .. Len(setup.entries[d]) /\ Len(setup.entries[d]) \in Nat
      BY <3>1, LenProperties
    <3>3. Top.next \in Nat /\ Top.dir = d
      BY <1>2, <2>1 DEF Frames
    <3> QED
      BY <1>1, <1>2, <2>1, <3>2, <3>3
  <2>2. CASE k \in 1 .. Len(stack) - 1
    BY <1>2, <2>2 DEF Passed
  <2> QED
    BY <1>2, <2>1, <2>2
<1>6. ~AtEntry
  <2>1. setup.entries[Top.dir] \in Seq(Range(setup.entries[Top.dir]))
    BY <1>1, <1>2, SetupAssumption DEF WalkTypes, SetupType, Frames
  <2>2. DOMAIN setup.entries[Top.dir] = 1 .. Len(setup.entries[Top.dir])
        /\ Len(setup.entries[Top.dir]) \in Nat
    BY <2>1, LenProperties
  <2>3. Top.next \in Nat
    BY <1>2 DEF Frames
  <2> QED
    BY <1>1, <2>2, <2>3 DEF AtEntry
<1>7. Found'
  BY <1>1, <1>5, <1>6, FoundKept DEF FoundInv
<1> QED
  BY <1>1, <1>4, <1>7 DEF FoundInv

\* A directory is read: no entry is passed yet.
LEMMA ReadFound == WalkInv /\ FoundInv /\ ReadDirectory => FoundInv'
<1> SUFFICES ASSUME WalkInv, FoundInv, ReadDirectory PROVE FoundInv'
  OBVIOUS
<1>1. /\ WalkTypes /\ stack # <<>> /\ ~ended /\ visited \subseteq Dirs
      /\ Top.next = 0 /\ stack' = Advanced
      /\ UNCHANGED <<setup, visited, queued, errors, cancelled, ended>>
  BY DEF ReadDirectory, WalkInv, WalkTypes
<1>2. \A d \in Dirs : \A i \in DOMAIN setup.entries[d] : i \in Nat \ {0}
  BY <1>1, SetupAssumption, LenProperties DEF WalkTypes, SetupType
<1>3. Top.dir \in Dirs
  BY <1>1, TopFacts DEF Frames
<1>4. OnRealPaths'
  <2>1. Real' = Real
    BY <1>1, RealDirsStay DEF Real
  <2> QED
    BY <1>1, <2>1, AdvancedFacts DEF FoundInv, OnRealPaths
<1>5. PassesOne
  <2> SUFFICES ASSUME NEW d \in visited, NEW i \in DOMAIN setup.entries[d],
                      Passed(d, i, Advanced)
               PROVE  Passed(d, i, stack)
    BY <1>1 DEF PassesOne
  <2> QED
    BY <1>1, <1>2, AdvancedPasses
<1>6. ~AtEntry
  BY <1>1, <1>2, <1>3 DEF AtEntry
<1>7. Found'
  BY <1>1, <1>5, <1>6, FoundKept DEF FoundInv
<1> QED
  BY <1>1, <1>4, <1>7 DEF FoundInv

\* Every step keeps the invariant.
LEMMA FoundStepInv == WalkInv /\ FoundInv /\ [WalkNext]_walkVars => FoundInv'
<1> SUFFICES ASSUME WalkInv, FoundInv, [WalkNext]_walkVars PROVE FoundInv'
  OBVIOUS
<1>1. ASSUME UNCHANGED <<setup, stack, visited, queued, errors>>,
             ~cancelled' => ~cancelled, ended' /\ ~cancelled' => stack = <<>>
      PROVE  FoundInv'
  <2>1. Real' = Real
    BY <1>1, RealDirsStay DEF Real
  <2>2. OnRealPaths' /\ (Root \in visited)' /\ (ended /\ ~cancelled => stack = <<>>)'
    BY <1>1, <2>1 DEF FoundInv, OnRealPaths
  <2>3. Found'
    BY <1>1, <2>1 DEF FoundInv, Found, ByNames, Due, OnRootFilesystem, IsExcluded,
           Passed, Taken
  <2> QED
    BY <2>2, <2>3 DEF FoundInv
<1>2. CASE UNCHANGED walkVars
  BY <1>1, <1>2 DEF walkVars, FoundInv
<1>3. CASE EndWalk
  BY <1>1, <1>3 DEF EndWalk
<1>4. CASE Cancel
  BY <1>1, <1>4 DEF Cancel
<1>5. CASE FailDirectory
  <2>1. /\ WalkTypes /\ stack # <<>> /\ ~ended /\ errors' # {}
        /\ stack' = SubSeq(stack, 1, Len(stack) - 1)
        /\ UNCHANGED <<setup, visited, ended>>
    BY <1>5 DEF FailDirectory, WalkInv
  <2>2. /\ Len(stack) \in Nat \ {0} /\ Len(stack') = Len(stack) - 1
        /\ \A k \in 1 .. Len(stack) - 1 : stack'[k] = stack[k]
    BY <2>1, TopFacts, PopFacts
  <2>3. \A k \in 1 .. Len(stack) - 1 : k \in 1 .. Len(stack)
    BY <2>2
  <2>4. Real' = Real
    BY <2>1, RealDirsStay DEF Real
  <2>5. OnRealPaths'
    BY <2>1, <2>2, <2>3, <2>4 DEF FoundInv, OnRealPaths
  <2> QED
    BY <2>1, <2>5 DEF FoundInv, Found
<1>6. CASE SkipEntry
  <2>1. EntryType(Entry)
    BY <1>6, EntryFacts DEF SkipEntry, WalkInv
  <2>2. \/ IsExcluded(Relative) \/ ~OnRootFilesystem(Entry.to)
        \/ Entry.kind \notin {"dir", "file"}
    BY <1>6 DEF SkipEntry
  <2> QED
    BY <1>6, <2>2, PassFound DEF SkipEntry, Taken
<1>7. CASE FailEntry
  <2>1. errors' # {} /\ errors \subseteq errors'
    BY <1>7 DEF FailEntry
  <2> QED
    BY <1>7, <2>1, PassFound DEF FailEntry
<1>8. CASE VisitFile \/ VisitFileLink
  <2> DEFINE new == [file |-> Entry.to, relative |-> Relative]
  <2>1. new.file = Entry.to
    OBVIOUS
  <2> HIDE DEF new
  <2>2. new \in queued' /\ Entry.kind \in {"file", "link"}
    BY <1>8 DEF VisitFile, VisitFileLink, new
  <2>3. Taken(Entry, visited', queued')
    BY <2>1, <2>2 DEF Taken
  <2> QED
    BY <1>8, <2>3, PassFound DEF VisitFile, VisitFileLink
<1>9. CASE VisitDirectory
  <2>1. Entry.to \in Dirs
    BY <1>9, EntryFacts DEF VisitDirectory, EntryType, WalkInv
  <2>2. CASE setup.follow /\ Entry.to \in visited
    <3>1. Taken(Entry, visited', queued')
      BY <1>9, <2>2 DEF VisitDirectory, Taken
    <3> QED
      BY <1>9, <2>2, <3>1, PassFound DEF VisitDirectory
  <2>3. CASE ~(setup.follow /\ Entry.to \in visited)
    <3>1. AtEntry /\ Entry.kind = "dir"
      BY <1>9 DEF VisitDirectory
    <3>2. Entry.to \notin visited
      BY <2>1, <2>3, <3>1, NewDirectory
    <3> QED
      BY <1>9, <2>1, <2>3, <3>2, EnterFound DEF VisitDirectory
  <2> QED
    BY <2>2, <2>3
<1>10. CASE VisitDirLink
  <2>1. CASE Entry.to \in visited
    <3>1. Taken(Entry, visited', queued')
      BY <1>10 DEF VisitDirLink, Taken
    <3> QED
      BY <1>10, <2>1, <3>1, PassFound DEF VisitDirLink
  <2>2. CASE Entry.to \notin visited
    BY <1>10, <2>2, EnterFound DEF VisitDirLink
  <2> QED
    BY <2>1, <2>2
<1> QED
  BY <1>2, <1>3, <1>4, <1>5, <1>6, <1>7, <1>8, <1>9, <1>10, ReadFound, EndFound
     DEF WalkNext, WalkStep

\* With nothing under way, everything a real path leads to has been taken up.
LEMMA FoundEverything ==
  WalkInv /\ FoundInv => CompleteUnlessPathExcluded
<1> SUFFICES ASSUME WalkInv, FoundInv, ByNames, ended, ~cancelled, errors = {}
             PROVE  AccessibleFiles \subseteq {q.file : q \in queued}
  BY DEF CompleteUnlessPathExcluded, FoundAll, ByNames
<1>1. setup \in Setups /\ stack = <<>> /\ Len(stack) = 0
  BY EmptySeq DEF WalkInv, WalkTypes, FoundInv
<1>2. \A p \in Real : p.dir \in visited => \A i \in DOMAIN setup.entries[p.dir] :
        Due(p, i) => Taken(setup.entries[p.dir][i], visited, queued)
  BY <1>1 DEF FoundInv, Found, Passed
<1>3. ASSUME NEW p \in Real, p.dir \in visited, NEW kind, NEW e \in EntriesOf(p, kind)
      PROVE  e.kind = kind /\ Taken(e, visited, queued)
  <2>1. p \in Paths
    BY <1>1, RealDirsFacts DEF Real
  <2>2. PICK i \in DOMAIN setup.entries[p.dir] : setup.entries[p.dir][i] = e
    BY <1>1, <2>1, EntriesOfFacts
  <2>3. Due(p, i) /\ e.kind = kind
    BY <2>2 DEF Due, EntriesOf
  <2> QED
    BY <1>2, <1>3, <2>2, <2>3
<1>4. \A p \in Real : p.dir \in visited
  <2> DEFINE S == {n \in Nat : \A p \in RealDirs[n] : p.dir \in visited}
  <2>1. 0 \in S
    BY <1>1, RealDirsFacts DEF FoundInv
  <2>2. ASSUME NEW n \in Nat, n \in S PROVE n + 1 \in S
    <3>1. ASSUME NEW p \in RealDirs[n], NEW e \in EntriesOf(p, "dir")
          PROVE  e.to \in visited
      <4>1. p \in Real /\ p.dir \in visited
        BY <2>2 DEF Real
      <4> QED
        BY <1>3, <4>1 DEF Taken
    <3>2. \A q \in Below(RealDirs[n]) : q.dir \in visited
      BY <3>1 DEF Below
    <3> QED
      BY <1>1, <3>2, RealDirsFacts
  <2> HIDE DEF S
  <2>3. Nat \subseteq S
    BY <2>1, <2>2, Induction
  <2> QED
    BY <2>3 DEF S, Real
<1>5. \A n \in 0 .. Cardinality(Dirs) - 1 : n \in Nat
  BY WalkAssumption, FS_CardinalityType
<1>6. ASSUME NEW n \in 0 .. Cardinality(Dirs) - 1, NEW p \in RealDirs[n],
             NEW e \in EntriesOf(p, "file")
      PROVE  e.to \in {q.file : q \in queued}
  <2>1. p \in Real
    BY <1>5 DEF Real
  <2>2. Taken(e, visited, queued) /\ e.kind = "file"
    BY <1>3, <1>4, <2>1
  <2> QED
    BY <2>2 DEF Taken
<1> QED
  BY <1>6 DEF AccessibleFiles

-----------------------------------------------------------------------------
(* The theorems.                                                           *)

\* The invariant holds in every state of the walk.
THEOREM WalkInvariance == WalkSpec => []WalkInv
BY InitWalk, WalkStepInv, PTL DEF WalkSpec

\* Every variable keeps its type, and every frame its place among its entries.
THEOREM WalkTypeCorrect == WalkSpec => []WalkTypeOK
<1>1. WalkInv => WalkTypeOK
  <2> SUFFICES ASSUME WalkInv PROVE WalkTypeOK
    OBVIOUS
  <2>1. WalkTypes /\ DOMAIN stack = 1 .. Len(stack)
    BY LenProperties DEF WalkInv, WalkTypes
  <2>2. ASSUME NEW i \in 1 .. Len(stack)
        PROVE  /\ stack[i].dir \in visited
               /\ stack[i].next \in 0 .. Len(setup.entries[stack[i].dir]) + 1
               /\ i < Len(stack) => stack[i].next > 1
    <3>1. stack[i].next \in Nat /\ stack[i].dir \in Dirs
      BY <2>1, FrameFacts
    <3>2. setup.entries[stack[i].dir] \in Seq(Range(setup.entries[stack[i].dir]))
      BY <2>1, <3>1, SetupAssumption DEF WalkTypes, SetupType
    <3>3. Len(setup.entries[stack[i].dir]) \in Nat
      BY <3>2, LenProperties
    <3> QED
      BY <3>1, <3>3 DEF WalkInv, FramesUnderWay, ReadOnce
  <2>3. \A q \in queued : q.file \in Files
    BY <2>1 DEF WalkTypes
  <2> QED
    BY <2>1, <2>2, <2>3 DEF WalkTypes, WalkTypeOK
<1> QED
  BY <1>1, WalkInvariance, PTL

\* discoveryWalker reads no directory twice, whatever symlinks lead to it, and
\* needs its visited map only when it follows them.
THEOREM DirectoriesOnce == WalkSpec => []EachDirectoryOnce
<1>1. WalkInv => EachDirectoryOnce
  <2> SUFFICES ASSUME WalkInv PROVE EachDirectoryOnce
    OBVIOUS
  <2>1. DOMAIN opened = 1 .. Len(opened)
    BY LenProperties DEF WalkInv, WalkTypes
  <2> QED
    BY <2>1 DEF WalkInv, ReadOnce, EachDirectoryOnce, IsInjective
<1> QED
  BY <1>1, WalkInvariance, PTL

\* Nothing is queued by a path of which a prefix is excluded: pruning a directory
\* is enough, and no symlink's path slips through it.
THEOREM ExclusionHolds == WalkSpec => []ExclusionKept
<1>1. WalkInv => ExclusionKept
  BY DEF WalkInv, Pruned, Clean, ExclusionKept
<1> QED
  BY <1>1, WalkInvariance, PTL

\* With -one-file-system the walk stays on the root's, through entries and symlinks.
THEOREM FilesystemHolds == WalkSpec => []StaysOnRootFilesystem
<1>1. WalkInv => StaysOnRootFilesystem
  <2> SUFFICES ASSUME WalkInv, setup.oneFileSystem
               PROVE  /\ Range(opened) \cap setup.elsewhere = {}
                      /\ \A q \in queued : q.file \notin setup.elsewhere
    BY DEF StaysOnRootFilesystem
  <2>1. DOMAIN opened = 1 .. Len(opened)
    BY LenProperties DEF WalkInv, WalkTypes
  <2> QED
    BY <2>1 DEF WalkInv, Stays, Range
<1> QED
  BY <1>1, WalkInvariance, PTL

\* When the walk has ended without an error, every file that an entry of a real
\* path leads to is queued, at any depth and whichever name its directory was
\* visited under; with -follow-symlinks as long as no pattern names a whole path.
THEOREM WalkComplete == WalkSpec => []CompleteUnlessPathExcluded
BY WalkInvariance, InitFound, FoundStepInv, FoundEverything, PTL DEF WalkSpec
=============================================================================
