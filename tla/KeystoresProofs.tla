--------------------------- MODULE KeystoresProofs ---------------------------
(***************************************************************************)
(* Both keystore parsers for files of any size, with any claims, limits    *)
(* and width of int.  Each parser has an inductive invariant of its own;   *)
(* the dispatch of Keystores keeps them both, since a step of one leaves   *)
(* the variables of the other alone.                                       *)
(***************************************************************************)
EXTENDS Keystores, SequenceTheorems, FiniteSetTheorems, TLAPS

-----------------------------------------------------------------------------
(* The Java keystore.                                                      *)

\* The loops' counters agree: entries begun with the entry index, certificates
\* claimed by finished entries with those read, and those returned with those
\* read while no error has been met.
LoopsAgree ==
  /\ jksPlace \in {"entry", "key", "certificate"} => version \in {1, 2}
  /\ jksPlace = "header" =>
       /\ version = 0 /\ offset = 0 /\ entry = 0 /\ privateKeyEntries = 0
       /\ trustedEntries = 0 /\ jksFound = 0 /\ claimed = 0 /\ examined = 0
  /\ jksPlace = "entry" =>
       /\ entry <= entryCount /\ claimed = examined
       /\ privateKeyEntries + trustedEntries = entry
  /\ jksPlace \in {"key", "certificate"} =>
       /\ entry < entryCount
       /\ privateKeyEntries + trustedEntries = entry + 1
  /\ jksPlace = "key" => claimed = examined
  /\ jksPlace = "certificate" =>
       /\ chainIndex <= chainLength
       /\ claimed - chainLength = examined - chainIndex
  /\ ~jksFailed => jksFound = examined

JksInv ==
  /\ JksTypeOK /\ WorkPaidFor /\ LoopsAgree
  /\ JksSilentMeansComplete /\ JksMarkDeserved

\* A length that passes the comparison with what remains survives the conversion
\* to int, however wide the int.
LEMMA FittingLengths ==
  ASSUME JksInv, NEW length \in Nat, NEW skipped \in Nat, Fits(length, skipped)
  PROVE  ToInt(length) = length /\ skipped + length <= Remaining
BY JksAssumption, WidthAssumption
  DEF JksInv, JksTypeOK, WorkPaidFor, Fits,
      ToInt, Remaining

\* The lengths a file may claim, and its size, are natural numbers.
LEMMA LengthsAreNaturals ==
  /\ \A n \in Lengths : n \in Nat
  /\ \A n \in ShortLengths : n \in Nat
  /\ \A n \in Sizes : n \in Nat
BY JksAssumption, WidthAssumption

\* The invariant holds before anything is read.
LEMMA JksInitInv == JksInit => JksInv
<1> SUFFICES ASSUME JksInit PROVE JksInv
  OBVIOUS
<1>1. size \in Nat
  BY LengthsAreNaturals DEF JksInit
<1>2. JksTypeOK
  <2>1. jksFailed \in BOOLEAN /\ jksTruststore \in BOOLEAN
    BY Zenon DEF JksInit
  <2> QED
    BY <2>1 DEF JksInit, JksTypeOK
<1>3. WorkPaidFor /\ LoopsAgree
  BY <1>1 DEF JksInit, WorkPaidFor, LoopsAgree
<1>4. JksSilentMeansComplete /\ JksMarkDeserved
  BY DEF JksInit, JksSilentMeansComplete, JksMarkDeserved
<1> QED
  BY <1>2, <1>3, <1>4 DEF JksInv

\* An early return keeps everything but claims nothing.
LEMMA GiveUpInv ==
  ASSUME JksInv, jksPlace # "done", GiveUp
  PROVE  JksInv'
BY DEF GiveUp, JksInv, JksTypeOK, WorkPaidFor, LoopsAgree,
       JksSilentMeansComplete, JksMarkDeserved

\* Reading the header, a new entry count and no entry yet.
LEMMA ReadHeaderInv ==
  ASSUME JksInv, ReadHeader
  PROVE  JksInv'
<1>1. CASE GiveUp
  BY <1>1, GiveUpInv DEF ReadHeader
<1>2. ASSUME NEW v \in {1, 2}, NEW n \in Lengths,
             version' = v, offset' = 12, entryCount' = n,
             jksPlace' = IF n = 0 THEN "done" ELSE "entry",
             jksFailed' = (n = 0),
             UNCHANGED <<size, entry, chainLength, chainIndex, privateKeyEntries,
                         trustedEntries, jksFound, jksTruststore, claimed,
                         examined>>
      PROVE  JksInv'
  <2>1. n \in Nat /\ size \in Nat /\ 12 <= size
    BY LengthsAreNaturals, JksAssumption DEF JksInv, JksTypeOK
  <2>2. /\ entry = 0 /\ privateKeyEntries = 0 /\ trustedEntries = 0
        /\ jksFound = 0 /\ claimed = 0 /\ examined = 0 /\ ~jksTruststore
    BY DEF ReadHeader, JksInv, LoopsAgree, JksMarkDeserved
  <2>3. JksTypeOK'
    BY <1>2, <2>1 DEF JksInv, JksTypeOK
  <2>4. WorkPaidFor' /\ LoopsAgree'
    BY <1>2, <2>1, <2>2 DEF WorkPaidFor, LoopsAgree
  <2>5. JksSilentMeansComplete' /\ JksMarkDeserved'
    BY <1>2, <2>1, <2>2 DEF JksSilentMeansComplete, JksMarkDeserved
  <2> QED
    BY <2>3, <2>4, <2>5 DEF JksInv
<1> QED
  BY <1>1, <1>2 DEF ReadHeader

\* Outside the end an entry's step decides nothing about the outcome.
LEMMA UnderWay ==
  ASSUME JksInv, jksPlace # "done", jksPlace' # "done", jksTruststore' = jksTruststore
  PROVE  JksSilentMeansComplete' /\ JksMarkDeserved'
BY DEF JksInv, JksSilentMeansComplete, JksMarkDeserved

\* A new entry has a tag, an alias and, when it is trusted, one claimed certificate.
LEMMA BeginEntryInv ==
  ASSUME JksInv, NEW tag, BeginEntry(tag)
  PROVE  JksInv'
<1>1. CASE GiveUp
  BY <1>1, GiveUpInv DEF BeginEntry
<1>2. ASSUME NEW alias \in ShortLengths, NEW decoded \in BOOLEAN,
             14 + alias <= Remaining,
             offset' = offset + 14 + alias,
             jksFailed' = (jksFailed \/ ~decoded),
             \/ /\ privateKeyEntries' = privateKeyEntries + 1
                /\ jksPlace' = "key"
                /\ UNCHANGED <<trustedEntries, chainLength, chainIndex, claimed>>
             \/ /\ trustedEntries' = trustedEntries + 1
                /\ chainLength' = 1 /\ chainIndex' = 0
                /\ claimed' = claimed + 1
                /\ jksPlace' = "certificate"
                /\ UNCHANGED privateKeyEntries,
             UNCHANGED <<size, version, entryCount, entry, jksFound,
                         jksTruststore, examined>>
      PROVE  JksInv'
  <2>1. alias \in Nat /\ size \in Nat
    BY LengthsAreNaturals DEF JksInv, JksTypeOK
  <2>2. /\ jksPlace = "entry" /\ entry < entryCount /\ claimed = examined
        /\ privateKeyEntries + trustedEntries = entry /\ version \in {1, 2}
        /\ ~jksFailed => jksFound = examined
    BY DEF BeginEntry, JksInv, LoopsAgree
  <2>3. JksTypeOK'
    <3>1. jksFailed' \in BOOLEAN
      BY <1>2, Zenon DEF JksInv, JksTypeOK
    <3> QED
      BY <1>2, <2>1, <3>1 DEF JksInv, JksTypeOK
  <2>4. WorkPaidFor'
    BY <1>2, <2>1, <2>2 DEF JksInv, JksTypeOK, WorkPaidFor, Remaining
  <2>5. LoopsAgree'
    BY <1>2, <2>1, <2>2 DEF JksInv, JksTypeOK, LoopsAgree
  <2>6. JksSilentMeansComplete' /\ JksMarkDeserved'
    BY <1>2, <2>2, UnderWay
  <2> QED
    BY <2>3, <2>4, <2>5, <2>6 DEF JksInv
<1>3. ASSUME NEW alias \in ShortLengths, ~(14 + alias > Remaining)
      PROVE  14 + alias <= Remaining
  BY <1>3, LengthsAreNaturals DEF Remaining, JksInv, JksTypeOK
<1> QED
  BY <1>1, <1>2, <1>3 DEF BeginEntry

\* A key is skipped within the file, and its chain length is claimed.
LEMMA ReadKeyInv ==
  ASSUME JksInv, ReadKey
  PROVE  JksInv'
<1>1. CASE GiveUp
  BY <1>1, GiveUpInv DEF ReadKey
<1>2. ASSUME NEW key \in Lengths, NEW chain \in Lengths,
             Fits(key, 4), ~(4 > Remaining - 4 - ToInt(key)),
             offset' = offset + 8 + ToInt(key),
             chainLength' = chain, chainIndex' = 0,
             claimed' = claimed + chain,
             jksPlace' = "certificate",
             UNCHANGED <<size, version, entryCount, entry, privateKeyEntries,
                         trustedEntries, jksFound, jksFailed, jksTruststore,
                         examined>>
      PROVE  JksInv'
  <2>1. key \in Nat /\ chain \in Nat /\ size \in Nat
    BY LengthsAreNaturals DEF JksInv, JksTypeOK
  <2>2. /\ jksPlace = "key" /\ entry < entryCount /\ claimed = examined
        /\ privateKeyEntries + trustedEntries = entry + 1 /\ version \in {1, 2}
        /\ ~jksFailed => jksFound = examined
    BY DEF ReadKey, JksInv, LoopsAgree
  <2>3. ToInt(key) = key
    BY <1>2, <2>1, FittingLengths
  <2>4. JksTypeOK'
    BY <1>2, <2>1, <2>3 DEF JksInv, JksTypeOK
  <2>5. WorkPaidFor'
    BY <1>2, <2>1, <2>2, <2>3 DEF JksInv, JksTypeOK, WorkPaidFor, Remaining
  <2>6. LoopsAgree'
    BY <1>2, <2>1, <2>2 DEF JksInv, JksTypeOK, LoopsAgree
  <2>7. JksSilentMeansComplete' /\ JksMarkDeserved'
    BY <1>2, <2>2, UnderWay
  <2> QED
    BY <2>4, <2>5, <2>6, <2>7 DEF JksInv
<1> QED
  BY <1>1, <1>2 DEF ReadKey

\* A certificate is paid for with at least four bytes, readable or not.
LEMMA ReadCertificateInv ==
  ASSUME JksInv, ReadCertificate
  PROVE  JksInv'
<1> DEFINE Before(type) == IF version = 2 THEN 6 + type ELSE 4
<1>1. CASE GiveUp
  BY <1>1, GiveUpInv DEF ReadCertificate
<1>2. ASSUME NEW type \in ShortLengths, NEW der \in Lengths, NEW parsed \in BOOLEAN,
             Fits(der, Before(type)),
             offset' = offset + Before(type) + ToInt(der),
             jksFound' = jksFound + (IF parsed THEN 1 ELSE 0),
             jksFailed' = (jksFailed \/ ~parsed),
             chainIndex' = chainIndex + 1,
             examined' = examined + 1,
             UNCHANGED <<size, version, jksPlace, entryCount, entry,
                         chainLength, privateKeyEntries, trustedEntries,
                         jksTruststore, claimed>>
      PROVE  JksInv'
  <2>1. type \in Nat /\ der \in Nat /\ size \in Nat
    BY LengthsAreNaturals DEF JksInv, JksTypeOK
  <2>2. Before(type) \in Nat /\ Before(type) >= 4
    BY <2>1
  <2>3. /\ jksPlace = "certificate" /\ chainIndex < chainLength /\ entry < entryCount
        /\ privateKeyEntries + trustedEntries = entry + 1 /\ version \in {1, 2}
        /\ claimed - chainLength = examined - chainIndex
        /\ ~jksFailed => jksFound = examined
    BY DEF ReadCertificate, JksInv, LoopsAgree
  <2> HIDE DEF Before
  <2>4. ToInt(der) = der /\ Before(type) + der <= Remaining
    BY <1>2, <2>1, <2>2, FittingLengths
  <2>5. JksTypeOK'
    <3>1. jksFailed' \in BOOLEAN
      BY <1>2, Zenon DEF JksInv, JksTypeOK
    <3>2. jksFound' \in Nat
      BY <1>2 DEF JksInv, JksTypeOK
    <3>3. offset' \in Int
      BY <1>2, <2>1, <2>2, <2>4 DEF JksInv, JksTypeOK
    <3> QED
      BY <1>2, <3>1, <3>2, <3>3 DEF JksInv, JksTypeOK
  <2>6. WorkPaidFor'
    BY <1>2, <2>1, <2>2, <2>3, <2>4 DEF JksInv, JksTypeOK, WorkPaidFor, Remaining
  <2>7. LoopsAgree'
    <3>1. ~jksFailed' => jksFound' = examined'
      BY <1>2, <2>3 DEF JksInv, JksTypeOK
    <3> QED
      BY <1>2, <2>3, <3>1 DEF JksInv, JksTypeOK, LoopsAgree
  <2>8. JksSilentMeansComplete' /\ JksMarkDeserved'
    BY <1>2, <2>3, UnderWay
  <2> QED
    BY <2>5, <2>6, <2>7, <2>8 DEF JksInv
<1> QED
  BY <1>1, <1>2 DEF ReadCertificate

\* An entry ends with every certificate it claimed read.
LEMMA EndEntryInv ==
  ASSUME JksInv, EndEntry
  PROVE  JksInv'
<1>1. /\ jksPlace = "certificate" /\ entry < entryCount /\ claimed = examined
      /\ privateKeyEntries + trustedEntries = entry + 1 /\ version \in {1, 2}
  BY DEF EndEntry, JksInv, JksTypeOK, LoopsAgree
<1>2. JksTypeOK'
  BY DEF EndEntry, JksInv, JksTypeOK
<1>3. WorkPaidFor' /\ LoopsAgree'
  BY <1>1 DEF EndEntry, JksInv, JksTypeOK, WorkPaidFor, LoopsAgree
<1>4. JksSilentMeansComplete' /\ JksMarkDeserved'
  BY <1>1, UnderWay DEF EndEntry
<1> QED
  BY <1>2, <1>3, <1>4 DEF JksInv

\* The end decides on the mark when every entry was read.
LEMMA FinishEntriesInv ==
  ASSUME JksInv, FinishEntries
  PROVE  JksInv'
<1>1. CASE GiveUp
  BY <1>1, GiveUpInv DEF FinishEntries
<1>2. CASE ~GiveUp
  <2>1. /\ Remaining = 0 /\ jksPlace' = "done"
        /\ jksFailed' = (jksFailed \/ jksFound = 0)
        /\ jksTruststore' = (privateKeyEntries = 0 /\ trustedEntries > 0)
        /\ UNCHANGED <<size, version, offset, entryCount, entry, chainLength,
                       chainIndex, privateKeyEntries, trustedEntries, jksFound,
                       claimed, examined>>
    BY <1>2 DEF FinishEntries
  <2>2. /\ jksPlace = "entry" /\ entry = entryCount /\ claimed = examined
        /\ privateKeyEntries + trustedEntries = entry
        /\ ~jksFailed => jksFound = examined
    BY DEF FinishEntries, JksInv, LoopsAgree
  <2>3. size \in Nat /\ offset = size
    BY <2>1, LengthsAreNaturals DEF JksInv, JksTypeOK, Remaining
  <2>4. JksTypeOK'
    <3>1. jksFailed' \in BOOLEAN /\ jksTruststore' \in BOOLEAN
      BY <2>1, Zenon
    <3> QED
      BY <2>1, <3>1 DEF JksInv, JksTypeOK
  <2>5. WorkPaidFor' /\ LoopsAgree'
    <3>1. ~jksFailed' => jksFound' = examined'
      BY <2>1, <2>2
    <3>2. WorkPaidFor'
      BY <2>1 DEF JksInv, WorkPaidFor
    <3>3. LoopsAgree'
      BY <2>1, <3>1 DEF LoopsAgree
    <3> QED
      BY <3>2, <3>3
  <2>6. JksSilentMeansComplete' /\ JksMarkDeserved'
    <3>1. ~jksFailed' => ~jksFailed /\ jksFound # 0
      BY <2>1
    <3>2. jksFound \in Nat /\ privateKeyEntries \in Nat /\ trustedEntries \in Nat
      BY DEF JksInv, JksTypeOK
    <3>3. JksSilentMeansComplete'
      BY <2>1, <2>2, <2>3, <3>1, <3>2 DEF JksSilentMeansComplete
    <3>4. jksTruststore' => privateKeyEntries = 0
      BY <2>1
    <3>5. JksMarkDeserved'
      BY <2>1, <2>2, <2>3, <3>2, <3>4 DEF JksMarkDeserved
    <3> QED
      BY <3>3, <3>5
  <2> QED
    BY <2>4, <2>5, <2>6 DEF JksInv
<1> QED
  BY <1>1, <1>2

\* Every step of the Java keystore's parser keeps its invariant.
LEMMA JksStep == JksInv /\ [JksNext]_jksVars => JksInv'
<1> SUFFICES ASSUME JksInv, [JksNext]_jksVars PROVE JksInv'
  OBVIOUS
<1>1. CASE UNCHANGED jksVars
  BY <1>1 DEF jksVars, JksInv, JksTypeOK, WorkPaidFor, LoopsAgree,
              JksSilentMeansComplete, JksMarkDeserved
<1>2. CASE ReadHeader
  BY <1>2, ReadHeaderInv
<1>3. CASE BeginEntry("privateKey") \/ BeginEntry("trusted")
  BY <1>3, BeginEntryInv
<1>4. CASE UnsupportedEntry \/ UndecodableType
  BY <1>4, GiveUpInv DEF UnsupportedEntry, UndecodableType
<1>5. CASE ReadKey
  BY <1>5, ReadKeyInv
<1>6. CASE ReadCertificate
  BY <1>6, ReadCertificateInv
<1>7. CASE EndEntry
  BY <1>7, EndEntryInv
<1>8. CASE FinishEntries
  BY <1>8, FinishEntriesInv
<1> QED
  BY <1>1, <1>2, <1>3, <1>4, <1>5, <1>6, <1>7, <1>8 DEF JksNext

-----------------------------------------------------------------------------
(* The calls of parseSafeContents.                                         *)

\* An error that was met is in the parser's errors or in an open call, from where
\* it reaches them.
Recorded ==
  p12Failed \/ \E i \in 1 .. Len(levels) : levels[i].failed

\* The calls under way, and what has been appended so far.
StackOK ==
  /\ p12Place \in {"container", "contents", "bags", "done"}
  /\ levels \in Seq(Level) /\ (p12Place = "bags" <=> levels # <<>>)
  /\ Len(levels) <= MaxSafeContentsDepth + 1
  /\ p12Failed \in BOOLEAN /\ missed \in BOOLEAN
  /\ missed => Recorded

\* There is an innermost call.
LEMMA InnermostFacts ==
  ASSUME StackOK, levels # <<>>
  PROVE  /\ Len(levels) \in Nat \ {0}
         /\ Last(levels) = levels[Len(levels)]
         /\ levels[Len(levels)] \in Level
<1>1. Len(levels) \in Nat \ {0}
  BY EmptySeq DEF StackOK
<1>2. levels[Len(levels)] \in Level
  BY <1>1, ElementOfSeq DEF StackOK
<1> QED
  BY <1>1, <1>2 DEF Last

\* The innermost call goes on, its errors and those of the others kept.
LEMMA AfterBagFacts ==
  ASSUME StackOK, BagsLeft, NEW f \in BOOLEAN
  PROVE  /\ AfterBag(f) \in Seq(Level)
         /\ Len(AfterBag(f)) = Len(levels) /\ AfterBag(f) # <<>>
         /\ \A i \in 1 .. Len(levels) : levels[i].failed => AfterBag(f)[i].failed
         /\ f => AfterBag(f)[Len(levels)].failed
<1> DEFINE n == Len(levels)
           after == [bags |-> levels[n].bags - 1, failed |-> levels[n].failed \/ f]
<1>1. levels # <<>> /\ n \in 1 .. n /\ levels[n] \in Level /\ levels[n].bags > 0
  BY InnermostFacts DEF BagsLeft, StackOK
<1>2. after \in Level
  <2>1. (levels[n].failed \/ f) \in BOOLEAN
    BY Zenon
  <2>2. levels[n].bags - 1 \in 0 .. MaxBags + 1
    BY <1>1, P12Assumption DEF Level
  <2> QED
    BY <2>1, <2>2 DEF Level
<1>3. AfterBag(f) = [levels EXCEPT ![n] = after]
  BY DEF AfterBag
<1>4. levels \in Seq(Level)
  BY DEF StackOK
<1>5. /\ AfterBag(f) \in Seq(Level) /\ Len(AfterBag(f)) = n
      /\ \A i \in 1 .. n : AfterBag(f)[i] = IF i = n THEN after ELSE levels[i]
  BY <1>1, <1>2, <1>3, <1>4, ExceptSeq
<1>6. AfterBag(f) # <<>>
  BY <1>1, <1>5, EmptySeq
<1>7. after.failed = (levels[n].failed \/ f)
  OBVIOUS
<1> HIDE DEF after
<1>8. \A i \in 1 .. n : levels[i].failed => AfterBag(f)[i].failed
  BY <1>5, <1>7
<1>9. f => AfterBag(f)[n].failed
  BY <1>1, <1>5, <1>7
<1> QED
  BY <1>5, <1>6, <1>8, <1>9

\* A call on a level of its own leaves the calls around it alone.
LEMMA EnterFacts ==
  ASSUME NEW below \in Seq(Level), Enter(below)
  PROVE  /\ levels' \in Seq(Level) /\ levels' # <<>>
         /\ Len(levels') = Len(below) + 1
         /\ Len(levels') <= MaxSafeContentsDepth + 1
         /\ \A i \in 1 .. Len(below) : levels'[i] = below[i]
         /\ p12Place' = "bags" /\ UNCHANGED <<p12Failed, missed>>
<1>1. PICK n \in 0 .. MaxBags + 1 :
        levels' = Append(below, [bags |-> n, failed |-> FALSE])
  BY DEF Enter
<1>2. [bags |-> n, failed |-> FALSE] \in Level
  BY DEF Level
<1>3. Len(below) \in Nat
  BY LenProperties
<1>4. /\ levels' \in Seq(Level) /\ levels' # <<>>
      /\ Len(levels') = Len(below) + 1
      /\ \A i \in 1 .. Len(below) : levels'[i] = below[i]
  BY <1>1, <1>2, AppendProperties
<1> QED
  BY <1>3, <1>4, P12Assumption DEF Enter, MayEnter

\* A call that returns hands its error over, when it has one.
LEMMA ReturnFacts ==
  ASSUME StackOK, levels # <<>>, NEW f \in BOOLEAN, Return(f),
         levels[Len(levels)].failed => f
  PROVE  /\ levels' \in Seq(Level) /\ Len(levels') = Len(levels) - 1
         /\ p12Place' \in {"contents", "bags"}
         /\ (p12Place' = "bags" <=> levels' # <<>>)
         /\ p12Failed' \in BOOLEAN
         /\ f \/ Recorded => Recorded'
<1> DEFINE n == Len(levels) - 1
           outer == Front(levels)
<1>1. n \in Nat /\ Len(levels) = n + 1
  BY InnermostFacts
<1>2. levels \in Seq(Level) /\ \A i \in 1 .. n : levels[i] \in Level
  BY <1>1, ElementOfSeq DEF StackOK
<1>3. outer = SubSeq(levels, 1, n)
  BY DEF Front
<1> HIDE DEF n
<1>4. /\ outer \in Seq(Level) /\ Len(outer) = n
      /\ \A i \in 1 .. n : outer[i] = levels[i]
  <2>1. /\ SubSeq(levels, 1, n) \in Seq(Level)
        /\ Len(SubSeq(levels, 1, n)) = IF 1 <= n THEN n - 1 + 1 ELSE 0
        /\ \A i \in 1 .. n - 1 + 1 : SubSeq(levels, 1, n)[i] = levels[1 + i - 1]
    BY <1>1, <1>2, SubSeqProperties
  <2>2. n - 1 + 1 = n /\ (~(1 <= n) => n = 0)
    BY <1>1
  <2>3. \A i \in 1 .. n : 1 + i - 1 = i
    BY <1>1
  <2> QED
    BY <1>3, <2>1, <2>2, <2>3
<1> HIDE DEF outer
<1>5. /\ levels' = IF outer = <<>> THEN <<>>
                   ELSE [outer EXCEPT ![Len(outer)].failed = @ \/ f]
      /\ p12Failed' = (p12Failed \/ (outer = <<>> /\ f))
      /\ p12Place' = IF outer = <<>> THEN "contents" ELSE "bags"
  BY DEF Return, outer
<1>6. p12Failed' \in BOOLEAN
  BY <1>5, Zenon
<1>7. CASE outer = <<>>
  <2>1. n = 0 /\ levels' = <<>> /\ <<>> \in Seq(Level) /\ Len(levels') = 0
    BY <1>4, <1>5, <1>7, EmptySeq
  <2>2. Recorded => p12Failed \/ f
    BY <1>1, <2>1 DEF Recorded
  <2>3. f \/ Recorded => Recorded'
    BY <1>5, <1>7, <2>2 DEF Recorded
  <2> QED
    BY <1>1, <1>5, <1>6, <1>7, <2>1, <2>3
<1>8. CASE outer # <<>>
  <2> DEFINE last == [outer[n] EXCEPT !.failed = @ \/ f]
  <2>1. n \in 1 .. n /\ outer[n] \in Level
    BY <1>1, <1>2, <1>4, <1>8, EmptySeq
  <2>2. last \in Level /\ last.failed = (outer[n].failed \/ f)
    <3>1. (outer[n].failed \/ f) \in BOOLEAN
      BY Zenon
    <3> QED
      BY <2>1, <3>1 DEF Level
  <2>3. levels' = [outer EXCEPT ![n] = last]
    BY <1>4, <1>5, <1>8
  <2> HIDE DEF last
  <2>4. /\ levels' \in Seq(Level) /\ Len(levels') = n
        /\ \A i \in 1 .. n : levels'[i] = IF i = n THEN last ELSE outer[i]
    BY <1>4, <2>1, <2>2, <2>3, ExceptSeq
  <2>5. levels' # <<>>
    BY <2>1, <2>4, EmptySeq
  <2>6. f => Recorded'
    BY <2>1, <2>2, <2>4 DEF Recorded
  <2>7. \A i \in 1 .. n : levels[i].failed => levels'[i].failed
    BY <1>4, <2>2, <2>4
  <2>8. Recorded => Recorded'
    <3>1. p12Failed => p12Failed'
      BY <1>5
    <3>2. ASSUME NEW i \in 1 .. Len(levels), levels[i].failed
          PROVE  f \/ \E k \in 1 .. Len(levels') : levels'[k].failed
      <4>1. i = Len(levels) \/ i \in 1 .. n
        BY <1>1
      <4> QED
        BY <3>2, <4>1, <2>4, <2>7
    <3> QED
      BY <2>6, <3>1, <3>2 DEF Recorded
  <2> QED
    BY <1>1, <1>5, <1>6, <1>8, <2>4, <2>5, <2>6, <2>8
<1> QED
  BY <1>7, <1>8

\* Nothing is under way before the container is opened.
LEMMA InitStack == P12Init => StackOK
<1> SUFFICES ASSUME P12Init PROVE StackOK
  OBVIOUS
<1>1. p12Failed \in BOOLEAN /\ missed \in BOOLEAN /\ ~missed
  BY Zenon DEF P12Init
<1>2. levels = <<>> /\ levels \in Seq(Level) /\ Len(levels) = 0
  BY EmptySeq DEF P12Init
<1> QED
  BY <1>1, <1>2, P12Assumption DEF P12Init, StackOK

\* Every step keeps the calls within the depth, and loses no error.
LEMMA StackStep ==
  ASSUME StackOK, [P12Next]_p12Vars
  PROVE  StackOK'
<1>1. CASE UNCHANGED <<levels, p12Failed, missed>> /\ p12Place' \in {p12Place, "contents"}
                   /\ p12Place \notin {"bags", "done"}
  BY <1>1 DEF StackOK, Recorded
<1>2. CASE p12Place' = p12Place /\ levels' = levels /\ p12Failed' = TRUE /\ missed' = TRUE
  BY <1>2 DEF StackOK, Recorded
<1>3. CASE UNCHANGED p12Vars
  BY <1>3 DEF p12Vars, StackOK, Recorded
<1>4. CASE OpenContainer
  <2>1. levels' = levels /\ p12Place # "bags" /\ p12Place' \in {"contents", "done"}
    BY <1>4 DEF OpenContainer
  <2>2. p12Failed' \in BOOLEAN /\ missed' \in BOOLEAN /\ (missed' => Recorded')
    <3>1. CASE UNCHANGED <<p12Failed, missed>>
      BY <2>1, <3>1 DEF StackOK, Recorded
    <3>2. CASE p12Failed' = TRUE /\ missed' = TRUE
      BY <3>2, Zenon DEF Recorded
    <3> QED
      BY <1>4, <3>1, <3>2 DEF OpenContainer
  <2> QED
    BY <2>1, <2>2 DEF StackOK
<1>5. CASE EnterContent
  <2>1. levels = <<>> /\ <<>> \in Seq(Level) /\ Enter(<<>>)
    BY <1>5, EmptySeq DEF EnterContent, MoreContents, StackOK
  <2>2. /\ levels' \in Seq(Level) /\ levels' # <<>>
        /\ Len(levels') <= MaxSafeContentsDepth + 1
        /\ p12Place' = "bags" /\ UNCHANGED <<p12Failed, missed>>
    BY <2>1, EnterFacts
  <2>3. Recorded => Recorded'
    BY <2>1, <2>2, EmptySeq DEF Recorded
  <2> QED
    BY <2>2, <2>3 DEF StackOK
<1>6. CASE EncryptedContent
  BY <1>1, <1>6 DEF EncryptedContent, MoreContents
<1>7. CASE UnreadableContent
  BY <1>2, <1>7 DEF UnreadableContent
<1>8. ASSUME BagsLeft, NEW f \in BOOLEAN, Return(f),
             levels[Len(levels)].failed => f, missed' \in BOOLEAN,
             missed' => f \/ missed
      PROVE  StackOK'
  <2>1. levels # <<>>
    BY <1>8 DEF BagsLeft, StackOK
  <2>2. /\ levels' \in Seq(Level) /\ Len(levels') = Len(levels) - 1
        /\ p12Place' \in {"contents", "bags"}
        /\ (p12Place' = "bags" <=> levels' # <<>>)
        /\ p12Failed' \in BOOLEAN
        /\ f \/ Recorded => Recorded'
    BY <1>8, <2>1, ReturnFacts
  <2>3. Len(levels') <= MaxSafeContentsDepth + 1
    BY <2>1, <2>2, InnermostFacts, P12Assumption DEF StackOK
  <2>4. missed' => Recorded'
    BY <1>8, <2>2 DEF StackOK
  <2> QED
    BY <1>8, <2>2, <2>3, <2>4 DEF StackOK
<1>9. ASSUME BagsLeft, NEW f \in BOOLEAN,
             levels' = AfterBag(f), UNCHANGED <<p12Place, p12Failed>>,
             missed' \in BOOLEAN, missed' => f \/ missed
      PROVE  StackOK'
  <2>1. levels # <<>> /\ Len(levels) \in Nat \ {0} /\ p12Place = "bags"
    BY <1>9, InnermostFacts DEF BagsLeft, StackOK
  <2>2. /\ levels' \in Seq(Level)
        /\ Len(levels') = Len(levels) /\ levels' # <<>>
        /\ \A i \in 1 .. Len(levels) : levels[i].failed => levels'[i].failed
        /\ f => levels'[Len(levels)].failed
    BY <1>9, AfterBagFacts
  <2>3. f \/ Recorded => Recorded'
    BY <1>9, <2>1, <2>2 DEF Recorded
  <2> QED
    BY <1>9, <2>1, <2>2, <2>3 DEF StackOK
<1>10. CASE TooManyBags
  <2>1. BagsLeft /\ Return(TRUE) /\ missed' = TRUE
    BY <1>10 DEF TooManyBags
  <2> QED
    BY <2>1, <1>8
<1>11. CASE UnreadableBag
  BY <1>9, <1>11 DEF UnreadableBag, TakeBag
<1>12. CASE KeyBag \/ OtherBag
  <2>1. /\ BagsLeft /\ levels' = AfterBag(FALSE)
        /\ UNCHANGED <<p12Place, p12Failed, missed>>
    BY <1>12 DEF KeyBag, OtherBag, TakeBag
  <2> QED
    BY <2>1, <1>9 DEF StackOK
<1>13. CASE CertBag
  <2>1. PICK named \in BOOLEAN, parsed \in BOOLEAN :
          /\ levels' = AfterBag(~named \/ ~parsed)
          /\ missed' = (missed \/ ~parsed)
    BY <1>13 DEF CertBag
  <2>2. missed' \in BOOLEAN /\ (~named \/ ~parsed) \in BOOLEAN
    BY <2>1, Zenon
  <2>3. BagsLeft /\ UNCHANGED <<p12Place, p12Failed>>
    BY <1>13 DEF CertBag, TakeBag
  <2> QED
    BY <2>1, <2>2, <2>3, <1>9
<1>14. CASE NestedBag
  <2>1. CASE Enter(AfterBag(FALSE))
    <3>1. BagsLeft /\ levels # <<>>
      BY <1>14 DEF NestedBag, TakeBag, BagsLeft, StackOK
    <3>2. /\ AfterBag(FALSE) \in Seq(Level) /\ Len(AfterBag(FALSE)) = Len(levels)
          /\ \A i \in 1 .. Len(levels) : levels[i].failed => AfterBag(FALSE)[i].failed
      BY <3>1, AfterBagFacts
    <3>3. /\ levels' \in Seq(Level) /\ levels' # <<>>
          /\ Len(levels') = Len(levels) + 1
          /\ Len(levels') <= MaxSafeContentsDepth + 1
          /\ \A i \in 1 .. Len(levels) : levels'[i] = AfterBag(FALSE)[i]
          /\ p12Place' = "bags" /\ UNCHANGED <<p12Failed, missed>>
      BY <2>1, <3>2, EnterFacts
    <3>4. Recorded => Recorded'
      <4>1. \A i \in 1 .. Len(levels) : i \in 1 .. Len(levels')
        BY <3>1, <3>3, InnermostFacts
      <4> QED
        BY <3>2, <3>3, <4>1 DEF Recorded
    <3> QED
      BY <3>3, <3>4 DEF StackOK
  <2>2. CASE levels' = AfterBag(TRUE) /\ missed' = TRUE /\ UNCHANGED <<p12Place, p12Failed>>
    BY <1>14, <2>2, <1>9 DEF NestedBag, TakeBag
  <2> QED
    BY <1>14, <2>1, <2>2 DEF NestedBag
<1>15. CASE EndBags
  <2>1. /\ levels # <<>> /\ Return(levels[Len(levels)].failed) /\ missed' = missed
    BY <1>15, InnermostFacts DEF EndBags, StackOK
  <2>2. levels[Len(levels)].failed \in BOOLEAN
    BY <2>1, InnermostFacts DEF Level
  <2>3. /\ levels' \in Seq(Level) /\ Len(levels') = Len(levels) - 1
        /\ p12Place' \in {"contents", "bags"}
        /\ (p12Place' = "bags" <=> levels' # <<>>)
        /\ p12Failed' \in BOOLEAN
        /\ Recorded => Recorded'
    BY <2>1, <2>2, ReturnFacts
  <2> QED
    BY <2>1, <2>3, InnermostFacts, P12Assumption DEF StackOK
<1>16. CASE FinishContents
  BY <1>16 DEF FinishContents, StackOK, Recorded
<1> QED
  BY <1>3, <1>4, <1>5, <1>6, <1>7, <1>10, <1>11, <1>12, <1>13, <1>14, <1>15, <1>16
     DEF P12Next

-----------------------------------------------------------------------------
(* What the calls count and collect.                                       *)

Places == [content : 0 .. MaxContentInfos, chain : Nat]

CountsOK ==
  /\ contentInfos \in 0 .. MaxContentInfos /\ content \in 0 .. contentInfos
  /\ certBags \in Nat /\ bagCount \in Nat /\ keyBagCount \in Nat /\ read \in Nat
  /\ p12Found \in Seq(Places)
  /\ encrypted \subseteq 0 .. MaxContentInfos
  /\ p12Truststore \in BOOLEAN
  /\ p12Place = "container" => content = 0
  /\ p12Place = "bags" => content >= 1

\* A step within the bags of a content.
LEMMA BagStepFacts ==
  ASSUME StackOK, CountsOK,
         TooManyBags \/ UnreadableBag \/ KeyBag \/ CertBag \/ NestedBag \/ OtherBag
           \/ EndBags
  PROVE  /\ p12Place = "bags"
         /\ UNCHANGED <<contentInfos, content, encrypted, p12Truststore>>
         /\ bagCount' \in {bagCount, bagCount + 1}
         /\ keyBagCount' \in {keyBagCount, keyBagCount + 1}
         /\ read' \in {read, read + 1}
         /\ ~CertBag => UNCHANGED <<certBags, p12Found>>
         /\ missed => missed'
<1>1. CASE CertBag
  BY <1>1, Zenon DEF CertBag, TakeBag, BagsLeft
<1>2. CASE NestedBag
  <2>1. missed => missed'
    BY <1>2, Zenon DEF NestedBag, Enter
  <2>2. p12Place = "bags" /\ bagCount' = bagCount + 1 /\ read' = read + 1
    BY <1>2 DEF NestedBag, TakeBag, BagsLeft
  <2>3. UNCHANGED <<contentInfos, content, certBags, keyBagCount, p12Found,
                    encrypted, p12Truststore>>
    BY <1>2 DEF NestedBag
  <2> QED
    BY <2>1, <2>2, <2>3, Zenon
<1>3. CASE TooManyBags
  BY <1>3, Zenon DEF TooManyBags, BagsLeft
<1>4. CASE EndBags
  BY <1>4, Zenon DEF EndBags
<1>5. CASE UnreadableBag
  BY <1>5, Zenon DEF UnreadableBag, TakeBag, BagsLeft
<1>6. CASE KeyBag
  BY <1>6, Zenon DEF KeyBag, TakeBag, BagsLeft
<1>7. CASE OtherBag
  BY <1>7, Zenon DEF OtherBag, TakeBag, BagsLeft
<1> QED
  BY <1>1, <1>2, <1>3, <1>4, <1>5, <1>6, <1>7

\* A certificate bag takes the next position of its content.
LEMMA CertBagFacts ==
  ASSUME CountsOK, CertBag
  PROVE  LET new == [content |-> content - 1, chain |-> certBags] IN
         /\ certBags' = certBags + 1
         /\ new \in Places
         /\ p12Found' \in {p12Found, Append(p12Found, new)}
         /\ ~missed' => p12Found' = Append(p12Found, new)
         /\ missed => missed'
<1> DEFINE new == [content |-> content - 1, chain |-> certBags]
<1>1. p12Place = "bags" /\ certBags' = certBags + 1
  BY DEF CertBag, TakeBag, BagsLeft
<1>2. content - 1 \in 0 .. MaxContentInfos
  BY <1>1, P12Assumption DEF CountsOK
<1>3. new \in Places
  BY <1>2 DEF CountsOK, Places
<1>4. PICK parsed \in BOOLEAN :
        /\ p12Found' = IF parsed THEN Append(p12Found, new) ELSE p12Found
        /\ missed' = (missed \/ ~parsed)
  BY DEF CertBag
<1> QED
  BY <1>1, <1>3, <1>4

\* Nothing is counted or collected at first.
LEMMA InitCounts == P12Init => CountsOK
<1> SUFFICES ASSUME P12Init PROVE CountsOK
  OBVIOUS
<1>1. p12Found = <<>> /\ p12Found \in Seq(Places)
  BY EmptySeq DEF P12Init
<1>2. p12Truststore \in BOOLEAN
  BY Zenon DEF P12Init
<1> QED
  BY <1>1, <1>2, P12Assumption DEF P12Init, CountsOK

\* The counters stay natural numbers, and what is collected has its form.
LEMMA CountsStep ==
  ASSUME StackOK, CountsOK, [P12Next]_p12Vars
  PROVE  CountsOK'
<1>1. CASE UNCHANGED p12Vars
  BY <1>1 DEF p12Vars, CountsOK
<1>2. CASE OpenContainer
  <2>1. contentInfos' \in 0 .. MaxContentInfos /\ content \in 0 .. contentInfos'
        /\ p12Place' # "bags"
    BY <1>2 DEF OpenContainer, CountsOK
  <2> QED
    BY <1>2, <2>1 DEF OpenContainer, CountsOK
<1>3. CASE EnterContent \/ EncryptedContent \/ UnreadableContent
  <2>1. /\ p12Place = "contents" /\ content < contentInfos /\ content' = content + 1
        /\ certBags' \in {certBags, 0}
        /\ encrypted' \in {encrypted, encrypted \cup {content}}
        /\ UNCHANGED <<contentInfos, bagCount, keyBagCount, p12Found, p12Truststore,
                       read>>
    <3>1. CASE EnterContent
      BY <3>1 DEF EnterContent, MoreContents
    <3>2. CASE EncryptedContent
      BY <3>2 DEF EncryptedContent, MoreContents
    <3>3. CASE UnreadableContent
      BY <3>3 DEF UnreadableContent, MoreContents
    <3> QED
      BY <1>3, <3>1, <3>2, <3>3
  <2>2. content \in Nat /\ contentInfos \in Nat /\ contentInfos <= MaxContentInfos
    BY P12Assumption DEF CountsOK
  <2>3. /\ content' \in 0 .. contentInfos /\ content \in 0 .. MaxContentInfos
        /\ content' >= 1 /\ p12Place' # "container"
    <3>1. p12Place' # "container"
      BY <1>3, <2>1 DEF EnterContent, Enter, EncryptedContent, UnreadableContent
    <3> QED
      BY <2>1, <2>2, <3>1, P12Assumption
  <2> QED
    BY <2>1, <2>3 DEF CountsOK
<1>4. CASE TooManyBags \/ UnreadableBag \/ KeyBag \/ CertBag \/ NestedBag \/ OtherBag
             \/ EndBags
  <2>1. /\ p12Place = "bags"
        /\ UNCHANGED <<contentInfos, content, encrypted, p12Truststore>>
        /\ bagCount' \in {bagCount, bagCount + 1}
        /\ keyBagCount' \in {keyBagCount, keyBagCount + 1}
        /\ read' \in {read, read + 1}
        /\ ~CertBag => UNCHANGED <<certBags, p12Found>>
    BY <1>4, BagStepFacts
  <2>2. content >= 1
    BY <2>1 DEF CountsOK
  <2>3. bagCount' \in Nat /\ keyBagCount' \in Nat /\ read' \in Nat
    BY <2>1 DEF CountsOK
  <2>4. certBags' \in Nat /\ p12Found' \in Seq(Places)
    <3>1. CASE CertBag
      <4>1. p12Found \in Seq(Places) /\ certBags \in Nat
        BY DEF CountsOK
      <4> QED
        BY <3>1, <4>1, CertBagFacts, AppendProperties
    <3>2. CASE ~CertBag
      BY <2>1, <3>2 DEF CountsOK
    <3> QED
      BY <3>1, <3>2
  <2>5. p12Place' # "container"
    BY <1>4, <2>1 DEF TooManyBags, Return, UnreadableBag, KeyBag, CertBag, NestedBag,
                      Enter, OtherBag, EndBags
  <2> QED
    BY <2>1, <2>2, <2>3, <2>4, <2>5 DEF CountsOK
<1>5. CASE FinishContents
  <2>1. p12Truststore' \in BOOLEAN
    BY <1>5, Zenon DEF FinishContents
  <2> QED
    BY <1>5, <2>1 DEF FinishContents, CountsOK
<1> QED
  BY <1>1, <1>2, <1>3, <1>4, <1>5 DEF P12Next

-----------------------------------------------------------------------------
(* The limits of the whole file.                                           *)

\* Every bag that was looked into was counted.
LimitInv == BagLimitKept /\ read <= bagCount

\* Each content has room for one more bag at each depth, and some content is
\* under way when there are calls.
LEMMA RoomForCalls ==
  ASSUME NEW c \in Nat, NEW depth \in Nat
  PROVE  /\ (c + 1) * (depth + 1) = c * (depth + 1) + depth + 1
         /\ c >= 1 => c * (depth + 1) >= depth + 1
<1>1. (c + 1) * (depth + 1) = c * (depth + 1) + depth + 1
  OBVIOUS
<1>2. ASSUME c >= 1 PROVE c * (depth + 1) >= depth + 1
  <2>1. PICK b \in Nat : c = b + 1
    <3>1. c - 1 \in Nat /\ c = (c - 1) + 1
      BY <1>2
    <3> QED
      BY <3>1
  <2>2. b * (depth + 1) \in Nat
    OBVIOUS
  <2> QED
    BY <2>1, <2>2
<1> QED
  BY <1>1, <1>2

\* The limits hold at first, when nothing has been counted.
LEMMA InitLimit == P12Init => LimitInv
<1> SUFFICES ASSUME P12Init PROVE LimitInv
  OBVIOUS
<1>1. levels = <<>> /\ Len(levels) = 0
  BY EmptySeq DEF P12Init
<1> QED
  BY <1>1, P12Assumption DEF P12Init, LimitInv, BagLimitKept

\* Every step keeps the limits: beyond the bag limit each step that counts a bag
\* ends a call, and each content opens one call at most.
LEMMA LimitStep ==
  ASSUME StackOK, CountsOK, LimitInv, [P12Next]_p12Vars
  PROVE  LimitInv'
<1> DEFINE room == MaxSafeContentsDepth + 1
<1>1. /\ bagCount \in Nat /\ read \in Nat /\ content \in Nat /\ MaxBags \in Nat
      /\ Len(levels) \in Nat /\ room \in Nat \ {0}
  <2>1. Len(levels) \in Nat
    BY LenProperties DEF StackOK
  <2> QED
    BY <2>1, P12Assumption DEF CountsOK
<1>2. Len(levels') <= room
  BY StackStep DEF StackOK
<1>3. /\ Len(levels) <= room /\ read <= MaxBags /\ read <= bagCount
      /\ bagCount > MaxBags => bagCount + Len(levels) <= MaxBags + content * room
  BY DEF LimitInv, BagLimitKept
<1>4. /\ content * room \in Nat
      /\ (content + 1) * room = content * room + room
      /\ content >= 1 => content * room >= room
  BY <1>1, P12Assumption, RoomForCalls
<1> HIDE DEF room
<1>5. CASE UNCHANGED <<levels, bagCount, read>> /\ content' \in {content, content + 1}
  <2>1. content' * room >= content * room
    <3>1. CASE content' = content
      BY <1>1, <1>4, <3>1
    <3>2. CASE content' = content + 1
      <4>1. content' * room = content * room + room
        BY <1>4, <3>2
      <4> QED
        BY <1>1, <1>4, <4>1
    <3> QED
      BY <1>5, <3>1, <3>2
  <2>2. bagCount > MaxBags => bagCount + Len(levels) <= MaxBags + content' * room
    BY <1>1, <1>3, <1>4, <2>1, <1>5
  <2> QED
    BY <1>2, <1>3, <1>5, <2>2 DEF LimitInv, BagLimitKept, room
<1>6. CASE TakeBag
  <2>1. bagCount < MaxBags /\ bagCount' = bagCount + 1 /\ read' = read + 1
    BY <1>6 DEF TakeBag
  <2>2. read' <= MaxBags /\ read' <= bagCount' /\ ~(bagCount' > MaxBags)
    BY <1>1, <1>3, <2>1
  <2> QED
    BY <1>2, <2>2 DEF LimitInv, BagLimitKept, room
<1>7. CASE EnterContent
  <2>1. levels = <<>> /\ <<>> \in Seq(Level) /\ Enter(<<>>)
    BY <1>7, EmptySeq DEF EnterContent, MoreContents, StackOK
  <2>2. Len(levels') = 1 /\ Len(levels) = 0
    <3>1. Len(levels) = 0
      BY <2>1, EmptySeq
    <3>2. Len(levels') = Len(<<>>) + 1
      BY <2>1, EnterFacts
    <3> QED
      BY <2>1, <3>1, <3>2
  <2>3. content' = content + 1 /\ UNCHANGED <<bagCount, read>>
    BY <1>7 DEF EnterContent
  <2>4. bagCount > MaxBags => bagCount + 1 <= MaxBags + content' * room
    BY <1>1, <1>3, <1>4, <2>2, <2>3
  <2> QED
    BY <1>2, <1>3, <2>2, <2>3, <2>4 DEF LimitInv, BagLimitKept, room
<1>8. ASSUME levels # <<>>, Len(levels') = Len(levels) - 1, content' = content,
             read' = read,
             bagCount' = bagCount \/ (bagCount >= MaxBags /\ bagCount' = bagCount + 1)
      PROVE  LimitInv'
  <2>1. content >= 1 /\ Len(levels) >= 1
    BY <1>8, InnermostFacts DEF StackOK, CountsOK
  <2>2. bagCount' > MaxBags => bagCount' + Len(levels') <= MaxBags + content * room
    BY <1>1, <1>3, <1>4, <1>8, <2>1
  <2>3. read' <= bagCount' /\ read' <= MaxBags
    BY <1>1, <1>3, <1>8
  <2> QED
    BY <1>2, <1>8, <2>2, <2>3 DEF LimitInv, BagLimitKept, room
<1>9. CASE TooManyBags
  <2>1. /\ levels # <<>> /\ Return(TRUE) /\ bagCount >= MaxBags
        /\ bagCount' = bagCount + 1 /\ UNCHANGED <<content, read>>
    BY <1>9 DEF TooManyBags, BagsLeft, StackOK
  <2>2. Len(levels') = Len(levels) - 1
    BY <2>1, ReturnFacts
  <2> QED
    BY <1>8, <2>1, <2>2
<1>10. CASE EndBags
  <2>1. /\ levels # <<>> /\ Return(levels[Len(levels)].failed)
        /\ UNCHANGED <<content, read, bagCount>>
    BY <1>10, InnermostFacts DEF EndBags, StackOK
  <2>2. levels[Len(levels)].failed \in BOOLEAN
    BY <2>1, InnermostFacts DEF Level
  <2>3. Len(levels') = Len(levels) - 1
    BY <2>1, <2>2, ReturnFacts
  <2> QED
    BY <1>8, <2>1, <2>3
<1> QED
  BY <1>5, <1>6, <1>7, <1>9, <1>10
     DEF P12Next, p12Vars, OpenContainer, EncryptedContent, UnreadableContent,
         UnreadableBag, KeyBag, CertBag, NestedBag, OtherBag, FinishContents

-----------------------------------------------------------------------------
(* The outcome.                                                            *)

\* The mark is set at the end alone, from what was found by then.
OutcomeInv ==
  /\ P12SilentMeansComplete
  /\ p12Truststore =>
       p12Place = "done" /\ p12Found # <<>> /\ keyBagCount = 0 /\ encrypted = {}

\* There is no outcome before the container is opened.
LEMMA InitOutcome == P12Init => OutcomeInv
BY DEF P12Init, OutcomeInv, P12SilentMeansComplete

\* The outcome is right when it is decided, and is not touched again.
LEMMA OutcomeStep ==
  ASSUME StackOK, CountsOK, OutcomeInv, [P12Next]_p12Vars
  PROVE  OutcomeInv'
<1>1. CASE UNCHANGED p12Vars
  BY <1>1 DEF p12Vars, OutcomeInv, P12SilentMeansComplete
<1>2. CASE FinishContents
  <2>1. levels = <<>> /\ Len(levels) = 0
    BY <1>2, EmptySeq DEF FinishContents, StackOK
  <2>2. missed => p12Failed
    BY <2>1 DEF StackOK, Recorded
  <2>3. P12SilentMeansComplete'
    BY <1>2, <2>2 DEF FinishContents, P12SilentMeansComplete
  <2>4. p12Truststore' => p12Found # <<>> /\ keyBagCount = 0 /\ encrypted = {}
    BY <1>2, Zenon DEF FinishContents
  <2> QED
    BY <1>2, <2>3, <2>4 DEF FinishContents, OutcomeInv
<1>3. ASSUME p12Place # "done", p12Place' # "done" \/ p12Failed' = TRUE,
             p12Truststore' = p12Truststore
      PROVE  OutcomeInv'
  BY <1>3 DEF OutcomeInv, P12SilentMeansComplete
<1>4. CASE OpenContainer
  BY <1>3, <1>4 DEF OpenContainer
<1>5. CASE EnterContent \/ EncryptedContent \/ UnreadableContent
  BY <1>3, <1>5
     DEF EnterContent, EncryptedContent, UnreadableContent, MoreContents, Enter
<1>6. CASE TooManyBags \/ UnreadableBag \/ KeyBag \/ CertBag \/ NestedBag \/ OtherBag
             \/ EndBags
  <2>1. p12Place = "bags" /\ p12Truststore' = p12Truststore
    BY <1>6, BagStepFacts
  <2>2. p12Place' \in {"contents", "bags"}
    BY <1>6, <2>1 DEF TooManyBags, Return, UnreadableBag, KeyBag, CertBag, NestedBag,
                      Enter, OtherBag, EndBags
  <2> QED
    BY <1>3, <2>1, <2>2
<1> QED
  BY <1>1, <1>2, <1>4, <1>5, <1>6 DEF P12Next

-----------------------------------------------------------------------------
(* The positions of certificates.                                          *)

\* Every certificate has a place of the current content below the next, or one of
\* an earlier content; while nothing is missed, each place below the next of the
\* content whose bags are read has its certificate.
PlacesTaken ==
  /\ \A k \in DOMAIN p12Found :
       /\ p12Found[k].content < content
       /\ p12Found[k].content = content - 1 => p12Found[k].chain < certBags
  /\ p12Place = "bags" /\ ~missed =>
       \A c \in 0 .. certBags - 1 :
         \E k \in DOMAIN p12Found : p12Found[k] = [content |-> content - 1, chain |-> c]

ChainInv == PlacesTaken /\ ChainIndicesExact

\* There is no certificate at first.
LEMMA InitChain == P12Init => ChainInv
BY DEF P12Init, ChainInv, PlacesTaken, ChainIndicesExact

\* A certificate bag takes the place after those taken.
LEMMA CertBagChain ==
  ASSUME CountsOK, ChainInv, CertBag
  PROVE  ChainInv'
<1> DEFINE new == [content |-> content - 1, chain |-> certBags]
           n == Len(p12Found)
<1>1. /\ p12Found \in Seq(Places) /\ n \in Nat /\ certBags \in Nat
      /\ content \in Nat /\ content >= 1 /\ content' = content
      /\ certBags' = certBags + 1 /\ p12Place = "bags"
  <2>1. p12Place = "bags" /\ content' = content
    BY DEF CertBag, TakeBag, BagsLeft
  <2>2. certBags' = certBags + 1
    BY CertBagFacts
  <2>3. p12Found \in Seq(Places) /\ certBags \in Nat /\ content \in Nat /\ content >= 1
    BY <2>1, P12Assumption DEF CountsOK
  <2> QED
    BY <2>1, <2>2, <2>3, LenProperties
<1>2. /\ DOMAIN p12Found = 1 .. n
      /\ \A k \in 1 .. n : p12Found[k].content \in Int /\ p12Found[k].chain \in Int
  <2>1. \A k \in 1 .. n : p12Found[k] \in Places
    BY <1>1, ElementOfSeq
  <2> QED
    BY <1>1, <2>1, LenProperties DEF Places
<1>3. /\ new \in Places /\ new.content = content - 1 /\ new.chain = certBags
      /\ p12Found' \in {p12Found, Append(p12Found, new)}
      /\ ~missed' => p12Found' = Append(p12Found, new)
      /\ ~missed' => ~missed
  BY CertBagFacts
<1> HIDE DEF new, n
<1>4. /\ \A k \in 1 .. n :
           /\ p12Found[k].content < content
           /\ p12Found[k].content = content - 1 => p12Found[k].chain < certBags
      /\ ~missed => \A c \in 0 .. certBags - 1 : \E k \in 1 .. n :
                      p12Found[k] = [content |-> content - 1, chain |-> c]
  BY <1>1, <1>2 DEF ChainInv, PlacesTaken
<1>5. CASE p12Found' = p12Found /\ missed'
  <2>1. PlacesTaken'
    BY <1>1, <1>2, <1>4, <1>5 DEF PlacesTaken
  <2>2. ChainIndicesExact'
    BY <1>5 DEF ChainInv, ChainIndicesExact
  <2> QED
    BY <2>1, <2>2 DEF ChainInv
<1>6. CASE p12Found' = Append(p12Found, new)
  <2>1. /\ DOMAIN p12Found' = 1 .. n + 1
        /\ \A k \in 1 .. n : p12Found'[k] = p12Found[k]
        /\ p12Found'[n + 1] = new
    <3>1. /\ p12Found' \in Seq(Places) /\ Len(p12Found') = n + 1
          /\ \A k \in 1 .. n : p12Found'[k] = p12Found[k]
          /\ p12Found'[n + 1] = new
      BY <1>1, <1>3, <1>6, AppendProperties DEF n
    <3> QED
      BY <3>1, LenProperties
  <2>2. PlacesTaken'
    <3>1. ASSUME NEW k \in 1 .. n + 1
          PROVE  /\ p12Found'[k].content < content
                 /\ p12Found'[k].content = content - 1 => p12Found'[k].chain < certBags + 1
      <4>1. CASE k = n + 1
        BY <1>1, <1>3, <2>1, <4>1
      <4>2. CASE k \in 1 .. n
        BY <1>1, <1>2, <1>4, <2>1, <4>2
      <4> QED
        BY <1>1, <4>1, <4>2
    <3>2. ASSUME ~missed', NEW c \in 0 .. certBags
          PROVE  \E k \in 1 .. n + 1 :
                   p12Found'[k] = [content |-> content - 1, chain |-> c]
      <4>1. CASE c = certBags
        BY <1>1, <2>1, <4>1 DEF new
      <4>2. CASE c \in 0 .. certBags - 1
        <5>1. PICK k \in 1 .. n : p12Found[k] = [content |-> content - 1, chain |-> c]
          BY <1>3, <1>4, <3>2, <4>2
        <5> QED
          BY <1>1, <2>1, <5>1
      <4> QED
        BY <1>1, <4>1, <4>2
    <3> QED
      BY <1>1, <2>1, <3>1, <3>2 DEF PlacesTaken
  <2>3. ChainIndicesExact'
    <3>1. ASSUME NEW i \in 1 .. n + 1, NEW j \in 1 .. n + 1, i < j
          PROVE  /\ p12Found'[i].content = p12Found'[j].content =>
                      p12Found'[i].chain < p12Found'[j].chain
                 /\ p12Found'[i].content <= p12Found'[j].content
      <4>1. i \in 1 .. n /\ p12Found'[i] = p12Found[i]
        BY <1>1, <2>1, <3>1
      <4>2. CASE j = n + 1
        BY <1>1, <1>2, <1>3, <1>4, <2>1, <4>1, <4>2
      <4>3. CASE j \in 1 .. n
        BY <1>2, <2>1, <3>1, <4>1, <4>3 DEF ChainInv, ChainIndicesExact
      <4> QED
        BY <1>1, <4>2, <4>3
    <3>2. ASSUME ~missed', NEW i \in 1 .. n + 1, NEW c \in 0 .. p12Found'[i].chain
          PROVE  \E k \in 1 .. i : p12Found'[k] = [p12Found'[i] EXCEPT !.chain = c]
      <4>1. CASE i = n + 1
        <5>1. p12Found'[i] = new /\ c \in 0 .. certBags
          BY <1>3, <2>1, <4>1
        <5>2. [p12Found'[i] EXCEPT !.chain = c] = [content |-> content - 1, chain |-> c]
          BY <5>1 DEF new
        <5>3. PICK k \in DOMAIN p12Found' :
                p12Found'[k] = [content |-> content - 1, chain |-> c]
          <6>1. CASE c = certBags
            <7>1. n + 1 \in DOMAIN p12Found' /\ p12Found'[n + 1] = new
              BY <1>1, <2>1
            <7> QED
              BY <6>1, <7>1 DEF new
          <6>2. CASE c \in 0 .. certBags - 1
            <7>1. PICK k \in 1 .. n :
                    p12Found[k] = [content |-> content - 1, chain |-> c]
              BY <1>3, <1>4, <3>2, <6>2
            <7> QED
              BY <1>1, <2>1, <7>1
          <6> QED
            BY <1>1, <5>1, <6>1, <6>2
        <5> QED
          BY <2>1, <4>1, <5>2, <5>3
      <4>2. CASE i \in 1 .. n
        <5>1. p12Found'[i] = p12Found[i] /\ c \in 0 .. p12Found[i].chain
          BY <2>1, <4>2
        <5>2. PICK k \in 1 .. i : p12Found[k] = [p12Found[i] EXCEPT !.chain = c]
          BY <1>2, <1>3, <3>2, <4>2, <5>1 DEF ChainInv, ChainIndicesExact
        <5>3. k \in 1 .. n
          BY <1>1, <4>2
        <5> QED
          BY <2>1, <5>1, <5>2, <5>3
      <4> QED
        BY <1>1, <4>1, <4>2
    <3> QED
      BY <2>1, <3>1, <3>2 DEF ChainIndicesExact
  <2> QED
    BY <2>2, <2>3 DEF ChainInv
<1> QED
  BY <1>3, <1>5, <1>6

\* Every step keeps the places: only a certificate bag adds one, and a content
\* begins with none taken.
LEMMA ChainStep ==
  ASSUME StackOK, CountsOK, ChainInv, [P12Next]_p12Vars
  PROVE  ChainInv'
<1>1. /\ p12Found \in Seq(Places) /\ content \in Nat /\ certBags \in Nat
      /\ \A k \in DOMAIN p12Found : p12Found[k] \in Places
  <2>1. p12Found \in Seq(Places) /\ content \in Nat /\ certBags \in Nat
    BY P12Assumption DEF CountsOK
  <2> QED
    BY <2>1, ElementOfSeq, LenProperties
<1>2. ASSUME p12Found' = p12Found, missed => missed',
             \/ /\ UNCHANGED <<content, certBags>>
                /\ p12Place' = "bags" => p12Place = "bags"
             \/ content' = content + 1 /\ (p12Place' = "bags" => certBags' = 0)
      PROVE  ChainInv'
  <2>1. ChainIndicesExact'
    BY <1>2 DEF ChainInv, ChainIndicesExact
  <2>2. CASE UNCHANGED <<content, certBags>> /\ (p12Place' = "bags" => p12Place = "bags")
    BY <1>2, <2>1, <2>2 DEF ChainInv, PlacesTaken
  <2>3. CASE content' = content + 1 /\ (p12Place' = "bags" => certBags' = 0)
    <3>1. \A k \in DOMAIN p12Found : p12Found[k].content \in Int /\ p12Found[k].content < content
      BY <1>1 DEF ChainInv, PlacesTaken, Places
    <3>2. \A k \in DOMAIN p12Found :
            p12Found[k].content < content' /\ p12Found[k].content # content' - 1
      BY <1>1, <2>3, <3>1
    <3>3. p12Place' = "bags" => 0 .. certBags' - 1 = {}
      BY <2>3
    <3> QED
      BY <1>2, <2>1, <3>2, <3>3 DEF ChainInv, PlacesTaken
  <2> QED
    BY <1>2, <2>2, <2>3
<1>3. CASE UNCHANGED p12Vars
  BY <1>2, <1>3 DEF p12Vars
<1>4. CASE OpenContainer
  BY <1>2, <1>4 DEF OpenContainer
<1>5. CASE EnterContent
  BY <1>2, <1>5 DEF EnterContent, Enter
<1>6. CASE EncryptedContent
  <2>1. content' = content + 1 /\ p12Place' # "bags"
    BY <1>6 DEF EncryptedContent, MoreContents
  <2> QED
    BY <1>2, <1>6, <2>1 DEF EncryptedContent
<1>7. CASE UnreadableContent
  <2>1. content' = content + 1 /\ p12Place' # "bags"
    BY <1>7 DEF UnreadableContent, MoreContents
  <2> QED
    BY <1>2, <1>7, <2>1 DEF UnreadableContent
<1>8. CASE TooManyBags \/ UnreadableBag \/ KeyBag \/ NestedBag \/ OtherBag \/ EndBags
  <2>1. CASE CertBag
    BY <2>1, CertBagChain
  <2>2. CASE ~CertBag
    BY <1>2, <1>8, <2>2, BagStepFacts
  <2> QED
    BY <2>1, <2>2
<1>9. CASE CertBag
  BY <1>9, CertBagChain
<1>10. CASE FinishContents
  BY <1>2, <1>10 DEF FinishContents
<1> QED
  BY <1>3, <1>4, <1>5, <1>6, <1>7, <1>8, <1>9, <1>10 DEF P12Next

-----------------------------------------------------------------------------
(* The dispatch and the theorems.                                          *)

PInv == StackOK /\ CountsOK /\ LimitInv /\ OutcomeInv /\ ChainInv

KeystoreInv == format \in {"jks", "pkcs12", "none"} /\ JksInv /\ PInv

\* The invariant of the containers is inductive.
LEMMA P12Step == PInv /\ [P12Next]_p12Vars => PInv'
<1> SUFFICES ASSUME PInv, [P12Next]_p12Vars PROVE PInv'
  OBVIOUS
<1>1. StackOK /\ CountsOK /\ LimitInv /\ OutcomeInv /\ ChainInv
  BY DEF PInv
<1>2. StackOK' /\ CountsOK'
  BY <1>1, StackStep, CountsStep
<1>3. LimitInv' /\ OutcomeInv' /\ ChainInv'
  BY <1>1, LimitStep, OutcomeStep, ChainStep
<1> QED
  BY <1>2, <1>3 DEF PInv

\* Both invariants hold at first and in every state after: a file is given to one
\* parser, and the variables of the other stay as they were.
THEOREM KeystoreInvariance == KeystoreSpec => []KeystoreInv
<1>1. KeystoreInit => KeystoreInv
  BY JksInitInv, InitStack, InitCounts, InitLimit, InitOutcome, InitChain
     DEF KeystoreInit, KeystoreInv, PInv
<1>2. KeystoreInv /\ [KeystoreNext]_keystoreVars => KeystoreInv'
  <2> SUFFICES ASSUME KeystoreInv, [KeystoreNext]_keystoreVars PROVE KeystoreInv'
    OBVIOUS
  <2>1. format' = format /\ [JksNext]_jksVars /\ [P12Next]_p12Vars
    BY DEF KeystoreNext, keystoreVars
  <2>2. JksInv' /\ PInv'
    BY <2>1, JksStep, P12Step DEF KeystoreInv
  <2> QED
    BY <2>1, <2>2 DEF KeystoreInv
<1> QED
  BY <1>1, <1>2, PTL DEF KeystoreSpec

\* The parsers' variables keep their types.
THEOREM KeystoreTypes == KeystoreSpec => []KeystoreTypeOK
<1>1. KeystoreInv => KeystoreTypeOK
  <2> SUFFICES ASSUME KeystoreInv PROVE KeystoreTypeOK
    OBVIOUS
  <2>1. (p12Place = "bags") = (levels # <<>>)
    BY Zenon DEF KeystoreInv, PInv, StackOK
  <2>2. P12TypeOK
    BY <2>1 DEF KeystoreInv, PInv, StackOK, CountsOK, Places, P12TypeOK
  <2> QED
    BY <2>2 DEF KeystoreInv, JksInv, KeystoreTypeOK
<1> QED
  BY <1>1, KeystoreInvariance, PTL

\* What jks.go reads never exceeds the bytes of the file, whatever the lengths in
\* it claim: no allocation and no loop is paid for by a claim alone.
THEOREM KeystoreWork == KeystoreSpec => []WorkPaidFor
<1>1. KeystoreInv => WorkPaidFor
  BY DEF KeystoreInv, JksInv
<1> QED
  BY <1>1, KeystoreInvariance, PTL

\* maxPKCS12Bags bounds what pkcs12.go looks into in a whole file, and the nesting
\* of its calls is bounded, for any limits.
THEOREM KeystoreBagLimit == KeystoreSpec => []BagLimitKept
<1>1. KeystoreInv => BagLimitKept
  BY DEF KeystoreInv, PInv, LimitInv
<1> QED
  BY <1>1, KeystoreInvariance, PTL

\* The positions pkcs12.go gives to the certificates of a content are those of its
\* certificate bags, at whatever depth they are found.
THEOREM KeystoreChainIndices == KeystoreSpec => []ChainIndicesExact
<1>1. KeystoreInv => ChainIndicesExact
  BY DEF KeystoreInv, PInv, ChainInv
<1> QED
  BY <1>1, KeystoreInvariance, PTL

\* Neither parser drops a part of a keystore without an error: an outcome without
\* one holds all of the file.
THEOREM KeystoreSilence == KeystoreSpec => []SilentMeansComplete
<1>1. KeystoreInv => SilentMeansComplete
  BY DEF KeystoreInv, JksInv, PInv, OutcomeInv, SilentMeansComplete
<1> QED
  BY <1>1, KeystoreInvariance, PTL

\* A file marked as a truststore without an error holds no key and nothing that
\* could hide one.
THEOREM KeystoreMark == KeystoreSpec => []MarkDeserved
<1>1. KeystoreInv => MarkDeserved
  BY DEF KeystoreInv, JksInv, PInv, OutcomeInv, P12SilentMeansComplete,
         P12MarkDeserved, MarkDeserved
<1> QED
  BY <1>1, KeystoreInvariance, PTL

-----------------------------------------------------------------------------
(* The headers of DER elements.  A recursive definition is a CHOOSE of a   *)
(* function that satisfies it: first there is shown to be one, and then    *)
(* what holds of all of its values is found by induction.                  *)

\* Induction, as a fact about sets of numbers: of the sets 0 .. n with n outside
\* S none is minimal.
LEMMA Induction ==
  ASSUME NEW S, 0 \in S, \A n \in Nat : n \in S => n + 1 \in S
  PROVE  Nat \subseteq S
<1> DEFINE T == {0 .. n : n \in Nat \ S}
<1>1. SUFFICES ASSUME T # {} PROVE FALSE
  OBVIOUS
<1>2. T \subseteq FiniteSubsetsOf(Nat)
  <2>1. ASSUME NEW n \in Nat PROVE 0 .. n \in FiniteSubsetsOf(Nat)
    <3>1. IsFiniteSet(0 .. n) /\ 0 .. n \subseteq Nat
      BY FS_Interval
    <3> QED
      BY <3>1 DEF FiniteSubsetsOf
  <2> QED
    BY <2>1
<1>3. PICK x \in T : \A y \in T : <<y, x>> \notin StrictSubsetOrdering(Nat)
  BY <1>1, <1>2, WFMin, FS_StrictSubsetOrderingWellFounded
<1>4. PICK n \in Nat \ S : x = 0 .. n
  BY <1>3
<1>5. n # 0 /\ n - 1 \in Nat /\ (n - 1) + 1 = n
  OBVIOUS
<1>6. n - 1 \in Nat \ S
  BY <1>4, <1>5
<1>7. /\ 0 .. n - 1 \subseteq 0 .. n /\ 0 .. n \subseteq Nat
      /\ n \in 0 .. n /\ n \notin 0 .. n - 1
  BY <1>5
<1>8. <<0 .. n - 1, 0 .. n>> \in StrictSubsetOrdering(Nat)
  <2>1. 0 .. n - 1 # 0 .. n
    BY <1>7
  <2> QED
    BY <1>7, <2>1 DEF StrictSubsetOrdering
<1> QED
  BY <1>3, <1>4, <1>6, <1>8

\* F gives each value of a function from the values at lower ranks, below m.
Ranked(D, V, rank, m, F) ==
  /\ rank \in [D -> Nat] /\ \A i \in D : rank[i] < m
  /\ \A g \in [D -> V] : F[g] \in [D -> V]
  /\ \A g, h \in [D -> V] : \A i \in D :
       (\A j \in D : rank[j] < rank[i] => g[j] = h[j]) => F[g][i] = F[h][i]

Solved(D, V, F) == \E g \in [D -> V] : g = F[g]

\* So a recursive definition whose ranks are bounded has a solution.
LEMMA Solvable ==
  ASSUME NEW D, NEW V, NEW rank, NEW m \in Nat, NEW F,
         Ranked(D, V, rank, m, F), V # {}
  PROVE  Solved(D, V, F)
<1> DEFINE Up(k, g) == \A i \in D : rank[i] < k => g[i] = F[g][i]
           S == {k \in Nat : \E g \in [D -> V] : Up(k, g)}
<1>1. 0 \in S
  <2>1. PICK v \in V : TRUE
    OBVIOUS
  <2>2. [i \in D |-> v] \in [D -> V] /\ \A i \in D : ~(rank[i] < 0)
    BY DEF Ranked
  <2> QED
    BY <2>2
<1>2. ASSUME NEW k \in Nat, k \in S PROVE k + 1 \in S
  <2>1. PICK g \in [D -> V] : Up(k, g)
    BY <1>2
  <2> DEFINE h == [i \in D |-> IF rank[i] = k THEN F[g][i] ELSE g[i]]
  <2>2. h \in [D -> V] /\ F[g] \in [D -> V]
    BY DEF Ranked
  <2>3. \A j \in D : rank[j] < k => h[j] = g[j]
    BY DEF Ranked
  <2>4. ASSUME NEW i \in D, rank[i] < k + 1 PROVE h[i] = F[h][i]
    <3>1. rank[i] \in Nat /\ rank[i] <= k
      BY <2>4 DEF Ranked
    <3>2. \A j \in D : rank[j] < rank[i] => h[j] = g[j]
      BY <2>3, <3>1 DEF Ranked
    <3> HIDE DEF h
    <3>3. F[h][i] = F[g][i]
      BY <2>2, <3>2 DEF Ranked
    <3>4. h[i] = F[g][i]
      BY <2>1, <3>1 DEF h
    <3> QED
      BY <3>3, <3>4
  <2> HIDE DEF h
  <2> QED
    BY <2>2, <2>4
<1>3. m \in S
  <2> HIDE DEF S
  <2> QED
    BY <1>1, <1>2, Induction
<1> QED
  BY <1>3 DEF Ranked, Solved

\* The widths of ints and bytes are numbers.
LEMMA BaseFacts == IntMax \in Nat /\ ByteSize \in Nat /\ LengthBytes \in Nat
BY WidthAssumption

\* The powers are those of ByteSize.
LEMMA PowerFacts ==
  /\ Power \in [0 .. LengthBytes -> Nat]
  /\ Power[0] = 1
  /\ \A k \in 1 .. LengthBytes : Power[k] = ByteSize * Power[k - 1]
<1> DEFINE D == 0 .. LengthBytes
           F == [g \in [D -> Nat] |-> [k \in D |-> IF k = 0 THEN 1 ELSE ByteSize * g[k - 1]]]
           rank == [k \in D |-> k]
           Is(g) == g = [k \in D |-> IF k = 0 THEN 1 ELSE ByteSize * g[k - 1]]
<1>1. ByteSize \in Nat /\ LengthBytes \in Nat
  BY BaseFacts
<1>2. Ranked(D, Nat, rank, LengthBytes + 1, F)
  <2>1. rank \in [D -> Nat] /\ \A i \in D : rank[i] < LengthBytes + 1
    BY <1>1
  <2>2. \A k \in D : k # 0 => k - 1 \in D /\ k - 1 < k
    BY <1>1
  <2>3. ASSUME NEW g \in [D -> Nat] PROVE F[g] \in [D -> Nat]
    <3>1. \A k \in D : k # 0 => g[k - 1] \in Nat
      BY <2>2
    <3>2. \A k \in D : (IF k = 0 THEN 1 ELSE ByteSize * g[k - 1]) \in Nat
      BY <1>1, <3>1
    <3> QED
      BY <3>2
  <2>4. ASSUME NEW g \in [D -> Nat], NEW h \in [D -> Nat], NEW i \in D,
               \A j \in D : rank[j] < rank[i] => g[j] = h[j]
        PROVE  F[g][i] = F[h][i]
    BY <2>2, <2>4
  <2> HIDE DEF D, F, rank
  <2> QED
    BY <2>1, <2>3, <2>4 DEF Ranked
<1>3. Solved(D, Nat, F)
  <2>1. LengthBytes + 1 \in Nat /\ Nat # {}
    BY <1>1
  <2> HIDE DEF D, F, rank
  <2> QED
    BY <1>2, <2>1, Solvable
<1>4. PICK g \in [D -> Nat] : g = F[g]
  BY <1>3 DEF Solved
<1>5. Is(g)
  BY <1>4
<1>6. Power = CHOOSE p : Is(p)
  BY DEF Power
<1>7. Is(Power)
  BY <1>5, <1>6
<1>8. Power[0] = 1 /\ \A k \in 1 .. LengthBytes : Power[k] = ByteSize * Power[k - 1]
  BY <1>1, <1>7
<1>9. Power \in [D -> Nat]
  <2> DEFINE S == {k \in Nat : k \in D => Power[k] \in Nat}
  <2>1. 0 \in S
    BY <1>8
  <2>2. ASSUME NEW k \in Nat, k \in S PROVE k + 1 \in S
    <3>1. k + 1 \in D => k \in D /\ k + 1 \in 1 .. LengthBytes /\ (k + 1) - 1 = k
      BY <1>1
    <3>2. k + 1 \in D => Power[k + 1] = ByteSize * Power[k]
      BY <1>8, <3>1
    <3> QED
      BY <1>1, <2>2, <3>1, <3>2
  <2>3. Nat \subseteq S
    <3> HIDE DEF S
    <3> QED
      BY <2>1, <2>2, Induction
  <2>4. \A k \in D : Power[k] \in Nat
    BY <1>1, <2>3
  <2> QED
    BY <1>7, <2>4
<1> QED
  BY <1>8, <1>9

\* The assumptions leave no room for a base below two.
LEMMA BaseAboveOne == ByteSize \in Nat /\ ByteSize >= 2
<1> SUFFICES ASSUME ByteSize \in {0, 1} PROVE FALSE
  BY BaseFacts
<1> DEFINE S == {k \in Nat : k \in 0 .. LengthBytes => Power[k] \in {0, 1}}
<1>1. 0 \in S
  BY PowerFacts
<1>2. ASSUME NEW k \in Nat, k \in S PROVE k + 1 \in S
  <2>1. k + 1 \in 0 .. LengthBytes =>
          k \in 0 .. LengthBytes /\ k + 1 \in 1 .. LengthBytes /\ (k + 1) - 1 = k
    BY BaseFacts
  <2>2. k + 1 \in 0 .. LengthBytes => Power[k + 1] = ByteSize * Power[k]
    BY <2>1, PowerFacts
  <2> QED
    BY <1>2, <2>1, <2>2
<1>3. Nat \subseteq S
  <2> HIDE DEF S
  <2> QED
    BY <1>1, <1>2, Induction
<1>4. Power[LengthBytes] \in {0, 1}
  BY <1>3, BaseFacts
<1> QED
  BY <1>4, BaseFacts, HeaderAssumption

\* A power is no smaller than those below it.
LEMMA PowersGrow ==
  /\ \A k \in 0 .. LengthBytes : Power[k] \in Nat \ {0}
  /\ \A k \in 0 .. LengthBytes : \A j \in 0 .. k : Power[j] <= Power[k]
<1> DEFINE S == {k \in Nat : k \in 0 .. LengthBytes =>
                    Power[k] > 0 /\ \A j \in 0 .. k : Power[j] <= Power[k]}
<1>1. 0 \in S
  BY PowerFacts
<1>2. ASSUME NEW k \in Nat, k \in S PROVE k + 1 \in S
  <2> SUFFICES ASSUME k + 1 \in 0 .. LengthBytes
               PROVE  Power[k + 1] > 0 /\ \A j \in 0 .. k + 1 : Power[j] <= Power[k + 1]
    OBVIOUS
  <2>1. k \in 0 .. LengthBytes /\ k + 1 \in 1 .. LengthBytes /\ (k + 1) - 1 = k
    BY BaseFacts
  <2>2. Power[k + 1] = ByteSize * Power[k] /\ Power[k] \in Nat /\ Power[k] > 0
    BY <1>2, <2>1, PowerFacts
  <2> DEFINE p == Power[k]
  <2>3. p \in Nat /\ p > 0 /\ ByteSize \in Nat /\ ByteSize >= 2 /\ Power[k + 1] = ByteSize * p
    BY <2>2, BaseAboveOne
  <2> HIDE DEF p
  <2>4. ByteSize * p >= p
    BY <2>3
  <2>5. Power[k + 1] >= p /\ Power[k + 1] \in Nat
    BY <2>3, <2>4
  <2>6. \A j \in 0 .. k : Power[j] <= p /\ Power[j] \in Nat
    <3>1. \A j \in 0 .. k : Power[j] <= p
      BY <1>2, <2>1 DEF p
    <3>2. \A j \in 0 .. k : j \in 0 .. LengthBytes
      BY <2>1, BaseFacts
    <3> QED
      BY <3>1, <3>2, PowerFacts
  <2> QED
    BY <2>3, <2>5, <2>6
<1>3. Nat \subseteq S
  <2> HIDE DEF S
  <2> QED
    BY <1>1, <1>2, Induction
<1> QED
  BY <1>3, PowerFacts, BaseFacts

\* The largest of a set of positions.
LEMMA MaxFacts ==
  ASSUME NEW n \in Nat, NEW s \in SUBSET (1 .. n), s # {}
  PROVE  Max(s) \in s /\ \A i \in s : i <= Max(s)
<1> DEFINE Bounded(k) == \A t \in SUBSET (1 .. k) : t # {} =>
                            \E x \in t : \A y \in t : x >= y
           S == {k \in Nat : Bounded(k)}
<1>1. 0 \in S
  <2>1. 1 .. 0 = {}
    OBVIOUS
  <2> QED
    BY <2>1
<1>2. ASSUME NEW k \in Nat, k \in S PROVE k + 1 \in S
  <2> SUFFICES ASSUME NEW t \in SUBSET (1 .. k + 1), t # {}
               PROVE  \E x \in t : \A y \in t : x >= y
    OBVIOUS
  <2>1. CASE k + 1 \in t
    <3>1. \A y \in t : k + 1 >= y
      OBVIOUS
    <3> QED
      BY <2>1, <3>1
  <2>2. CASE k + 1 \notin t
    <3>1. \A y \in t : y \in 1 .. k
      BY <2>2
    <3>2. t \in SUBSET (1 .. k)
      BY <3>1
    <3> QED
      BY <1>2, <3>2
  <2> QED
    BY <2>1, <2>2
<1>3. Nat \subseteq S
  <2> HIDE DEF S
  <2> QED
    BY <1>1, <1>2, Induction
<1>4. Bounded(n)
  BY <1>3
<1>5. PICK x \in s : \A y \in s : x >= y
  BY <1>4
<1>6. Max(s) \in s /\ \A y \in s : Max(s) >= y
  BY <1>5 DEF Max
<1>7. \A y \in s : y \in Int
  OBVIOUS
<1> QED
  BY <1>6, <1>7

\* v holds what the loop over the digits has after each of them.
Accumulates(digits, v) ==
  /\ v \in [0 .. Len(digits) -> Nat] /\ v[0] = 0
  /\ \A k \in 1 .. Len(digits) : v[k] = (v[k - 1] * ByteSize) + digits[k]

\* LengthOf is what the loop has in the end.
LEMMA LengthAccumulates ==
  ASSUME NEW digits \in Seq(Nat)
  PROVE  \E v : Accumulates(digits, v) /\ LengthOf(digits) = v[Len(digits)]
<1> DEFINE n == Len(digits)
           D == SUBSET (1 .. n)
           Step(g, s) == IF s = {} THEN 0
                         ELSE (g[s \ {Max(s)}] * ByteSize) + digits[Max(s)]
           F == [g \in [D -> Nat] |-> [s \in D |-> Step(g, s)]]
           rank == [s \in D |-> IF s = {} THEN 0 ELSE Max(s)]
           Is(g) == g = [s \in D |-> Step(g, s)]
           iter == CHOOSE g : Is(g)
<1>1. n \in Nat /\ DOMAIN digits = 1 .. n /\ ByteSize \in Nat /\ \A i \in 1 .. n : digits[i] \in Nat
  BY BaseFacts
<1>2. \A s \in D : s # {} => Max(s) \in s /\ \A i \in s : i <= Max(s)
  BY <1>1, MaxFacts
<1>3. Ranked(D, Nat, rank, n + 1, F)
  <2>1. rank \in [D -> Nat] /\ \A s \in D : rank[s] < n + 1
    <3>1. \A s \in D : (IF s = {} THEN 0 ELSE Max(s)) \in 0 .. n
      <4> TAKE s \in D
      <4>1. s # {} => Max(s) \in 1 .. n
        BY <1>2
      <4> QED
        BY <1>1, <4>1
    <3>2. \A s \in D : rank[s] \in 0 .. n
      BY <3>1
    <3>3. \A i \in 0 .. n : i \in Nat /\ i < n + 1
      BY <1>1
    <3> QED
      BY <3>2, <3>3
  <2>2. \A s \in D : s # {} =>
          s \ {Max(s)} \in D /\ rank[s \ {Max(s)}] < rank[s] /\ digits[Max(s)] \in Nat
    <3> SUFFICES ASSUME NEW s \in D, s # {}
                 PROVE  s \ {Max(s)} \in D /\ rank[s \ {Max(s)}] < rank[s] /\ digits[Max(s)] \in Nat
      OBVIOUS
    <3> DEFINE r == s \ {Max(s)}
    <3>1. r \in D /\ Max(s) \in 1 .. n /\ rank[s] = Max(s)
      BY <1>2
    <3>2. CASE r = {}
      BY <3>1, <3>2, <1>1
    <3>3. CASE r # {}
      <4>1. Max(r) \in r
        BY <1>2, <3>1, <3>3
      <4>2. Max(r) <= Max(s) /\ Max(r) # Max(s) /\ Max(r) \in 1 .. n
        BY <1>2, <3>1, <4>1
      <4>3. Max(r) < Max(s)
        BY <4>2, <3>1
      <4> QED
        BY <3>1, <3>3, <4>3, <1>1
    <3> QED
      BY <3>2, <3>3
  <2>3. ASSUME NEW g \in [D -> Nat] PROVE F[g] \in [D -> Nat]
    <3>1. \A s \in D : Step(g, s) \in Nat
      <4> TAKE s \in D
      <4>1. CASE s = {}
        BY <4>1
      <4>2. CASE s # {}
        <5> DEFINE a == g[s \ {Max(s)}]  b == digits[Max(s)]
        <5>1. a \in Nat /\ b \in Nat
          BY <2>2, <4>2
        <5>2. Step(g, s) = (a * ByteSize) + b
          BY <4>2
        <5> HIDE DEF a, b
        <5> QED
          BY <1>1, <5>1, <5>2
      <4> QED
        BY <4>1, <4>2
    <3> HIDE DEF Step
    <3> QED
      BY <3>1
  <2>4. ASSUME NEW g \in [D -> Nat], NEW h \in [D -> Nat], NEW s \in D,
               \A t \in D : rank[t] < rank[s] => g[t] = h[t]
        PROVE  F[g][s] = F[h][s]
    <3>1. Step(g, s) = Step(h, s)
      BY <2>2, <2>4
    <3> HIDE DEF Step
    <3> QED
      BY <3>1
  <2> HIDE DEF D, F, rank
  <2> QED
    BY <2>1, <2>3, <2>4 DEF Ranked
<1>4. Solved(D, Nat, F)
  <2>1. n + 1 \in Nat /\ Nat # {}
    BY <1>1
  <2> HIDE DEF D, F, rank
  <2> QED
    BY <1>3, <2>1, Solvable
<1>5. PICK g \in [D -> Nat] : g = F[g]
  BY <1>4 DEF Solved
<1>6. Is(g)
  <2> HIDE DEF Step
  <2> QED
    BY <1>5
<1>7. Is(iter)
  BY <1>6
<1>8. LengthOf(digits) = iter[1 .. n]
  BY <1>1 DEF LengthOf, FoldLeft, MapThenFoldSet
<1> DEFINE v == [k \in 0 .. n |-> iter[1 .. k]]
<1>9. \A s \in D : iter[s] = Step(iter, s)
  <2> HIDE DEF Step, iter
  <2> QED
    BY <1>7
<1>10. v[0] = 0
  <2>1. 1 .. 0 = {} /\ {} \in D /\ 0 \in 0 .. n
    BY <1>1
  <2>2. iter[{}] = 0
    BY <1>9, <2>1
  <2> HIDE DEF iter
  <2> QED
    BY <2>1, <2>2
<1>11. \A k \in 1 .. n : v[k] = (v[k - 1] * ByteSize) + digits[k]
  <2> TAKE k \in 1 .. n
  <2>1. 1 .. k \in D /\ 1 .. k # {} /\ k \in 1 .. k /\ \A i \in 1 .. k : i <= k
    BY <1>1
  <2>2. Max(1 .. k) = k
    <3>1. Max(1 .. k) \in 1 .. k /\ k <= Max(1 .. k)
      BY <1>2, <2>1
    <3> QED
      BY <3>1
  <2>3. (1 .. k) \ {k} = 1 .. k - 1
    OBVIOUS
  <2>4. iter[1 .. k] = (iter[1 .. k - 1] * ByteSize) + digits[k]
    BY <1>9, <2>1, <2>2, <2>3
  <2>5. k \in 0 .. n /\ k - 1 \in 0 .. n
    BY <1>1
  <2> HIDE DEF iter
  <2> QED
    BY <2>4, <2>5
<1>12. v \in [0 .. n -> Nat]
  <2> DEFINE S == {k \in Nat : k \in 0 .. n => v[k] \in Nat}
  <2>1. 0 \in S
    BY <1>10
  <2> HIDE DEF v
  <2>2. ASSUME NEW k \in Nat, k \in S PROVE k + 1 \in S
    <3>1. k + 1 \in 0 .. n => k \in 0 .. n /\ k + 1 \in 1 .. n /\ (k + 1) - 1 = k
      BY <1>1
    <3>2. SUFFICES ASSUME k + 1 \in 0 .. n PROVE v[k + 1] \in Nat
      OBVIOUS
    <3>3. v[k + 1] = (v[k] * ByteSize) + digits[k + 1]
      BY <1>11, <3>1, <3>2
    <3> DEFINE a == v[k]  b == digits[k + 1]
    <3>4. a \in Nat /\ b \in Nat
      BY <1>1, <2>2, <3>1, <3>2
    <3> HIDE DEF a, b
    <3>5. (a * ByteSize) + b \in Nat
      BY <1>1, <3>4
    <3> QED
      BY <3>3, <3>5 DEF a, b
  <2>3. Nat \subseteq S
    <3> HIDE DEF S
    <3> QED
      BY <2>1, <2>2, Induction
  <2>4. \A k \in 0 .. n : v[k] \in Nat
    BY <1>1, <2>3
  <2> QED
    BY <2>4 DEF v
<1>13. LengthOf(digits) = v[n] /\ n \in 0 .. n
  <2>1. n \in 0 .. n
    BY <1>1
  <2> HIDE DEF iter
  <2> QED
    BY <1>8, <2>1
<1> HIDE DEF v
<1> QED
  BY <1>10, <1>11, <1>12, <1>13 DEF Accumulates

\* The digits of a number, and what is before the last of them.
LEMMA LastDigit ==
  ASSUME NEW v \in Nat, NEW b \in Nat \ {0}, NEW d \in 0 .. b - 1
  PROVE  /\ ((v * b) + d) \div b = v
         /\ ((v * b) + d) % b = d
OBVIOUS

\* The length bytes of a header: as few as can be.
Digits(length, top) ==
  [i \in 1 .. top |-> (length \div Power[top - i]) % ByteSize]

\* So many digits are needed for the length, and no fewer.
IsTop(length, k) ==
  k \in 1 .. LengthBytes /\ length < Power[k] /\ (k = 1 \/ length >= Power[k - 1])

\* There is just one number of digits for a length.
LEMMA TopUnique ==
  ASSUME NEW length \in Nat, NEW j, NEW k, IsTop(length, j), IsTop(length, k)
  PROVE  j = k
<1>1. \A a, b \in 1 .. LengthBytes : a < b => Power[a] <= Power[b - 1]
  <2> TAKE a, b \in 1 .. LengthBytes
  <2>1. a < b => b - 1 \in 0 .. LengthBytes /\ a \in 0 .. b - 1
    BY BaseFacts
  <2> QED
    BY <2>1, PowersGrow
<1>2. \A a \in 1 .. LengthBytes : Power[a] \in Nat /\ Power[a - 1] \in Nat
  BY BaseFacts, PowerFacts
<1>3. j \in 1 .. LengthBytes /\ k \in 1 .. LengthBytes
  BY DEF IsTop
<1>4. ~(j < k)
  BY <1>1, <1>2, <1>3, BaseFacts DEF IsTop
<1>5. ~(k < j)
  BY <1>1, <1>2, <1>3, BaseFacts DEF IsTop
<1> QED
  BY <1>3, <1>4, <1>5, BaseFacts

\* And there is one for each length that fits in so many bytes.
LEMMA TopExists ==
  ASSUME NEW length \in 0 .. 2 * IntMax + 1, length >= 1
  PROVE  \E k : IsTop(length, k)
<1> SUFFICES ASSUME \A k : ~IsTop(length, k) PROVE FALSE
  OBVIOUS
<1> DEFINE S == {k \in Nat : k \in 0 .. LengthBytes => Power[k] <= length}
<1>1. 0 \in S
  BY PowerFacts, BaseFacts
<1>2. ASSUME NEW k \in Nat, k \in S PROVE k + 1 \in S
  <2> SUFFICES ASSUME k + 1 \in 0 .. LengthBytes, length < Power[k + 1] PROVE FALSE
    BY PowerFacts, BaseFacts
  <2>1. k \in 0 .. LengthBytes /\ k + 1 \in 1 .. LengthBytes /\ (k + 1) - 1 = k
    BY BaseFacts
  <2>2. length >= Power[k]
    BY <1>2, <2>1, PowerFacts, BaseFacts
  <2>3. IsTop(length, k + 1)
    BY <2>1, <2>2 DEF IsTop
  <2> QED
    BY <2>3
<1>3. Nat \subseteq S
  <2> HIDE DEF S
  <2> QED
    BY <1>1, <1>2, Induction
<1>4. Power[LengthBytes] <= length /\ Power[LengthBytes] \in Nat
  BY <1>3, BaseFacts, PowerFacts
<1> QED
  BY <1>4, BaseFacts, HeaderAssumption

\* The header of a length, by the number of its digits.
LEMMA HeaderForm ==
  ASSUME NEW tag, NEW length \in Nat, NEW k, IsTop(length, k), length >= ByteSize \div 2
  PROVE  Header(tag, length) = <<tag, ByteSize \div 2 + k>> \o Digits(length, k)
<1> DEFINE top == CHOOSE j \in 1 .. LengthBytes :
                    length < Power[j] /\ (j = 1 \/ length >= Power[j - 1])
<1>1. IsTop(length, top)
  BY DEF IsTop
<1>2. top = k
  <2> HIDE DEF top
  <2> QED
    BY <1>1, TopUnique
<1>3. Header(tag, length) = <<tag, ByteSize \div 2 + top>>
            \o [i \in 1 .. top |-> (length \div Power[top - i]) % ByteSize]
  <2>1. ~(length < ByteSize \div 2)
    BY BaseAboveOne
  <2> QED
    BY <2>1 DEF Header
<1> HIDE DEF top
<1> QED
  BY <1>2, <1>3 DEF Digits

\* Digits without a leading zero accumulate within the powers of the base.
LEMMA AccumulatedRange ==
  ASSUME NEW digits \in Seq(0 .. ByteSize - 1), NEW v, Accumulates(digits, v),
         Len(digits) \in 1 .. LengthBytes, digits[1] # 0
  PROVE  \A k \in 1 .. Len(digits) : Power[k - 1] <= v[k] /\ v[k] < Power[k]
<1> DEFINE n == Len(digits)
           S == {j \in Nat : j + 1 \in 1 .. n => Power[j] <= v[j + 1] /\ v[j + 1] < Power[j + 1]}
<1>1. /\ n \in Nat /\ n <= LengthBytes /\ ByteSize \in Nat /\ ByteSize >= 2
      /\ \A i \in 1 .. n : digits[i] \in 0 .. ByteSize - 1
  BY BaseFacts, BaseAboveOne
<1>2. \A k \in 0 .. n : k \in 0 .. LengthBytes
  BY <1>1, BaseFacts
<1>3. 0 \in S
  <2>1. Power[1] = ByteSize * 1 /\ Power[0] = 1
    BY <1>1, PowerFacts, BaseFacts
  <2>2. v[1] = (0 * ByteSize) + digits[1] /\ digits[1] \in 0 .. ByteSize - 1 /\ digits[1] # 0
    BY <1>1 DEF Accumulates
  <2> QED
    BY <1>1, <2>1, <2>2
<1>4. ASSUME NEW j \in Nat, j \in S PROVE j + 1 \in S
  <2> SUFFICES ASSUME (j + 1) + 1 \in 1 .. n
               PROVE  Power[j + 1] <= v[(j + 1) + 1] /\ v[(j + 1) + 1] < Power[(j + 1) + 1]
    OBVIOUS
  <2>1. /\ j \in 0 .. LengthBytes /\ j + 1 \in 1 .. LengthBytes
        /\ (j + 1) + 1 \in 1 .. LengthBytes /\ j + 1 \in 1 .. n
        /\ (j + 1) - 1 = j /\ ((j + 1) + 1) - 1 = j + 1
    BY <1>1, BaseFacts
  <2> DEFINE a == Power[j]  b == Power[j + 1]  c == Power[(j + 1) + 1]
             x == v[j + 1]  y == v[(j + 1) + 1]  d == digits[(j + 1) + 1]
  <2>2. a \in Nat /\ b = ByteSize * a /\ c = ByteSize * b /\ b \in Nat
    <3>1. /\ Power[j + 1] = ByteSize * Power[(j + 1) - 1]
          /\ Power[(j + 1) + 1] = ByteSize * Power[((j + 1) + 1) - 1]
      BY <2>1, PowerFacts
    <3>2. a \in Nat /\ b \in Nat
      <4>1. j + 1 \in 0 .. LengthBytes
        BY <2>1, BaseFacts
      <4> QED
        BY <2>1, <4>1, PowerFacts
    <3> QED
      BY <2>1, <3>1, <3>2
  <2>3. x \in Nat /\ y = (x * ByteSize) + d /\ d \in 0 .. ByteSize - 1
    <3>1. j + 1 \in 0 .. n /\ (j + 1) + 1 \in 1 .. n
      BY <1>1, <2>1
    <3>2. v[(j + 1) + 1] = (v[((j + 1) + 1) - 1] * ByteSize) + digits[(j + 1) + 1]
      BY <3>1 DEF Accumulates
    <3>3. v[j + 1] \in Nat
      BY <3>1 DEF Accumulates
    <3> QED
      BY <1>1, <2>1, <3>1, <3>2, <3>3
  <2>4. a <= x /\ x < b
    BY <1>4, <2>1
  <2> HIDE DEF a, b, c, x, y, d
  <2>5. ByteSize * a <= x * ByteSize
    BY <1>1, <2>2, <2>3, <2>4
  <2>6. (x + 1) * ByteSize <= ByteSize * b
    BY <1>1, <2>2, <2>3, <2>4
  <2>7. b <= y /\ y < c
    <3>1. (x + 1) * ByteSize = (x * ByteSize) + ByteSize
      BY <1>1, <2>3
    <3>2. ByteSize * a \in Nat /\ x * ByteSize \in Nat /\ ByteSize * b \in Nat
      BY <1>1, <2>2, <2>3
    <3> DEFINE z == x * ByteSize  e == ByteSize * b
    <3>3. z \in Nat /\ e \in Nat /\ b <= z /\ z + ByteSize <= e /\ y = z + d /\ c = e
      BY <2>2, <2>3, <2>5, <2>6, <3>1, <3>2
    <3> HIDE DEF z, e
    <3> QED
      BY <1>1, <2>2, <2>3, <3>3
  <2> QED
    BY <2>7 DEF b, c, y
<1>5. Nat \subseteq S
  <2> HIDE DEF S
  <2> QED
    BY <1>3, <1>4, Induction
<1> SUFFICES ASSUME NEW k \in 1 .. Len(digits) PROVE Power[k - 1] <= v[k] /\ v[k] < Power[k]
  OBVIOUS
<1>6. k - 1 \in Nat /\ (k - 1) + 1 = k
  BY <1>1
<1> QED
  BY <1>5, <1>6

\* Divided by p, y has d as its last digit, and x before that.
LastDigitIs(y, p, b, x, d) ==
  /\ y \in Nat /\ p \in Nat \ {0} /\ b \in Nat \ {0}
  /\ x \in Nat /\ d \in 0 .. b - 1 /\ y \div p = (x * b) + d

\* Division by the next power drops the last digit.
LEMMA DropDigit ==
  ASSUME NEW y, NEW p, NEW b, NEW x, NEW d, LastDigitIs(y, p, b, x, d),
         NEW q, q = b * p
  PROVE  y \div q = x
<1> DEFINE r == y % p  w == (d * p) + r
<1>1. /\ y \in Nat /\ p \in Nat \ {0} /\ b \in Nat \ {0}
      /\ x \in Nat /\ d \in 0 .. b - 1 /\ y \div p = (x * b) + d
  BY DEF LastDigitIs
<1>2. r \in 0 .. p - 1 /\ y = ((y \div p) * p) + r
  BY <1>1
<1> HIDE DEF r
<1>3. y = (x * (b * p)) + w
  BY <1>1, <1>2
<1>4. w \in Nat /\ w < b * p
  <2>1. (d * p) + r < (d + 1) * p /\ (d * p) + r \in Nat
    BY <1>1, <1>2
  <2>2. (d + 1) * p <= b * p
    BY <1>1
  <2>3. (d + 1) * p \in Nat /\ b * p \in Nat
    BY <1>1
  <2> QED
    BY <2>1, <2>2, <2>3
<1> HIDE DEF w
<1>5. q \in Nat \ {0} /\ w \in 0 .. q - 1 /\ y = (x * q) + w
  BY <1>1, <1>3, <1>4
<1> QED
  BY <1>1, <1>5

\* What the loop has after some digits is the length without the others.
LEMMA AccumulatedPrefix ==
  ASSUME NEW digits \in Seq(0 .. ByteSize - 1), NEW v, Accumulates(digits, v),
         Len(digits) \in 1 .. LengthBytes
  PROVE  \A k \in 0 .. Len(digits) : v[Len(digits)] \div Power[Len(digits) - k] = v[k]
<1> DEFINE n == Len(digits)
           length == v[n]
           S == {j \in Nat : j \in 0 .. n => length \div Power[j] = v[n - j]}
<1>1. /\ n \in Nat /\ n <= LengthBytes /\ ByteSize \in Nat \ {0} /\ ByteSize \in Nat /\ ByteSize >= 2
      /\ \A i \in 1 .. n : digits[i] \in 0 .. ByteSize - 1
  BY BaseFacts, BaseAboveOne
<1>2. length \in Nat
  BY <1>1 DEF Accumulates
<1>3. 0 \in S
  <2>1. length \div 1 = length
    BY <1>2
  <2> QED
    BY <1>1, <2>1, PowerFacts
<1>4. ASSUME NEW j \in Nat, j \in S PROVE j + 1 \in S
  <2> SUFFICES ASSUME j + 1 \in 0 .. n
               PROVE  length \div Power[j + 1] = v[n - (j + 1)]
    OBVIOUS
  <2>1. /\ j \in 0 .. n /\ j \in 0 .. LengthBytes /\ j + 1 \in 1 .. LengthBytes
        /\ (j + 1) - 1 = j /\ n - j \in 1 .. n /\ (n - j) - 1 = n - (j + 1)
        /\ n - (j + 1) \in 0 .. n
    BY <1>1, BaseFacts
  <2> DEFINE p == Power[j]  x == v[n - (j + 1)]  d == digits[n - j]
  <2>2. p \in Nat \ {0} /\ Power[j + 1] = ByteSize * p
    BY <2>1, PowerFacts, PowersGrow
  <2>3. x \in Nat /\ d \in 0 .. ByteSize - 1 /\ length \div p = (x * ByteSize) + d
    <3>1. v[n - j] = (v[(n - j) - 1] * ByteSize) + digits[n - j]
      BY <2>1 DEF Accumulates
    <3>2. x \in Nat
      BY <2>1 DEF Accumulates
    <3>3. length \div p = v[n - j]
      BY <1>4, <2>1
    <3> QED
      BY <1>1, <2>1, <3>1, <3>2, <3>3
  <2> HIDE DEF p, x, d, length
  <2> DEFINE q == Power[j + 1]
  <2>4. q = ByteSize * p /\ LastDigitIs(length, p, ByteSize, x, d)
    BY <1>1, <1>2, <2>2, <2>3 DEF LastDigitIs
  <2> HIDE DEF q
  <2>5. length \div q = x
    BY <2>4, DropDigit
  <2> QED
    BY <2>5 DEF q, x
<1>5. Nat \subseteq S
  <2> HIDE DEF S
  <2> QED
    BY <1>3, <1>4, Induction
<1> SUFFICES ASSUME NEW k \in 0 .. n PROVE length \div Power[n - k] = v[k]
  OBVIOUS
<1>6. n - k \in Nat /\ n - k \in 0 .. n /\ n - (n - k) = k
  BY <1>1
<1> QED
  BY <1>5, <1>6

\* The length bytes of an accepted header are those DER gives the length.
LEMMA HeaderOfDigits ==
  ASSUME NEW tag, NEW digits \in Seq(0 .. ByteSize - 1),
         Len(digits) \in 1 .. LengthBytes, digits[1] # 0,
         LengthOf(digits) >= ByteSize \div 2
  PROVE  /\ LengthOf(digits) \in Nat
         /\ Header(tag, LengthOf(digits)) = <<tag, ByteSize \div 2 + Len(digits)>> \o digits
<1> DEFINE n == Len(digits)  length == LengthOf(digits)
<1>1. /\ n \in Nat /\ n \in 1 .. n /\ n \in 1 .. LengthBytes /\ ByteSize \in Nat \ {0} /\ ByteSize \in Nat /\ ByteSize >= 2
      /\ \A i \in 1 .. n : digits[i] \in 0 .. ByteSize - 1
  BY BaseFacts, BaseAboveOne
<1>2. digits \in Seq(Nat)
  <2>1. \A i \in 1 .. Len(digits) : digits[i] \in Nat
    BY <1>1
  <2> QED
    BY <2>1
<1>3. PICK v : Accumulates(digits, v) /\ length = v[n]
  BY <1>2, LengthAccumulates
<1>4. length \in Nat
  <2>1. v \in [0 .. Len(digits) -> Nat]
    BY <1>3 DEF Accumulates
  <2>2. n \in 0 .. Len(digits)
    BY <1>1
  <2> HIDE DEF length, n
  <2> QED
    BY <1>3, <2>1, <2>2
<1>5. IsTop(length, n)
  <2>1. Power[n - 1] <= v[n] /\ v[n] < Power[n]
    BY <1>1, <1>3, AccumulatedRange
  <2> HIDE DEF length
  <2> QED
    BY <1>1, <1>3, <2>1 DEF IsTop
<1>6. Digits(length, n) = digits
  <2>1. ASSUME NEW i \in 1 .. n PROVE (length \div Power[n - i]) % ByteSize = digits[i]
    <3>1. i \in 0 .. n /\ i - 1 \in 0 .. n
      BY <1>1
    <3>2. v[n] \div Power[n - i] = v[i]
      BY <1>1, <1>3, <3>1, AccumulatedPrefix
    <3>3. v[i] = (v[i - 1] * ByteSize) + digits[i] /\ v[i - 1] \in Nat
      BY <1>3, <3>1 DEF Accumulates
    <3>4. ((v[i - 1] * ByteSize) + digits[i]) % ByteSize = digits[i]
      BY <1>1, <3>3, LastDigit, Zenon
    <3> HIDE DEF length
    <3> QED
      BY <1>3, <3>2, <3>3, <3>4
  <2>2. DOMAIN digits = 1 .. n /\ digits = [i \in 1 .. n |-> digits[i]]
    OBVIOUS
  <2>3. Digits(length, n) = [i \in 1 .. n |-> digits[i]]
    <3> HIDE DEF length, n
    <3> QED
      BY <2>1 DEF Digits
  <2> QED
    BY <2>2, <2>3
<1>7. Header(tag, length) = <<tag, ByteSize \div 2 + n>> \o Digits(length, n)
  <2> HIDE DEF length, n
  <2> QED
    BY <1>4, <1>5, HeaderForm DEF length
<1> QED
  BY <1>4, <1>6, <1>7

\* And the digits DER gives a length accumulate to it.
LEMMA DigitsOfHeader ==
  ASSUME NEW length \in Nat, NEW n, IsTop(length, n), length >= 1
  PROVE  /\ Digits(length, n) \in Seq(0 .. ByteSize - 1) /\ Len(Digits(length, n)) = n
         /\ Digits(length, n)[1] # 0 /\ LengthOf(Digits(length, n)) = length
<1> DEFINE digits == Digits(length, n)
           w == [k \in 0 .. n |-> length \div Power[n - k]]
<1>1. /\ n \in Nat /\ n \in 1 .. LengthBytes /\ ByteSize \in Nat \ {0} /\ ByteSize >= 2
      /\ \A k \in 0 .. n : n - k \in 0 .. LengthBytes
  BY BaseFacts, BaseAboveOne DEF IsTop
<1>2. \A k \in 0 .. n : Power[n - k] \in Nat \ {0}
  BY <1>1, PowersGrow
<1>3. \A k \in 0 .. n : length \div Power[n - k] \in Nat
  <2> TAKE k \in 0 .. n
  <2>1. \A p \in Nat \ {0} : length \div p \in Nat
    OBVIOUS
  <2> QED
    BY <1>2, <2>1
<1>4. \A k \in 1 .. n : (length \div Power[n - k]) % ByteSize \in 0 .. ByteSize - 1
  <2>1. \A x \in Nat : x % ByteSize \in 0 .. ByteSize - 1
    BY <1>1
  <2> QED
    BY <1>1, <1>3, <2>1
<1>5. /\ digits \in Seq(0 .. ByteSize - 1) /\ Len(digits) = n
      /\ \A k \in 1 .. n : digits[k] = (length \div Power[n - k]) % ByteSize
  BY <1>1, <1>4 DEF Digits
<1>6. \A k \in 1 .. n : w[k] = (w[k - 1] * ByteSize) + digits[k]
  <2> TAKE k \in 1 .. n
  <2> DEFINE p == Power[n - k]  x == length \div p
  <2>1. k \in 0 .. n /\ k - 1 \in 0 .. n /\ n - (k - 1) \in 1 .. LengthBytes
        /\ (n - (k - 1)) - 1 = n - k
    BY <1>1
  <2>2. Power[n - (k - 1)] = ByteSize * p /\ p \in Nat \ {0}
    BY <1>2, <2>1, PowerFacts
  <2>3. w[k] = x /\ w[k - 1] = length \div (ByteSize * p) /\ x \in Nat /\ digits[k] = x % ByteSize
    BY <1>3, <1>5, <2>1, <2>2
  <2> HIDE DEF p
  <2>4. length \div (ByteSize * p) = x \div ByteSize
    <3>1. x = ((x \div ByteSize) * ByteSize) + (x % ByteSize)
          /\ x \div ByteSize \in Nat /\ x % ByteSize \in 0 .. ByteSize - 1
      <4>1. x \in Nat /\ ByteSize \in Nat \ {0}
        BY <1>1, <2>3
      <4> HIDE DEF x
      <4> QED
        BY <4>1
    <3>2. LastDigitIs(length, p, ByteSize, x \div ByteSize, x % ByteSize)
      BY <1>1, <2>2, <3>1 DEF LastDigitIs
    <3> QED
      BY <3>2, DropDigit
  <2> HIDE DEF x, w
  <2>5. x = ((x \div ByteSize) * ByteSize) + (x % ByteSize)
    BY <1>1, <2>3
  <2> QED
    BY <2>3, <2>4, <2>5
<1>7. w[0] = 0 /\ w[n] = length
  <2>1. 0 \in 0 .. n /\ n \in 0 .. n /\ n - 0 = n /\ n - n = 0
    BY <1>1
  <2>2. length < Power[n] /\ Power[n] \in Nat
    BY <1>1, <1>2, <2>1 DEF IsTop
  <2>3. \A p \in Nat : length < p => length \div p = 0
    OBVIOUS
  <2>4. length \div 1 = length
    OBVIOUS
  <2> QED
    BY <2>1, <2>2, <2>3, <2>4, PowerFacts
<1>8. digits[1] # 0
  <2>1. 1 \in 1 .. n /\ 1 \in 0 .. n /\ 0 \in 0 .. n /\ n - 1 \in 0 .. LengthBytes
    BY <1>1
  <2>2. w[1] = digits[1]
    <3>1. w[1] = (w[1 - 1] * ByteSize) + digits[1]
      BY <1>6, <2>1
    <3> HIDE DEF w, digits
    <3>2. (0 * ByteSize) + digits[1] = digits[1]
      BY <1>1, <1>4, <1>5, <2>1
    <3> QED
      BY <1>7, <3>1, <3>2
  <2>3. length >= Power[n - 1] /\ Power[n - 1] \in Nat \ {0}
    <3>1. Power[n - 1] \in Nat \ {0}
      BY <1>2, <2>1
    <3>2. n = 1 => Power[n - 1] = 1
      BY PowerFacts
    <3>3. n = 1 \/ length >= Power[n - 1]
      BY DEF IsTop
    <3>4. length >= 1
      BY <1>1
    <3> QED
      BY <3>1, <3>2, <3>3, <3>4
  <2>4. \A p \in Nat \ {0} : length >= p => length \div p # 0
    OBVIOUS
  <2>5. w[1] # 0
    BY <2>1, <2>3, <2>4
  <2> QED
    BY <2>2, <2>5
<1> HIDE DEF w, digits
<1>9. digits \in Seq(Nat)
  BY <1>1, <1>4, <1>5
<1>10. PICK v : Accumulates(digits, v) /\ LengthOf(digits) = v[Len(digits)]
  BY <1>9, LengthAccumulates
<1>11. v[n] = w[n]
  <2> DEFINE S == {k \in Nat : k \in 0 .. n => v[k] = w[k]}
  <2>1. 0 \in S
    BY <1>7, <1>10 DEF Accumulates
  <2>2. ASSUME NEW k \in Nat, k \in S PROVE k + 1 \in S
    <3>1. k + 1 \in 0 .. n => k \in 0 .. n /\ k + 1 \in 1 .. n /\ (k + 1) - 1 = k
      BY <1>1
    <3>2. k + 1 \in 0 .. n => v[k + 1] = (v[k] * ByteSize) + digits[k + 1]
      BY <1>5, <1>10, <3>1 DEF Accumulates
    <3>3. k + 1 \in 0 .. n => w[k + 1] = (w[k] * ByteSize) + digits[k + 1]
      BY <1>6, <3>1
    <3> QED
      BY <2>2, <3>1, <3>2, <3>3
  <2>3. Nat \subseteq S
    <3> HIDE DEF S
    <3> QED
      BY <2>1, <2>2, Induction
  <2> QED
    BY <1>1, <2>3
<1> QED
  BY <1>5, <1>7, <1>8, <1>10, <1>11 DEF digits

\* A sequence is one of whatever its elements are.
LEMMA SeqOfElements ==
  ASSUME NEW S, NEW T, NEW s \in Seq(S), \A i \in 1 .. Len(s) : s[i] \in T
  PROVE  s \in Seq(T)
<1>1. s \in [1 .. Len(s) -> S] /\ Len(s) \in Nat
  BY LenProperties
<1>2. s \in [1 .. Len(s) -> T]
  BY <1>1
<1> QED
  BY <1>1, <1>2, SeqDef

\* s is data behind a position, for as long as count.
Slice(s, data, position, count) ==
  /\ s \in Seq(Nat) /\ Len(s) = count
  /\ \A i \in 1 .. count : s[i] = data[position + i]

\* A subsequence is one.
LEMMA SubSeqIsSlice ==
  ASSUME NEW data \in Seq(Nat), NEW position \in Nat, NEW count \in Nat,
         NEW first, first = position + 1,
         NEW last, last = position + count, last <= Len(data)
  PROVE  Slice(SubSeq(data, first, last), data, position, count)
<1>1. Len(data) \in Nat /\ first \in Nat /\ first >= 1 /\ last \in Nat
  OBVIOUS
<1>2. SubSeq(data, first, last) = [i \in 1 .. last - first + 1 |-> data[first + i - 1]]
  OBVIOUS
<1>3. last - first + 1 = count /\ \A i \in 1 .. count : first + i - 1 = position + i
  OBVIOUS
<1>4. SubSeq(data, first, last) = [i \in 1 .. count |-> data[position + i]]
  BY <1>2, <1>3
<1>5. \A i \in 1 .. count : data[position + i] \in Nat
  <2>1. \A i \in 1 .. count : position + i \in 1 .. Len(data)
    BY <1>1
  <2> QED
    BY <2>1
<1> QED
  BY <1>4, <1>5 DEF Slice

\* The length bytes of a header in the long form.
LongForm(digits, length) ==
  /\ digits \in Seq(0 .. ByteSize - 1) /\ Len(digits) \in 1 .. LengthBytes
  /\ digits[1] # 0 /\ length = LengthOf(digits) /\ length >= ByteSize \div 2

\* The bit that marks the long form is worth something.
LEMMA HalfBase == ByteSize \div 2 \in Nat \ {0}
BY BaseAboveOne

\* Length bytes in that form are what DER puts in the header.
LEMMA LongHeader ==
  ASSUME NEW tag, NEW digits, NEW length, LongForm(digits, length)
  PROVE  /\ length \in Nat
         /\ Header(tag, length) = <<tag, ByteSize \div 2 + Len(digits)>> \o digits
BY HeaderOfDigits DEF LongForm

\* A header has the short form or the long one.
LEMMA HeaderShape ==
  ASSUME NEW tag, NEW length \in 0 .. 2 * IntMax + 1
  PROVE  \/ length < ByteSize \div 2 /\ Header(tag, length) = <<tag, length>>
         \/ \E digits : /\ LongForm(digits, length)
                        /\ Header(tag, length) = <<tag, ByteSize \div 2 + Len(digits)>> \o digits
<1>1. CASE length < ByteSize \div 2
  BY <1>1 DEF Header
<1>2. CASE ~(length < ByteSize \div 2)
  <2>1. length \in Nat /\ length >= ByteSize \div 2 /\ length >= 1
    BY <1>2, HalfBase, BaseFacts
  <2>2. PICK n : IsTop(length, n)
    BY <2>1, TopExists
  <2>3. LongForm(Digits(length, n), length)
    <3>1. n \in 1 .. LengthBytes
      BY <2>2 DEF IsTop
    <3> QED
      BY <2>1, <2>2, <3>1, DigitsOfHeader DEF LongForm
  <2> QED
    BY <2>3, LongHeader
<1> QED
  BY <1>1, <1>2

\* The bytes of data from an offset on are those of s, for as long as s is.
Begins(s, data, start) ==
  /\ start + Len(s) <= Len(data)
  /\ \A i \in 1 .. Len(s) : data[start + i] = s[i]

\* Which is what it means for s to be a prefix of the rest.
LEMMA BeginsIsPrefix ==
  ASSUME NEW S, NEW s \in Seq(S), NEW data \in Seq(S), NEW start \in Nat, start + 1 <= Len(data)
  PROVE  IsPrefix(s, SubSeq(data, start + 1, Len(data))) <=> Begins(s, data, start)
<1> DEFINE t == SubSeq(data, start + 1, Len(data))
<1>1. /\ t \in Seq(S) /\ Len(t) = Len(data) - start
      /\ \A i \in 1 .. Len(data) - start : t[i] = data[start + i]
  <2>1. Len(data) \in Nat /\ 1 <= start + 1
    OBVIOUS
  <2>2. \A i \in 1 .. Len(data) - start : (start + 1) + i - 1 = start + i
    OBVIOUS
  <2> QED
    BY <2>1, <2>2
<1>2. Len(s) \in Nat /\ SubSeq(s, 1, Len(s)) = s
  OBVIOUS
<1> HIDE DEF t
<1>3. Len(s) <= Len(t) =>
        /\ SubSeq(t, 1, Len(s)) \in Seq(S) /\ Len(SubSeq(t, 1, Len(s))) = Len(s)
        /\ \A i \in 1 .. Len(s) : SubSeq(t, 1, Len(s))[i] = t[i]
  BY <1>1, <1>2
<1>4. Len(s) <= Len(t) <=> start + Len(s) <= Len(data)
  BY <1>1, <1>2
<1>5. ASSUME Len(s) <= Len(t)
      PROVE  s = SubSeq(t, 1, Len(s)) <=> \A i \in 1 .. Len(s) : data[start + i] = s[i]
  <2> DEFINE u == SubSeq(t, 1, Len(s))
  <2>1. u \in Seq(S) /\ Len(u) = Len(s) /\ \A i \in 1 .. Len(s) : u[i] = t[i]
    BY <1>3, <1>5
  <2>2. \A i \in 1 .. Len(s) : t[i] = data[start + i]
    BY <1>1, <1>2, <1>5
  <2> HIDE DEF u
  <2>3. s = u <=> \A i \in 1 .. Len(s) : u[i] = s[i]
    <3>1. (\A i \in 1 .. Len(s) : u[i] = s[i]) => s = u
      BY <2>1, SeqEqual
    <3> QED
      BY <3>1
  <2> QED
    BY <2>1, <2>2, <2>3 DEF u
<1> QED
  BY <1>2, <1>4, <1>5 DEF IsPrefix, Begins, t

\* What readDERElementHeader is given: an element with a tag, at an offset of the data.
Given(data, start, limit) ==
  /\ data \in Seq(Nat) /\ start \in Nat /\ start + 1 <= Len(data)
  /\ data[start + 1] = 3
  /\ \A i \in start + 2 .. Len(data) : data[i] \in 0 .. ByteSize - 1
  /\ limit \in 0 .. IntMax

\* data has the header of a length at offset, and the element ends within the limit.
Holds(data, start, limit, length) ==
  /\ Begins(Header(3, length), data, start)
  /\ start + Len(Header(3, length)) + length <= limit

EndOf(start, length) == start + Len(Header(3, length))

\* Two naturals are not taken for the sign of a refusal.
LEMMA PairIsValid ==
  ASSUME NEW a \in Nat, NEW b \in Nat
  PROVE  Valid(<<a, b>>)
BY DEF Valid, Range

\* And a refusal is not taken for an answer.
LEMMA InvalidIsNot == ~Valid(Invalid)
BY DEF Valid, Invalid, Range

\* A header that is accepted is the header of some length.
LEMMA AcceptedHeader ==
  ASSUME NEW data, NEW start, NEW limit, Given(data, start, limit),
         Valid(ReadDERElementHeader(data, start, limit))
  PROVE  \E length \in 0 .. 2 * IntMax + 1 :
           /\ Holds(data, start, limit, length)
           /\ ReadDERElementHeader(data, start, limit)
                = <<EndOf(start, length), EndOf(start, length) + length>>
<1> DEFINE half == ByteSize \div 2
           first == data[start + 2]
           short == first < half
           count == IF short THEN 0 ELSE first - half
           body == start + 2 + count
           fits == count <= LengthBytes /\ body <= Len(data)
           digits == IF fits THEN SubSeq(data, start + 3, body) ELSE <<>>
           length == IF short THEN first ELSE LengthOf(digits)
           minimal == short \/ (digits # <<>> /\ digits[1] # 0 /\ length >= half)
           R == ReadDERElementHeader(data, start, limit)
<1>1. /\ start + 2 <= Len(data) /\ start < limit
      /\ fits /\ minimal /\ EndFits(body, length, limit)
      /\ R = <<body, ToInt(body + length)>>
  <2>1. R # Invalid
    BY InvalidIsNot
  <2>2. ~(start + 2 > Len(data) \/ start >= limit)
    BY <2>1 DEF ReadDERElementHeader
  <2>3. fits /\ minimal /\ EndFits(body, length, limit)
    BY <2>1, <2>2 DEF ReadDERElementHeader
  <2>4. R = <<body, ToInt(body + length)>>
    BY <2>2, <2>3 DEF ReadDERElementHeader
  <2>5. start + 2 <= Len(data) /\ start < limit
    <3>1. start \in Nat /\ Len(data) \in Nat /\ limit \in Nat
      BY BaseFacts DEF Given
    <3> QED
      BY <2>2, <3>1
  <2> HIDE DEF fits, minimal, body, length, R
  <2> QED
    BY <2>3, <2>4, <2>5
<1>2. /\ start \in Nat /\ data \in Seq(Nat) /\ Len(data) \in Nat /\ data[start + 1] = 3
      /\ first \in 0 .. ByteSize - 1 /\ half \in Nat \ {0} /\ IntMax \in Nat
      /\ LengthBytes \in Nat /\ ByteSize \in Nat /\ limit \in Nat /\ limit <= IntMax
  <2>1. /\ start \in Nat /\ data \in Seq(Nat) /\ Len(data) \in Nat /\ data[start + 1] = 3
        /\ half \in Nat \ {0} /\ IntMax \in Nat /\ LengthBytes \in Nat /\ ByteSize \in Nat
        /\ limit \in 0 .. IntMax
    BY HalfBase, BaseFacts DEF Given
  <2>2. first \in 0 .. ByteSize - 1
    <3>1. start + 2 \in start + 2 .. Len(data)
      BY <1>1, <2>1
    <3> QED
      BY <3>1 DEF Given
  <2> HIDE DEF first, half
  <2> QED
    BY <2>1, <2>2
<1>3. count \in Nat /\ body \in Nat
  <2>1. count \in Nat
    <3>1. CASE short
      BY <3>1
    <3>2. CASE ~short
      <4>1. count = first - half /\ ~(first < half)
        BY <3>2
      <4> HIDE DEF first, half, short, count
      <4> QED
        BY <1>2, <4>1
    <3> QED
      BY <3>1, <3>2
  <2> HIDE DEF count
  <2> QED
    BY <1>2, <2>1
<1>4. /\ length \in Nat /\ Begins(Header(3, length), data, start)
      /\ Len(Header(3, length)) = 2 + count
  <2>1. CASE short
    <3>1. length = first /\ length \in Nat /\ Header(3, length) = <<3, first>> /\ count = 0
      BY <1>2, <2>1 DEF Header
    <3>2. \A i \in 1 .. 2 : data[start + i] = <<3, first>>[i]
      BY <1>2
    <3>3. Len(<<3, first>>) = 2
      OBVIOUS
    <3> HIDE DEF first, length, short, half, count
    <3>4. Begins(<<3, first>>, data, start)
      BY <1>1, <3>2, <3>3 DEF Begins
    <3>5. 2 + count = 2
      BY <3>1
    <3> QED
      BY <3>1, <3>3, <3>4, <3>5
  <2>2. CASE ~short
    <3>1. length = LengthOf(digits) /\ count = first - half /\ digits = SubSeq(data, start + 3, body)
      BY <1>1, <2>2
    <3>2. /\ Len(digits) = count /\ \A i \in 1 .. count : digits[i] = data[(start + 2) + i]
          /\ digits \in Seq(Nat)
      <4> HIDE DEF digits, count, first, half, length, short
      <4>1. body <= Len(data)
        BY <1>1
      <4>2. start + 2 \in Nat /\ start + 3 = (start + 2) + 1
        BY <1>2
      <4>3. Slice(digits, data, start + 2, count)
        BY <1>2, <1>3, <3>1, <4>1, <4>2, SubSeqIsSlice
      <4> QED
        BY <4>3 DEF Slice
    <3>3. \A i \in 1 .. count : digits[i] \in 0 .. ByteSize - 1
      <4> HIDE DEF digits, count, first, half, length, short
      <4>1. \A i \in 1 .. count : (start + 2) + i \in start + 2 .. Len(data)
        BY <1>1, <1>2, <1>3
      <4> QED
        BY <3>2, <4>1 DEF Given
    <3>4. digits \in Seq(0 .. ByteSize - 1)
      <4> HIDE DEF digits, count
      <4>1. Len(digits) \in Nat /\ \A i \in 1 .. Len(digits) : digits[i] \in 0 .. ByteSize - 1
        BY <1>3, <3>2, <3>3
      <4> QED
        BY <3>2, <4>1, SeqOfElements
    <3>5. Len(digits) \in 1 .. LengthBytes /\ digits[1] # 0 /\ length >= half
      <4>1. digits # <<>> /\ digits[1] # 0 /\ length >= half /\ count <= LengthBytes
        BY <1>1, <2>2
      <4> HIDE DEF digits, count, length, half
      <4> QED
        BY <1>2, <1>3, <3>2, <3>4, <4>1
    <3>6. LongForm(digits, length)
      <4> HIDE DEF digits, length
      <4> QED
        BY <3>1, <3>4, <3>5 DEF LongForm
    <3>7. length \in Nat /\ Header(3, length) = <<3, half + count>> \o digits /\ half + count = first
      <4>1. half + count = first
        BY <1>2, <3>1
      <4> HIDE DEF digits, length, count, first
      <4> QED
        BY <3>2, <3>6, <4>1, LongHeader
    <3> HIDE DEF digits, length, count, first, half, short
    <3>8. /\ Len(<<3, first>> \o digits) = 2 + count
          /\ \A i \in 1 .. 2 + count :
               (<<3, first>> \o digits)[i] = IF i <= 2 THEN <<3, first>>[i] ELSE digits[i - 2]
      <4>1. <<3, first>> \in Seq(Nat) /\ Len(<<3, first>>) = 2
        BY <1>2
      <4> QED
        BY <1>3, <3>2, <4>1
    <3>9. \A i \in 1 .. 2 + count : data[start + i] = (<<3, first>> \o digits)[i]
      <4> TAKE i \in 1 .. 2 + count
      <4>1. CASE i \in {1, 2}
        BY <1>2, <3>8, <4>1 DEF first
      <4>2. CASE i \notin {1, 2}
        <5>1. i - 2 \in 1 .. count /\ ~(i <= 2) /\ (start + 2) + (i - 2) = start + i
          BY <1>2, <1>3, <4>2
        <5> QED
          BY <3>2, <3>8, <5>1
      <4> QED
        BY <4>1, <4>2
    <3>10. start + (2 + count) <= Len(data)
      BY <1>1, <1>2, <1>3
    <3> QED
      BY <3>7, <3>8, <3>9, <3>10 DEF Begins
  <2> QED
    BY <2>1, <2>2
<1> HIDE DEF length, count, half, first, short
<1>5. body + length <= limit /\ ToInt(body + length) = body + length /\ length <= IntMax
  <2>1. length <= IntMax /\ body <= IntMax - length /\ ToInt(body + length) <= limit
    BY <1>1 DEF EndFits
  <2> HIDE DEF body
  <2>2. body + length <= IntMax
    BY <1>2, <1>3, <1>4, <2>1
  <2> QED
    BY <2>1, <2>2 DEF ToInt
<1>6. EndOf(start, length) = body
  <2>1. start + (2 + count) = body
    BY <1>2, <1>3
  <2> HIDE DEF body
  <2> QED
    BY <1>4, <2>1 DEF EndOf
<1>7. Holds(data, start, limit, length)
  BY <1>4, <1>5, <1>6 DEF Holds, EndOf
<1>8. length \in 0 .. 2 * IntMax + 1
  BY <1>2, <1>4, <1>5
<1> HIDE DEF body
<1> QED
  BY <1>1, <1>5, <1>6, <1>7, <1>8

\* The converse: a header of a length whose element ends within the limit is accepted.
LEMMA HeaderAccepted ==
  ASSUME NEW data, NEW start, NEW limit, Given(data, start, limit),
         NEW length \in 0 .. 2 * IntMax + 1, Holds(data, start, limit, length)
  PROVE  Valid(ReadDERElementHeader(data, start, limit))
<1> DEFINE half == ByteSize \div 2
           first == data[start + 2]
           short == first < half
           count == IF short THEN 0 ELSE first - half
           body == start + 2 + count
           fits == count <= LengthBytes /\ body <= Len(data)
           digits == IF fits THEN SubSeq(data, start + 3, body) ELSE <<>>
           readLength == IF short THEN first ELSE LengthOf(digits)
           minimal == short \/ (digits # <<>> /\ digits[1] # 0 /\ readLength >= half)
           header == Header(3, length)
           R == ReadDERElementHeader(data, start, limit)
<1>1. /\ start \in Nat /\ data \in Seq(Nat) /\ Len(data) \in Nat
      /\ half \in Nat \ {0} /\ IntMax \in Nat /\ LengthBytes \in Nat /\ length \in Nat
      /\ limit \in Nat /\ limit <= IntMax /\ ByteSize \in Nat
  BY HalfBase, BaseFacts DEF Given
<1>2. /\ start + Len(header) <= Len(data) /\ start + Len(header) + length <= limit
      /\ \A i \in 1 .. Len(header) : data[start + i] = header[i]
  BY DEF Holds, Begins
<1>3. /\ Len(header) \in Nat /\ Len(header) = 2 + count /\ count \in Nat
      /\ count <= LengthBytes /\ readLength = length /\ minimal
  <2>1. CASE length < half /\ header = <<3, length>>
    <3>1. Len(header) = 2 /\ first = length
      <4>1. Len(header) = 2 /\ header[2] = length
        BY <2>1
      <4> HIDE DEF header
      <4> QED
        BY <1>1, <1>2, <4>1
    <3>2. short /\ count = 0
      BY <2>1, <3>1
    <3> HIDE DEF first, short, header, half
    <3> QED
      BY <1>1, <3>1, <3>2
  <2>2. CASE \E d : LongForm(d, length) /\ header = <<3, half + Len(d)>> \o d
    <3>1. PICK d : LongForm(d, length) /\ header = <<3, half + Len(d)>> \o d
      BY <2>2
    <3>2. d \in Seq(Nat) /\ Len(d) \in 1 .. LengthBytes /\ d[1] # 0
      <4>1. d \in Seq(0 .. ByteSize - 1) /\ Len(d) \in 1 .. LengthBytes /\ d[1] # 0
        BY <3>1 DEF LongForm
      <4>2. \A i \in 1 .. Len(d) : d[i] \in Nat
        BY <1>1, <4>1
      <4> QED
        BY <4>1, <4>2, SeqOfElements
    <3> DEFINE n == Len(d)
    <3>3. /\ Len(header) = 2 + n /\ header[2] = half + n /\ n \in Nat /\ n >= 1
          /\ \A i \in 1 .. n : header[2 + i] = d[i]
      <4>1. <<3, half + n>> \in Seq(Nat) /\ Len(<<3, half + n>>) = 2
        BY <1>1, <3>2
      <4>2. /\ Len(<<3, half + n>> \o d) = 2 + n
            /\ \A i \in 1 .. 2 + n :
                 (<<3, half + n>> \o d)[i] = IF i <= 2 THEN <<3, half + n>>[i] ELSE d[i - 2]
        BY <1>1, <3>2, <4>1
      <4>3. n \in Nat /\ n >= 1 /\ 2 \in 1 .. 2 + n
        BY <1>1, <3>2
      <4>4. \A i \in 1 .. n : 2 + i \in 1 .. 2 + n /\ ~(2 + i <= 2) /\ (2 + i) - 2 = i
        BY <4>3
      <4> HIDE DEF n, header
      <4>5. \A i \in 1 .. n : (<<3, half + n>> \o d)[2 + i] = d[i]
        BY <4>2, <4>4
      <4> QED
        BY <3>1, <4>2, <4>3, <4>5 DEF n
    <3>4. first = half + n /\ ~short /\ count = n
      <4>1. first = header[2]
        BY <1>1, <1>2, <3>3
      <4> HIDE DEF header, n
      <4> QED
        BY <1>1, <3>3, <4>1
    <3>5. fits
      <4> HIDE DEF header, count, first, short, n
      <4> QED
        BY <1>1, <1>2, <3>2, <3>3, <3>4 DEF n
    <3>6. digits = d
      <4> HIDE DEF header, count, first, half, short, n
      <4>1. body <= Len(data) /\ digits = SubSeq(data, start + 3, body)
        BY <3>5
      <4>2. start + 2 \in Nat /\ start + 3 = (start + 2) + 1 /\ body = (start + 2) + n
        BY <1>1, <3>4
      <4> HIDE DEF fits, body, digits
      <4>3. Slice(digits, data, start + 2, n)
        BY <1>1, <3>3, <4>1, <4>2, SubSeqIsSlice
      <4>4. \A i \in 1 .. n : digits[i] = d[i]
        <5> TAKE i \in 1 .. n
        <5>1. 2 + i \in 1 .. Len(header) /\ start + (2 + i) = (start + 2) + i
          BY <1>1, <3>3
        <5> QED
          BY <1>2, <3>3, <4>3, <5>1 DEF Slice
      <4> QED
        BY <3>2, <4>3, <4>4, SeqEqual DEF n, Slice
    <3> HIDE DEF digits, count, first, short, header, half, n
    <3>7. readLength = length /\ length >= half
      BY <3>1, <3>4, <3>6 DEF LongForm, half
    <3>8. digits # <<>> /\ digits[1] # 0
      BY <3>2, <3>6
    <3> HIDE DEF readLength
    <3> QED
      BY <3>2, <3>3, <3>4, <3>7, <3>8 DEF n
  <2> HIDE DEF count, minimal, readLength
  <2> QED
    BY <2>1, <2>2, HeaderShape
<1> HIDE DEF count, header, readLength, minimal, digits, half, first, short
<1>4. /\ body = start + Len(header) /\ body \in Nat /\ fits
      /\ body + length <= limit /\ start + 2 <= Len(data) /\ start < limit
  <2>1. body = start + Len(header) /\ body \in Nat
    BY <1>1, <1>3
  <2> HIDE DEF body
  <2>2. body <= Len(data) /\ body + length <= limit
    BY <1>2, <2>1
  <2>3. start + 2 <= body
    BY <1>1, <1>3, <2>1
  <2>4. start + 2 <= Len(data) /\ start < limit
    BY <1>1, <2>1, <2>2, <2>3
  <2> QED
    BY <1>3, <2>1, <2>2, <2>4
<1> HIDE DEF body
<1>5. EndFits(body, readLength, limit) /\ ToInt(body + readLength) = body + length
  BY <1>1, <1>3, <1>4 DEF EndFits, ToInt
<1>6. R = IF start + 2 > Len(data) \/ start >= limit THEN Invalid
          ELSE IF fits /\ minimal /\ EndFits(body, readLength, limit)
                 THEN <<body, ToInt(body + readLength)>> ELSE Invalid
  BY DEF ReadDERElementHeader, body, digits, readLength, minimal, count, short, first, half
<1>7. ~(start + 2 > Len(data) \/ start >= limit)
  BY <1>1, <1>4
<1> HIDE DEF R, fits
<1>8. R = <<body, body + length>> /\ body + length \in Nat
  BY <1>1, <1>3, <1>4, <1>5, <1>6, <1>7
<1> QED
  BY <1>4, <1>8, PairIsValid DEF R

\* The decoder of headers has run on bytes it may be given.
HeaderRead ==
  decoder = "header" =>
    /\ Given(input, window[1], window[2])
    /\ output = ReadDERElementHeader(input, window[1], window[2])

\* It is called with a tag and further bytes, and with a limit an int can hold.
LEMMA CallGiven ==
  ASSUME NEW tag, tag = 3, NEW bytes \in HeaderBytes, NEW before \in {0, 1}, NEW data,
         data = [i \in 1 .. before |-> 0] \o <<tag>> \o bytes,
         NEW limit \in {before, Len(data), IntMax - 1, IntMax}
  PROVE  Given(data, before, limit)
<1>1. PICK n \in 1 .. 3 : bytes \in [1 .. n -> 0 .. ByteSize - 1]
  BY DEF HeaderBytes
<1>2. /\ n \in Nat /\ n >= 1 /\ n <= 3 /\ ByteSize \in Nat /\ IntMax \in Nat /\ IntMax >= 5
      /\ before \in Nat /\ before <= 1
  BY HeaderAssumption, BaseFacts
<1>3. bytes \in Seq(Nat) /\ Len(bytes) = n /\ \A i \in 1 .. n : bytes[i] \in 0 .. ByteSize - 1
  <2>1. bytes \in [1 .. n -> Nat]
    BY <1>1, <1>2
  <2> QED
    BY <1>1, <1>2, <2>1, SeqDef
<1> DEFINE zeros == [i \in 1 .. before |-> 0]  front == zeros \o <<tag>>
<1>4. zeros \in Seq(Nat) /\ Len(zeros) = before
  BY <1>2
<1> HIDE DEF zeros
<1>5. front \in Seq(Nat) /\ Len(front) = before + 1 /\ front[before + 1] = 3
  <2>1. <<tag>> \in Seq(Nat) /\ Len(<<tag>>) = 1 /\ <<tag>>[1] = 3
    OBVIOUS
  <2>2. front \in Seq(Nat) /\ Len(front) = Len(zeros) + Len(<<tag>>)
    BY <1>4, <2>1
  <2>3. front[before + 1] = <<tag>>[(before + 1) - before]
    <3>1. before + 1 \in Len(zeros) + 1 .. Len(zeros) + Len(<<tag>>)
      BY <1>2, <1>4, <2>1
    <3> QED
      BY <1>4, <2>1, <3>1, ConcatProperties
  <2>4. (before + 1) - before = 1
    BY <1>2
  <2> HIDE DEF front
  <2> QED
    BY <1>4, <2>1, <2>2, <2>3, <2>4
<1>6. data = front \o bytes
  BY DEF zeros
<1> HIDE DEF front
<1>7. /\ data \in Seq(Nat) /\ Len(data) = before + 1 + n
      /\ \A i \in 1 .. before + 1 + n :
           data[i] = IF i <= before + 1 THEN front[i] ELSE bytes[i - (before + 1)]
  <2>1. data \in Seq(Nat) /\ Len(data) = Len(front) + Len(bytes)
    BY <1>3, <1>5, <1>6
  <2>2. \A i \in 1 .. Len(front) + Len(bytes) :
          (front \o bytes)[i] = IF i <= Len(front) THEN front[i] ELSE bytes[i - Len(front)]
    BY <1>3, <1>5, ConcatProperties, Zenon
  <2>3. Len(front) = before + 1 /\ Len(bytes) = n
    BY <1>3, <1>5
  <2> QED
    BY <1>6, <2>1, <2>2, <2>3
<1>8. data[before + 1] = 3
  BY <1>2, <1>5, <1>7
<1>9. \A i \in before + 2 .. Len(data) : data[i] \in 0 .. ByteSize - 1
  <2> TAKE i \in before + 2 .. Len(data)
  <2>1. i \in 1 .. before + 1 + n /\ ~(i <= before + 1) /\ i - (before + 1) \in 1 .. n
    BY <1>2, <1>7
  <2> QED
    BY <1>3, <1>7, <2>1
<1>10. limit \in 0 .. IntMax
  BY <1>2, <1>7
<1> QED
  BY <1>2, <1>7, <1>8, <1>9, <1>10 DEF Given

\* What a header that was read shows.
LEMMA HeaderReadExact == HeaderRead => DERHeaderExact
<1> SUFFICES ASSUME HeaderRead, decoder = "header" PROVE DERHeaderExact
  BY DEF DERHeaderExact
<1> DEFINE start == window[1]  limit == window[2]
           bytes == SubSeq(input, start + 1, Len(input))
           Claims == 0 .. 2 * IntMax + 1
           Is(length) ==
             LET body == start + Len(Headers[length]) IN
             /\ IsPrefix(Headers[length], bytes)
             /\ body + length <= limit
             /\ output = <<body, body + length>>
           Fit(length) ==
             /\ IsPrefix(Headers[length], bytes)
             /\ start + Len(Headers[length]) + length <= limit
<1>1. Given(input, start, limit) /\ output = ReadDERElementHeader(input, start, limit)
  BY DEF HeaderRead
<1> HIDE DEF start, limit
<1>2. DOMAIN Headers = Claims /\ \A length \in Claims : Headers[length] = Header(3, length)
  BY DEF Headers
<1>3. \A length \in Claims : Header(3, length) \in Seq(Nat)
  <2> TAKE length \in Claims
  <2>1. length \in Nat /\ ByteSize \div 2 \in Nat /\ ByteSize \in Nat
    BY BaseFacts, HalfBase
  <2>2. CASE Header(3, length) = <<3, length>>
    <3>1. <<3, length>> \in Seq(Nat)
      BY <2>1
    <3> QED
      BY <2>2, <3>1, Zenon
  <2>3. CASE \E d : LongForm(d, length) /\ Header(3, length) = <<3, ByteSize \div 2 + Len(d)>> \o d
    <3>1. PICK d : LongForm(d, length) /\ Header(3, length) = <<3, ByteSize \div 2 + Len(d)>> \o d
      BY <2>3
    <3>2. d \in Seq(0 .. ByteSize - 1) /\ Len(d) \in Nat
      BY <3>1 DEF LongForm
    <3>3. \A i \in 1 .. Len(d) : d[i] \in Nat
      BY <2>1, <3>2
    <3>4. d \in Seq(Nat)
      BY <3>2, <3>3, SeqOfElements
    <3>5. <<3, ByteSize \div 2 + Len(d)>> \in Seq(Nat)
      BY <2>1, <3>2
    <3>6. <<3, ByteSize \div 2 + Len(d)>> \o d \in Seq(Nat)
      BY <3>4, <3>5
    <3> QED
      BY <3>1, <3>6, Zenon
  <2> QED
    BY <2>2, <2>3, HeaderShape
<1>4. \A length \in Claims : Fit(length) <=> Holds(input, start, limit, length)
  <2> TAKE length \in Claims
  <2>1. input \in Seq(Nat) /\ start \in Nat /\ start + 1 <= Len(input)
    BY <1>1 DEF Given
  <2>2. IsPrefix(Header(3, length), bytes) <=> Begins(Header(3, length), input, start)
    BY <1>3, <2>1, BeginsIsPrefix
  <2> HIDE DEF bytes
  <2> QED
    BY <1>2, <2>2 DEF Holds
<1>5. CASE Valid(output)
  <2>1. PICK length \in Claims :
          /\ Holds(input, start, limit, length)
          /\ output = <<EndOf(start, length), EndOf(start, length) + length>>
    BY <1>1, <1>5, AcceptedHeader
  <2>2. Is(length)
    BY <1>2, <1>4, <2>1 DEF EndOf
  <2>3. \E l \in DOMAIN Headers : Is(l)
    BY <1>2, <2>2
  <2> QED
    BY <1>5, <2>3 DEF DERHeaderExact, start, limit
<1>6. CASE ~Valid(output)
  <2>1. \A length \in Claims : ~Holds(input, start, limit, length)
    BY <1>1, <1>6, HeaderAccepted
  <2>2. ~\E length \in DOMAIN Headers : Fit(length)
    BY <1>2, <1>4, <2>1
  <2> QED
    BY <1>6, <2>2 DEF DERHeaderExact, start, limit
<1> QED
  BY <1>5, <1>6

\* readDERElementHeader takes exactly the headers that DER defines, of elements that
\* end within the limit, and returns their true end: for every width of int and of a
\* byte, no length wraps around, and none is refused that would fit.
THEOREM HeadersExact == KeystoreSpec => []DERHeaderExact
<1>1. KeystoreInit => HeaderRead
  BY DEF KeystoreInit, DecoderInit, HeaderRead
<1>2. HeaderRead /\ [KeystoreNext]_keystoreVars => HeaderRead'
  <2> SUFFICES ASSUME HeaderRead, [KeystoreNext]_keystoreVars PROVE HeaderRead'
    OBVIOUS
  <2>1. CASE UNCHANGED decoderVars
    BY <2>1 DEF HeaderRead, decoderVars
  <2>2. CASE DecodeAlias \/ DecodeName
    BY <2>2 DEF DecodeAlias, DecodeName, HeaderRead
  <2>3. CASE DecodeHeader
    <3>1. PICK bytes \in HeaderBytes, before \in {0, 1} :
            /\ input' = [i \in 1 .. before |-> 0] \o <<3>> \o bytes
            /\ \E limit \in {before, Len(input'), IntMax - 1, IntMax} :
                 window' = <<before, limit>>
      BY <2>3 DEF DecodeHeader
    <3>2. PICK limit \in {before, Len(input'), IntMax - 1, IntMax} : window' = <<before, limit>>
      BY <3>1
    <3>3. Given(input', before, limit)
      BY <3>1, CallGiven
    <3>4. window'[1] = before /\ window'[2] = limit
      BY <3>2
    <3>5. output' = ReadDERElementHeader(input', window'[1], window'[2])
      BY <2>3 DEF DecodeHeader
    <3> QED
      BY <3>3, <3>4, <3>5 DEF HeaderRead
  <2> QED
    BY <2>1, <2>2, <2>3 DEF KeystoreNext, keystoreVars, DecoderNext
<1>3. HeaderRead => DERHeaderExact
  BY HeaderReadExact
<1> QED
  BY <1>1, <1>2, <1>3, PTL DEF KeystoreSpec

-----------------------------------------------------------------------------
(* The decoders of strings.                                                *)

(* Encodings of sequences, symbol by symbol.                               *)

\* What FlattenSeq has after each of the sequences.
Flattens(seqs, f) ==
  /\ f[1] = seqs[1]
  /\ \A i \in 2 .. Len(seqs) : f[i] = f[i - 1] \o seqs[i]

\* It is a recursive definition too, so there is such a function and it has its value.
LEMMA FlattenFacts ==
  ASSUME NEW S, NEW seqs \in Seq(Seq(S)), seqs # <<>>
  PROVE  \E f \in [1 .. Len(seqs) -> Seq(S)] :
           Flattens(seqs, f) /\ FlattenSeq(seqs) = f[Len(seqs)]
<1> DEFINE n == Len(seqs)
           D == 1 .. n
           V == Seq(S)
           Step(g, i) == IF i = 1 THEN seqs[i] ELSE g[i - 1] \o seqs[i]
           F == [g \in [D -> V] |-> [i \in D |-> Step(g, i)]]
           rank == [i \in D |-> i]
           Is(g) == g = [i \in D |-> Step(g, i)]
           flatten == CHOOSE g : Is(g)
<1>1. n \in Nat /\ n # 0 /\ 1 \in D /\ \A i \in D : seqs[i] \in Seq(S)
  BY EmptySeq
<1>2. \A i \in D : i # 1 => i - 1 \in D /\ i - 1 < i
  BY <1>1
<1>3. Ranked(D, V, rank, n + 1, F)
  <2>1. rank \in [D -> Nat] /\ \A i \in D : rank[i] < n + 1
    BY <1>1
  <2>2. ASSUME NEW g \in [D -> V] PROVE F[g] \in [D -> V]
    <3>1. \A i \in D : Step(g, i) \in V
      <4> TAKE i \in D
      <4>1. i # 1 => g[i - 1] \in Seq(S)
        BY <1>2
      <4> QED
        BY <1>1, <4>1
    <3> HIDE DEF Step, V
    <3> QED
      BY <3>1
  <2>3. ASSUME NEW g \in [D -> V], NEW h \in [D -> V], NEW i \in D,
               \A j \in D : rank[j] < rank[i] => g[j] = h[j]
        PROVE  F[g][i] = F[h][i]
    <3>1. Step(g, i) = Step(h, i)
      BY <1>2, <2>3
    <3> HIDE DEF Step
    <3> QED
      BY <3>1
  <2> HIDE DEF D, V, F, rank
  <2> QED
    BY <2>1, <2>2, <2>3 DEF Ranked
<1>4. Solved(D, V, F)
  <2>1. n + 1 \in Nat /\ V # {}
    BY <1>1
  <2> HIDE DEF D, V, F, rank
  <2> QED
    BY <1>3, <2>1, Solvable
<1>5. PICK g \in [D -> V] : g = F[g]
  BY <1>4 DEF Solved
<1>6. Is(g)
  <2> HIDE DEF Step
  <2> QED
    BY <1>5
<1>7. Is(flatten)
  BY <1>6
<1>8. FlattenSeq(seqs) = flatten[n]
  BY <1>1 DEF FlattenSeq
<1>9. \A i \in D : flatten[i] = Step(flatten, i)
  <2> HIDE DEF Step, flatten
  <2> QED
    BY <1>7
<1>10. DOMAIN flatten = D /\ flatten = [i \in D |-> flatten[i]]
  <2> HIDE DEF Step, flatten
  <2> QED
    BY <1>7
<1> HIDE DEF flatten
<1>11. \A i \in D : flatten[i] \in V
  <2> DEFINE T == {k \in Nat : k + 1 \in D => flatten[k + 1] \in V}
  <2>1. 0 \in T
    BY <1>1, <1>9
  <2>2. ASSUME NEW k \in Nat, k \in T PROVE k + 1 \in T
    <3> SUFFICES ASSUME (k + 1) + 1 \in D PROVE flatten[(k + 1) + 1] \in V
      OBVIOUS
    <3>1. k + 1 \in D /\ (k + 1) + 1 # 1 /\ ((k + 1) + 1) - 1 = k + 1
      BY <1>1
    <3>2. flatten[(k + 1) + 1] = flatten[k + 1] \o seqs[(k + 1) + 1]
      BY <1>9, <3>1
    <3>3. flatten[k + 1] \in Seq(S) /\ seqs[(k + 1) + 1] \in Seq(S)
      BY <1>1, <2>2, <3>1
    <3> QED
      BY <3>2, <3>3
  <2>3. Nat \subseteq T
    <3> HIDE DEF T
    <3> QED
      BY <2>1, <2>2, Induction
  <2>4. \A i \in D : i - 1 \in Nat /\ (i - 1) + 1 = i
    BY <1>1
  <2> QED
    BY <2>3, <2>4
<1>12. flatten \in [D -> V]
  BY <1>10, <1>11
<1>13. Flattens(seqs, flatten)
  <2>1. \A i \in 2 .. n : i \in D /\ i # 1
    BY <1>1
  <2> QED
    BY <1>1, <1>9, <2>1 DEF Flattens
<1> QED
  BY <1>8, <1>12, <1>13

\* Three sequences are joined from either side.
Associate(s, t, u) == (s \o t) \o u = s \o (t \o u)

\* Which holds of all sequences.
LEMMA Associative ==
  ASSUME NEW S, NEW s \in Seq(S), NEW t \in Seq(S), NEW u \in Seq(S)
  PROVE  Associate(s, t, u)
BY DEF Associate

\* Flattening takes the sequences from the front as well.
LEMMA FlattenFront ==
  ASSUME NEW S, NEW a \in Seq(S), NEW seqs \in Seq(Seq(S))
  PROVE  /\ FlattenSeq(seqs) \in Seq(S)
         /\ FlattenSeq(<<a>> \o seqs) = a \o FlattenSeq(seqs)
<1> DEFINE n == Len(seqs)  both == <<a>> \o seqs
<1>1. n \in Nat /\ \A i \in 1 .. n : seqs[i] \in Seq(S)
  OBVIOUS
<1>2. /\ both \in Seq(Seq(S)) /\ Len(both) = n + 1 /\ both[1] = a
      /\ \A i \in 1 .. n : both[i + 1] = seqs[i]
  <2>1. <<a>> \in Seq(Seq(S)) /\ Len(<<a>>) = 1 /\ <<a>>[1] = a
    OBVIOUS
  <2>2. /\ both \in Seq(Seq(S)) /\ Len(both) = 1 + n
        /\ \A i \in 1 .. 1 + n : both[i] = IF i <= 1 THEN <<a>>[i] ELSE seqs[i - 1]
    BY <2>1, ConcatProperties
  <2> HIDE DEF both
  <2>3. 1 + n = n + 1 /\ 1 \in 1 .. 1 + n
    BY <1>1
  <2>4. \A i \in 1 .. n : i + 1 \in 1 .. 1 + n /\ ~(i + 1 <= 1) /\ (i + 1) - 1 = i
    BY <1>1
  <2> QED
    BY <2>1, <2>2, <2>3, <2>4
<1> HIDE DEF both
<1>3. both # <<>>
  BY <1>1, <1>2, EmptySeq
<1>4. PICK g \in [1 .. Len(both) -> Seq(S)] : Flattens(both, g) /\ FlattenSeq(both) = g[Len(both)]
  BY <1>2, <1>3, FlattenFacts
<1>5. CASE seqs = <<>>
  <2>1. n = 0 /\ FlattenSeq(seqs) = <<>>
    BY <1>5 DEF FlattenSeq
  <2>2. FlattenSeq(both) = a
    BY <1>2, <1>4, <2>1 DEF Flattens
  <2>3. a \o <<>> = a /\ <<>> \in Seq(S)
    BY ConcatEmptySeq
  <2> QED
    BY <2>1, <2>2, <2>3 DEF both
<1>6. CASE seqs # <<>>
  <2>1. n # 0 /\ 1 \in 1 .. n
    BY <1>1, <1>6, EmptySeq
  <2>2. PICK f \in [1 .. Len(seqs) -> Seq(S)] : Flattens(seqs, f) /\ FlattenSeq(seqs) = f[Len(seqs)]
    BY <1>6, FlattenFacts
  <2> DEFINE T == {k \in Nat : k + 1 \in 1 .. n => g[(k + 1) + 1] = a \o f[k + 1]}
  <2>3. 0 \in T
    <3>1. 2 \in 2 .. Len(both) /\ 2 - 1 = 1 /\ 1 + 1 = 2 /\ (0 + 1) + 1 = 2 /\ 0 + 1 = 1
      BY <1>1, <1>2, <2>1
    <3>2. g[2] = g[2 - 1] \o both[2] /\ g[1] = both[1]
      BY <1>4, <3>1 DEF Flattens
    <3>3. both[1] = a /\ both[2] = seqs[1] /\ f[1] = seqs[1]
      BY <1>2, <2>1, <2>2, <3>1 DEF Flattens
    <3>4. g[2] = a \o f[1]
      BY <3>1, <3>2, <3>3
    <3> QED
      BY <3>1, <3>4
  <2>4. ASSUME NEW k \in Nat, k \in T PROVE k + 1 \in T
    <3> SUFFICES ASSUME (k + 1) + 1 \in 1 .. n
                 PROVE  g[((k + 1) + 1) + 1] = a \o f[(k + 1) + 1]
      OBVIOUS
    <3> DEFINE j == (k + 1) + 1
    <3>1. /\ k + 1 \in 1 .. n /\ j \in 2 .. n /\ j - 1 = k + 1
          /\ j + 1 \in 2 .. Len(both) /\ (j + 1) - 1 = (k + 1) + 1
      BY <1>1, <1>2
    <3>2. g[j + 1] = g[(j + 1) - 1] \o both[j + 1] /\ both[j + 1] = seqs[j]
      BY <1>2, <1>4, <3>1 DEF Flattens
    <3>3. f[j] = f[j - 1] \o seqs[j]
      BY <2>2, <3>1 DEF Flattens
    <3>4. g[(k + 1) + 1] = a \o f[k + 1]
      BY <2>4, <3>1
    <3>5. g[j + 1] = (a \o f[k + 1]) \o seqs[j] /\ f[j] = f[k + 1] \o seqs[j]
      BY <3>1, <3>2, <3>3, <3>4
    <3>6. f[k + 1] \in Seq(S) /\ seqs[j] \in Seq(S) /\ a \in Seq(S)
      BY <1>1, <2>2, <3>1
    <3>7. (a \o f[k + 1]) \o seqs[j] = a \o (f[k + 1] \o seqs[j])
      <4>1. Associate(a, f[k + 1], seqs[j])
        BY <3>6, Associative
      <4> QED
        BY <4>1, Zenon DEF Associate
    <3>8. g[j + 1] = a \o f[j]
      BY <3>5, <3>7
    <3> QED
      BY <3>8
  <2>5. Nat \subseteq T
    <3> HIDE DEF T
    <3> QED
      BY <2>3, <2>4, Induction
  <2>6. n - 1 \in Nat /\ (n - 1) + 1 = n /\ n \in 1 .. n
    BY <1>1, <2>1
  <2>7. g[n + 1] = a \o f[n] /\ f[n] \in Seq(S)
    BY <2>2, <2>5, <2>6
  <2> QED
    BY <1>2, <1>4, <2>2, <2>7 DEF both
<1> QED
  BY <1>5, <1>6

\* The symbols of s, one after the other, each as the code has it.
Coded(code, s) == FlattenSeq([i \in DOMAIN s |-> code[s[i]]])

\* The code of the first symbol comes first.
CodedFirst(code, x, s) == Coded(code, <<x>> \o s) = code[x] \o Coded(code, s)

\* It does, whatever the symbols and their codes.
LEMMA CodedFacts ==
  ASSUME NEW S, NEW A, NEW code \in [A -> Seq(S)], NEW s \in Seq(A), NEW x \in A
  PROVE  /\ Coded(code, <<>>) = <<>>
         /\ Coded(code, s) \in Seq(S)
         /\ CodedFirst(code, x, s)
<1> DEFINE seqs == [i \in DOMAIN s |-> code[s[i]]]
           longer == <<x>> \o s
           all == [i \in DOMAIN longer |-> code[longer[i]]]
           a == code[x]
<1>1. /\ Len(s) \in Nat /\ DOMAIN s = 1 .. Len(s) /\ \A i \in 1 .. Len(s) : s[i] \in A
      /\ a \in Seq(S)
  OBVIOUS
<1>2. seqs \in Seq(Seq(S)) /\ Len(seqs) = Len(s)
  <2>1. \A i \in 1 .. Len(s) : code[s[i]] \in Seq(S)
    BY <1>1
  <2>2. seqs \in [1 .. Len(s) -> Seq(S)]
    BY <1>1, <2>1
  <2> QED
    BY <1>1, <2>2, SeqDef
<1>3. /\ longer \in Seq(A) /\ Len(longer) = 1 + Len(s) /\ DOMAIN longer = 1 .. 1 + Len(s)
      /\ \A i \in 1 .. 1 + Len(s) : longer[i] = IF i <= 1 THEN x ELSE s[i - 1]
  <2>1. <<x>> \in Seq(A) /\ Len(<<x>>) = 1 /\ <<x>>[1] = x
    OBVIOUS
  <2>2. /\ longer \in Seq(A) /\ Len(longer) = 1 + Len(s)
        /\ \A i \in 1 .. 1 + Len(s) : longer[i] = IF i <= 1 THEN <<x>>[i] ELSE s[i - 1]
    BY <2>1, ConcatProperties
  <2>3. \A i \in 1 .. 1 + Len(s) : i <= 1 => i = 1
    BY <1>1
  <2> HIDE DEF longer
  <2>4. DOMAIN longer = 1 .. 1 + Len(s)
    BY <2>2
  <2> QED
    BY <2>1, <2>2, <2>3, <2>4
<1> HIDE DEF longer
<1>4. all \in Seq(Seq(S)) /\ Len(all) = 1 + Len(s)
  <2>1. \A i \in 1 .. 1 + Len(s) : longer[i] \in A
    BY <1>3
  <2>2. all \in [1 .. 1 + Len(s) -> Seq(S)]
    BY <1>3, <2>1
  <2>3. 1 + Len(s) \in Nat
    BY <1>1
  <2> QED
    BY <2>2, <2>3, SeqDef
<1>5. all = <<a>> \o seqs
  <2> DEFINE both == <<a>> \o seqs
  <2>1. <<a>> \in Seq(Seq(S)) /\ Len(<<a>>) = 1 /\ <<a>>[1] = a
    BY <1>1
  <2> HIDE DEF a, seqs
  <2>2. /\ both \in Seq(Seq(S)) /\ Len(both) = 1 + Len(s)
        /\ \A i \in 1 .. 1 + Len(s) : both[i] = IF i <= 1 THEN <<a>>[i] ELSE seqs[i - 1]
    BY <1>2, <2>1, ConcatProperties
  <2>3. \A i \in 1 .. 1 + Len(s) : all[i] = both[i]
    <3> TAKE i \in 1 .. 1 + Len(s)
    <3> HIDE DEF both
    <3>1. all[i] = code[longer[i]]
      BY <1>3
    <3>2. CASE i <= 1
      <4>1. i = 1
        BY <1>1, <3>2
      <4> QED
        BY <1>3, <2>1, <2>2, <3>1, <4>1 DEF a
    <3>3. CASE ~(i <= 1)
      <4>1. i - 1 \in 1 .. Len(s)
        BY <1>1, <3>3
      <4>2. seqs[i - 1] = code[s[i - 1]]
        BY <1>1, <4>1 DEF seqs
      <4> QED
        BY <1>3, <2>2, <3>1, <3>3, <4>2
    <3> QED
      BY <3>2, <3>3
  <2> HIDE DEF both, all
  <2>4. all = both
    BY <1>4, <2>2, <2>3, SeqEqual
  <2> QED
    BY <2>4 DEF both
<1>6. FlattenSeq(seqs) \in Seq(S) /\ FlattenSeq(<<a>> \o seqs) = a \o FlattenSeq(seqs)
  <2> HIDE DEF seqs, a
  <2> QED
    BY <1>1, <1>2, FlattenFront
<1>7. Coded(code, <<>>) = <<>>
  <2>1. [i \in DOMAIN <<>> |-> code[<<>>[i]]] = <<>>
    OBVIOUS
  <2> QED
    BY <2>1 DEF Coded, FlattenSeq
<1> QED
  BY <1>5, <1>6, <1>7 DEF Coded, CodedFirst, longer

-----------------------------------------------------------------------------
\* What is left of e from a position on.
Rest(e, i) == SubSeq(e, i, Len(e))

\* It has the elements from there on.
LEMMA RestFacts ==
  ASSUME NEW S, NEW e \in Seq(S), NEW i \in 1 .. Len(e) + 1
  PROVE  /\ Rest(e, i) \in Seq(S) /\ Len(Rest(e, i)) = Len(e) + 1 - i
         /\ \A j \in 1 .. Len(e) + 1 - i : Rest(e, i)[j] = e[i - 1 + j]
<1>1. Len(e) \in Nat /\ Len(e) - i + 1 = Len(e) + 1 - i /\ i \in Nat
  OBVIOUS
<1>2. Rest(e, i) = [j \in 1 .. Len(e) - i + 1 |-> e[i + j - 1]]
  BY DEF Rest
<1>3. \A j \in 1 .. Len(e) + 1 - i : i + j - 1 = i - 1 + j /\ i + j - 1 \in 1 .. Len(e)
  BY <1>1
<1>4. Rest(e, i) = [j \in 1 .. Len(e) + 1 - i |-> e[i - 1 + j]]
  BY <1>1, <1>2, <1>3
<1>5. \A j \in 1 .. Len(e) + 1 - i : e[i - 1 + j] \in S
  BY <1>3
<1>6. Len(e) + 1 - i \in Nat
  BY <1>1
<1> QED
  BY <1>4, <1>5, <1>6

\* s is at position i of e.
IsAt(s, e, i) == Begins(s, e, i - 1)

\* What is left begins with s just if s is there, and then goes on behind it.
Splits(e, i, s, t) == Rest(e, i) = s \o t

\* The two are the same.
LEMMA RestSplits ==
  ASSUME NEW S, NEW e \in Seq(S), NEW i \in 1 .. Len(e) + 1, NEW s \in Seq(S), NEW t \in Seq(S)
  PROVE  Splits(e, i, s, t) <=> /\ IsAt(s, e, i)
                                /\ i + Len(s) \in 1 .. Len(e) + 1
                                /\ Rest(e, i + Len(s)) = t
<1> DEFINE n == Len(e)  k == Len(s)  both == s \o t
<1>1. n \in Nat /\ k \in Nat /\ Len(t) \in Nat /\ i \in 1 .. n + 1
  OBVIOUS
<1>2. /\ Rest(e, i) \in Seq(S) /\ Len(Rest(e, i)) = n + 1 - i
      /\ \A j \in 1 .. n + 1 - i : Rest(e, i)[j] = e[i - 1 + j]
  BY RestFacts
<1>3. /\ both \in Seq(S) /\ Len(both) = k + Len(t)
      /\ \A j \in 1 .. k + Len(t) : both[j] = IF j <= k THEN s[j] ELSE t[j - k]
  BY ConcatProperties
<1>4. ASSUME i + k \in 1 .. n + 1
      PROVE  /\ Rest(e, i + k) \in Seq(S) /\ Len(Rest(e, i + k)) = n + 1 - (i + k)
             /\ \A j \in 1 .. n + 1 - (i + k) : Rest(e, i + k)[j] = e[i + k - 1 + j]
  BY <1>4, RestFacts
<1> HIDE DEF n, k, both
<1>5. ASSUME Rest(e, i) = both
      PROVE  IsAt(s, e, i) /\ i + k \in 1 .. n + 1 /\ Rest(e, i + k) = t
  <2>1. n + 1 - i = k + Len(t)
    BY <1>2, <1>3, <1>5
  <2>2. i + k \in 1 .. n + 1 /\ n + 1 - (i + k) = Len(t) /\ (i - 1) + k <= n
    BY <1>1, <2>1
  <2>3. \A j \in 1 .. k : e[(i - 1) + j] = s[j]
    <3> TAKE j \in 1 .. k
    <3>1. j \in 1 .. n + 1 - i /\ j \in 1 .. k + Len(t) /\ j <= k
      BY <1>1, <2>1
    <3> QED
      BY <1>2, <1>3, <1>5, <3>1
  <2>4. IsAt(s, e, i)
    BY <2>2, <2>3 DEF IsAt, Begins, n, k
  <2>5. \A j \in 1 .. Len(t) : Rest(e, i + k)[j] = t[j]
    <3> TAKE j \in 1 .. Len(t)
    <3>1. /\ k + j \in 1 .. n + 1 - i /\ k + j \in 1 .. k + Len(t) /\ ~(k + j <= k)
          /\ (k + j) - k = j /\ i + k - 1 + j = i - 1 + (k + j)
          /\ j \in 1 .. n + 1 - (i + k)
      BY <1>1, <2>1
    <3>2. Rest(e, i)[k + j] = e[i - 1 + (k + j)]
      BY <1>2, <3>1
    <3>3. both[k + j] = t[j]
      BY <1>3, <3>1
    <3>4. Rest(e, i + k)[j] = e[i + k - 1 + j]
      BY <1>4, <2>2, <3>1
    <3> QED
      BY <1>5, <3>1, <3>2, <3>3, <3>4
  <2>6. Rest(e, i + k) = t
    BY <1>4, <2>2, <2>5, SeqEqual
  <2> QED
    BY <2>2, <2>4, <2>6
<1>6. ASSUME IsAt(s, e, i), i + k \in 1 .. n + 1, Rest(e, i + k) = t
      PROVE  Rest(e, i) = both
  <2>1. n + 1 - (i + k) = Len(t) /\ n + 1 - i = k + Len(t)
    <3>1. n + 1 - (i + k) = Len(t)
      BY <1>4, <1>6, Zenon
    <3> QED
      BY <1>1, <3>1
  <2>2. \A j \in 1 .. k : e[(i - 1) + j] = s[j]
    BY <1>6 DEF IsAt, Begins, k
  <2>3. \A j \in 1 .. k + Len(t) : Rest(e, i)[j] = both[j]
    <3> TAKE j \in 1 .. k + Len(t)
    <3>1. Rest(e, i)[j] = e[i - 1 + j]
      BY <1>2, <2>1
    <3>2. CASE j <= k
      <4>1. j \in 1 .. k
        BY <1>1, <3>2
      <4> QED
        BY <1>3, <2>2, <3>1, <3>2, <4>1
    <3>3. CASE ~(j <= k)
      <4>1. j - k \in 1 .. n + 1 - (i + k) /\ i + k - 1 + (j - k) = i - 1 + j
        BY <1>1, <2>1, <3>3
      <4>2. t[j - k] = e[i + k - 1 + (j - k)]
        BY <1>4, <1>6, <4>1
      <4> QED
        BY <1>3, <3>1, <3>3, <4>1, <4>2
    <3> QED
      BY <3>2, <3>3
  <2> QED
    BY <1>2, <1>3, <2>1, <2>3, SeqEqual
<1> QED
  BY <1>5, <1>6 DEF Splits, both, n, k

\* At i a decoder refuses what is no symbol's code, or it takes the only symbol
\* whose code is there and goes on behind it.
Refuses(code, A, e, from, i) ==
  from[i] = Invalid /\ \A x \in A : ~IsAt(code[x], e, i)

\* Or takes x, the only symbol there.
Takes(code, A, e, from, i, x) ==
  /\ IsAt(code[x], e, i)
  /\ from[i] = <<x>> \o from[i + Len(code[x])]
  /\ \A y \in A : IsAt(code[y], e, i) => y = x

\* It does one or the other at each position, until there is nothing left.
Decodes(code, A, e, from) ==
  /\ from[Len(e) + 1] = <<>>
  /\ \A i \in 1 .. Len(e) :
       Refuses(code, A, e, from, i) \/ \E x \in A : Takes(code, A, e, from, i, x)

\* Then it returns, from i on, the one sequence of which this is the encoding.
DecodedAt(code, A, e, from, i) ==
  /\ from[i] \in Seq(Int)
  /\ Valid(from[i]) => from[i] \in Seq(A) /\ Rest(e, i) = Coded(code, from[i])
  /\ \A u \in Seq(A) : Rest(e, i) = Coded(code, u) => from[i] = u

\* Each symbol of A has a code, which is not empty.
Code(code, A, S) ==
  A \subseteq Nat /\ code \in [A -> Seq(S)] /\ \A x \in A : Len(code[x]) > 0

\* A sequence without elements, or with a first one.
LEMMA FirstAndRest ==
  ASSUME NEW A, NEW u \in Seq(A), u # <<>>
  PROVE  \E y \in A, w \in Seq(A) : u = <<y>> \o w
<1>1. Head(u) \in A /\ Tail(u) \in Seq(A)
  OBVIOUS
<1>2. u = <<Head(u)>> \o Tail(u)
  OBVIOUS
<1> QED
  BY <1>1, <1>2

\* The code of what is not empty is not empty.
LEMMA CodedEmpty ==
  ASSUME NEW S, NEW A, NEW code, Code(code, A, S), NEW u \in Seq(A), Coded(code, u) = <<>>
  PROVE  u = <<>>
<1> SUFFICES ASSUME u # <<>> PROVE FALSE
  OBVIOUS
<1>1. PICK y \in A, w \in Seq(A) : u = <<y>> \o w
  BY FirstAndRest
<1>2. /\ code \in [A -> Seq(S)] /\ code[y] \in Seq(S) /\ Len(code[y]) > 0 /\ Len(code[y]) \in Nat
  BY DEF Code
<1>3. Coded(code, w) \in Seq(S) /\ CodedFirst(code, y, w)
  BY <1>2, CodedFacts
<1>4. code[y] \o Coded(code, w) = <<>>
  BY <1>1, <1>3 DEF CodedFirst
<1>5. /\ Len(code[y] \o Coded(code, w)) = Len(code[y]) + Len(Coded(code, w))
      /\ Len(Coded(code, w)) \in Nat
  BY <1>2, <1>3
<1>6. Len(<<>>) = 0
  OBVIOUS
<1> HIDE DEF Coded
<1> QED
  BY <1>2, <1>4, <1>5, <1>6

\* The first symbol's code is at i, and behind it are those of the others.
Begun(code, A, e, i, u) ==
  \E y \in A, w \in Seq(A) :
    u = <<y>> \o w /\ IsAt(code[y], e, i) /\ Rest(e, i + Len(code[y])) = Coded(code, w)

\* What is an encoding begins, until its end, with the code of a symbol.
LEMMA FirstCode ==
  ASSUME NEW S, NEW A, NEW code, Code(code, A, S), NEW e \in Seq(S), NEW i \in 1 .. Len(e),
         NEW u \in Seq(A), Rest(e, i) = Coded(code, u)
  PROVE  Begun(code, A, e, i, u)
<1>1. Len(e) \in Nat /\ i \in 1 .. Len(e) + 1 /\ Len(e) + 1 - i > 0 /\ code \in [A -> Seq(S)]
  BY DEF Code
<1>2. u # <<>>
  <2>1. Len(Rest(e, i)) = Len(e) + 1 - i
    BY <1>1, RestFacts
  <2>2. Coded(code, <<>>) = <<>>
    BY DEF Coded, FlattenSeq
  <2>3. Len(<<>>) = 0
    OBVIOUS
  <2> QED
    BY <1>1, <2>1, <2>2, <2>3
<1>3. PICK y \in A, w \in Seq(A) : u = <<y>> \o w
  BY <1>2, FirstAndRest
<1>4. code[y] \in Seq(S) /\ Coded(code, w) \in Seq(S) /\ CodedFirst(code, y, w)
  BY <1>1, CodedFacts
<1>5. Splits(e, i, code[y], Coded(code, w))
  BY <1>3, <1>4, Zenon DEF CodedFirst, Splits
<1>6. IsAt(code[y], e, i) /\ Rest(e, i + Len(code[y])) = Coded(code, w)
  BY <1>1, <1>4, <1>5, RestSplits
<1> QED
  BY <1>3, <1>6 DEF Begun

\* What a decoder returns at one position, from what it returns at later ones.
LEMMA DecodedStep ==
  ASSUME NEW S, NEW A, NEW code, Code(code, A, S), NEW e \in Seq(S), NEW from,
         Decodes(code, A, e, from), NEW i \in 1 .. Len(e) + 1,
         \A j \in i + 1 .. Len(e) + 1 : DecodedAt(code, A, e, from, j)
  PROVE  DecodedAt(code, A, e, from, i)
<1> DEFINE n == Len(e)
<1>1. n \in Nat /\ A \subseteq Nat /\ code \in [A -> Seq(S)]
  BY DEF Code
<1>2. CASE i = n + 1
  <2>1. from[i] = <<>>
    BY <1>2 DEF Decodes
  <2>2. Rest(e, i) = <<>>
    <3>1. Rest(e, i) \in Seq(S) /\ Len(Rest(e, i)) = Len(e) + 1 - i
      <4> HIDE DEF n
      <4> QED
        BY RestFacts
    <3>2. Len(e) + 1 - i = 0
      BY <1>1, <1>2
    <3>3. Len(Rest(e, i)) = 0
      BY <3>1, <3>2
    <3> QED
      BY <3>1, <3>3, EmptySeq
  <2>3. Coded(code, <<>>) = <<>>
    BY DEF Coded, FlattenSeq
  <2>4. <<>> \in Seq(Int) /\ <<>> \in Seq(A)
    OBVIOUS
  <2>5. \A u \in Seq(A) : <<>> = Coded(code, u) => u = <<>>
    BY CodedEmpty
  <2> QED
    BY <2>1, <2>2, <2>3, <2>4, <2>5 DEF DecodedAt
<1>3. CASE i \in 1 .. n /\ Refuses(code, A, e, from, i)
  <2>1. from[i] = Invalid /\ Invalid \in Seq(Int)
    BY <1>3 DEF Refuses, Invalid
  <2>2. ~Valid(from[i])
    BY <2>1, InvalidIsNot
  <2>3. ASSUME NEW u \in Seq(A), Rest(e, i) = Coded(code, u) PROVE FALSE
    <3>1. PICK y \in A, w \in Seq(A) : IsAt(code[y], e, i)
      BY <1>3, <2>3, FirstCode DEF Begun
    <3> QED
      BY <1>3, <3>1 DEF Refuses
  <2> QED
    BY <2>1, <2>2, <2>3 DEF DecodedAt
<1>4. ASSUME i \in 1 .. n, NEW x \in A, Takes(code, A, e, from, i, x)
      PROVE  DecodedAt(code, A, e, from, i)
  <2> DEFINE k == Len(code[x])  w == from[i + k]
  <2>1. code[x] \in Seq(S) /\ k \in Nat /\ k > 0 /\ x \in Nat
    BY <1>1 DEF Code
  <2>2. i + k \in i + 1 .. n + 1
    BY <1>1, <1>4, <2>1 DEF Takes, IsAt, Begins
  <2>3. DecodedAt(code, A, e, from, i + k)
    BY <2>2
  <2>4. w \in Seq(Int) /\ from[i] = <<x>> \o w /\ IsAt(code[x], e, i)
    BY <1>4, <2>3 DEF DecodedAt, Takes
  <2>5. from[i] \in Seq(Int)
    <3>1. <<x>> \in Seq(Int)
      BY <2>1
    <3> HIDE DEF w
    <3> QED
      BY <2>4, <3>1
  <2>6. ASSUME Valid(from[i])
        PROVE  from[i] \in Seq(A) /\ Rest(e, i) = Coded(code, from[i])
    <3>1. Valid(w)
      <4> HIDE DEF w
      <4>1. \A j \in DOMAIN w : w[j] = from[i][j + 1] /\ j + 1 \in DOMAIN from[i]
        <5>1. <<x>> \in Seq(Int) /\ Len(<<x>>) = 1
          BY <2>1
        <5>2. w \in Seq(Int) /\ from[i] = <<x>> \o w
          BY <2>4
        <5>3. /\ from[i] \in Seq(Int) /\ Len(from[i]) = 1 + Len(w)
              /\ \A j \in 1 .. 1 + Len(w) : from[i][j] = IF j <= 1 THEN <<x>>[j] ELSE w[j - 1]
          BY <5>1, <5>2, ConcatProperties
        <5> TAKE j \in DOMAIN w
        <5>4. /\ Len(w) \in Nat /\ j \in 1 .. Len(w) /\ DOMAIN from[i] = 1 .. Len(from[i])
          BY <5>2, <5>3
        <5>5. j + 1 \in 1 .. 1 + Len(w) /\ ~(j + 1 <= 1) /\ (j + 1) - 1 = j
          BY <5>4
        <5> QED
          BY <5>3, <5>4, <5>5
      <4> QED
        BY <2>6, <4>1 DEF Valid, Range
    <3>2. w \in Seq(A) /\ Rest(e, i + k) = Coded(code, w)
      BY <2>3, <3>1 DEF DecodedAt
    <3>3. Coded(code, w) \in Seq(S) /\ CodedFirst(code, x, w)
      BY <1>1, <3>2, CodedFacts
    <3>4. Splits(e, i, code[x], Coded(code, w))
      <4>1. i + k \in 1 .. Len(e) + 1
        BY <1>1, <2>2
      <4> HIDE DEF w
      <4> QED
        BY <2>1, <2>4, <3>2, <3>3, <4>1, RestSplits
    <3>5. <<x>> \o w \in Seq(A)
      <4>1. <<x>> \in Seq(A)
        OBVIOUS
      <4> HIDE DEF w
      <4> QED
        BY <3>2, <4>1
    <3> HIDE DEF w
    <3> QED
      BY <2>4, <3>3, <3>4, <3>5, Zenon DEF CodedFirst, Splits
  <2>7. ASSUME NEW u \in Seq(A), Rest(e, i) = Coded(code, u) PROVE from[i] = u
    <3>1. PICK y \in A, v \in Seq(A) :
            u = <<y>> \o v /\ IsAt(code[y], e, i) /\ Rest(e, i + Len(code[y])) = Coded(code, v)
      <4>1. Begun(code, A, e, i, u)
        BY <1>4, <2>7, FirstCode
      <4> QED
        BY <4>1 DEF Begun
    <3>2. y = x
      BY <1>4, <3>1 DEF Takes
    <3>3. w = v
      BY <2>3, <3>1, <3>2 DEF DecodedAt
    <3> HIDE DEF w
    <3> QED
      BY <2>4, <3>1, <3>2, <3>3
  <2> QED
    BY <2>5, <2>6, <2>7 DEF DecodedAt
<1>5. i = n + 1 \/ i \in 1 .. n
  BY <1>1
<1>6. i \in 1 .. n => Refuses(code, A, e, from, i) \/ \E x \in A : Takes(code, A, e, from, i, x)
  BY DEF Decodes
<1> QED
  BY <1>2, <1>3, <1>4, <1>5, <1>6

\* So it does at each position.
LEMMA Decoded ==
  ASSUME NEW S, NEW A, NEW code, Code(code, A, S), NEW e \in Seq(S), NEW from,
         Decodes(code, A, e, from)
  PROVE  \A i \in 1 .. Len(e) + 1 : DecodedAt(code, A, e, from, i)
<1> DEFINE n == Len(e)
           From(m) == \A i \in 1 .. n + 1 : i >= n + 1 - m => DecodedAt(code, A, e, from, i)
           T == {m \in Nat : From(m)}
<1>1. n \in Nat
  OBVIOUS
<1>2. 0 \in T
  <2>1. \A i \in 1 .. n + 1 : i >= n + 1 - 0 => i + 1 .. n + 1 = {}
    BY <1>1
  <2>2. From(0)
    BY <2>1, DecodedStep
  <2> QED
    BY <2>2
<1>3. ASSUME NEW m \in Nat, m \in T PROVE m + 1 \in T
  <2>1. ASSUME NEW i \in 1 .. n + 1, i >= n + 1 - (m + 1) PROVE DecodedAt(code, A, e, from, i)
    <3>1. \A j \in i + 1 .. n + 1 : j \in 1 .. n + 1 /\ j >= n + 1 - m
      BY <1>1, <2>1
    <3>2. \A j \in i + 1 .. n + 1 : DecodedAt(code, A, e, from, j)
      BY <1>3, <3>1
    <3> QED
      BY <3>2, DecodedStep
  <2> QED
    BY <2>1
<1>4. Nat \subseteq T
  <2> HIDE DEF T
  <2> QED
    BY <1>2, <1>3, Induction
<1>5. From(n)
  BY <1>1, <1>4
<1> QED
  BY <1>1, <1>5

\* u has the quotient v by m and the remainder q.
By(m, u, v, q) == v \in Nat /\ q \in 0 .. m - 1 /\ u = v * m + q
\* These are what the operators return.
Divides(m, u, v, q) == u \div m = v /\ u % m = q

\* Of a division by 64.
LEMMA By64 ==
  ASSUME NEW u, NEW v, NEW q, By(64, u, v, q)
  PROVE  Divides(64, u, v, q)
<1>1. v \in Nat /\ q \in 0 .. 63 /\ u = v * 64 + q
  BY DEF By
<1>2. u \div 64 = v
  BY <1>1
<1>3. u % 64 = q
  BY <1>1
<1> QED
  BY <1>2, <1>3 DEF Divides

\* And of one by 4096.
LEMMA By4096 ==
  ASSUME NEW u, NEW v, NEW q, By(4096, u, v, q)
  PROVE  Divides(4096, u, v, q)
<1>1. v \in Nat /\ q \in 0 .. 4095 /\ u = v * 4096 + q
  BY DEF By
<1>2. u \div 4096 = v
  BY <1>1
<1>3. u % 4096 = q
  BY <1>1
<1> QED
  BY <1>2, <1>3 DEF Divides

\* u has three digits to that base.
Has(u, w, s, r) ==
  w \in 0 .. 15 /\ s \in 0 .. 63 /\ r \in 0 .. 63 /\ u = w * 4096 + s * 64 + r

\* Then division finds the digits.
LEMMA Digits64 ==
  ASSUME NEW u, NEW w, NEW s, NEW r, Has(u, w, s, r)
  PROVE  /\ u \div 4096 = w /\ u \div 64 = w * 64 + s
         /\ (u \div 64) % 64 = s /\ u % 64 = r
<1>1. By(4096, u, w, s * 64 + r)
  BY DEF By, Has
<1>2. By(64, u, w * 64 + s, r)
  BY DEF By, Has
<1>3. By(64, w * 64 + s, w, s)
  BY DEF By, Has
<1>4. u \div 4096 = w
  BY <1>1, By4096 DEF Divides
<1>6. u \div 64 = w * 64 + s /\ u % 64 = r
  BY <1>2, By64 DEF Divides
<1>7. By(64, u \div 64, w, s)
  BY <1>3, <1>6, Zenon
<1>8. (u \div 64) % 64 = s
  BY <1>7, By64, Zenon DEF Divides
<1> QED
  BY <1>4, <1>6, <1>8

\* Every number can be divided.
LEMMA IsBy64 ==
  ASSUME NEW u \in Nat
  PROVE  By(64, u, u \div 64, u % 64)
<1>1. u = (u \div 64) * 64 + (u % 64) /\ u \div 64 \in Nat
  OBVIOUS
<1>2. u % 64 \in 0 .. 63
  OBVIOUS
<1>3. 64 - 1 = 63
  OBVIOUS
<1> QED
  BY <1>1, <1>2, <1>3, Zenon DEF By

\* Two divisions give three digits.
LEMMA TwiceBy64 ==
  ASSUME NEW u, NEW v, NEW w, NEW s, NEW r, By(64, u, v, r), By(64, v, w, s), u < 65536
  PROVE  Has(u, w, s, r)
<1>1. /\ u \in Int /\ v \in Int /\ w \in Int /\ s \in Int /\ r \in Int
      /\ v = w * 64 + s /\ u = v * 64 + r /\ w >= 0 /\ s >= 0 /\ r >= 0 /\ s <= 63 /\ r <= 63
  BY DEF By
<1>2. u = w * 4096 + s * 64 + r
  BY <1>1
<1>3. w <= 15
  BY <1>1
<1> QED
  BY <1>1, <1>2, <1>3 DEF Has

\* So each number of 16 bits has them.
LEMMA Has64Digits ==
  ASSUME NEW u \in Nat, u < 65536
  PROVE  \E w, s, r : Has(u, w, s, r)
<1>2. By(64, u, u \div 64, u % 64)
  BY IsBy64
<1>3. PICK v, r : By(64, u, v, r)
  BY <1>2
<1>4. v \in Nat
  BY <1>3 DEF By
<1>5. By(64, v, v \div 64, v % 64)
  BY <1>4, IsBy64
<1>6. PICK w, s : By(64, v, w, s)
  BY <1>5
<1>7. Has(u, w, s, r)
  BY <1>3, <1>6, TwiceBy64
<1> QED
  BY <1>7

\* What is left of a byte without the bits that mark it.
LEMMA LowBits ==
  ASSUME NEW x
  PROVE  /\ x \in 192 .. 223 => x % 32 = x - 192
         /\ x \in 224 .. 239 => x % 16 = x - 224
         /\ x \in 128 .. 191 => x % 64 = x - 128
<1>1. ASSUME x \in 192 .. 223 PROVE x % 32 = x - 192
  BY <1>1
<1>2. ASSUME x \in 224 .. 239 PROVE x % 16 = x - 224
  BY <1>2
<1>3. ASSUME x \in 128 .. 191 PROVE x % 64 = x - 128
  BY <1>3
<1> QED
  BY <1>1, <1>2, <1>3

\* The bytes of units of two and of three digits.
AreTwo(u, x, y) == x = 192 + u \div 64 /\ y = 128 + (u % 64)
\* And of those of three.
AreThree(u, x, y, z) ==
  x = 224 + u \div 4096 /\ y = 128 + ((u \div 64) % 64) /\ z = 128 + (u % 64)

\* Two bytes are read as the unit that is written as those.
LEMMA TwoBytesOf ==
  ASSUME NEW u \in Nat, u = 0 \/ u > 127, u < 2048, NEW x, NEW y
  PROVE  AreTwo(u, x, y) <=> MayTakeTwo(x, y) /\ u = TwoBytes(x, y)
<1>1. PICK w, s, r : Has(u, w, s, r)
  <2>1. u < 65536
    OBVIOUS
  <2> QED
    BY <2>1, Has64Digits
<1>2. u \div 64 = w * 64 + s /\ u % 64 = r
  BY <1>1, Digits64
<1>0. /\ w \in Int /\ w >= 0 /\ s \in Int /\ s >= 0 /\ s <= 63 /\ r \in Int /\ r >= 0 /\ r <= 63
      /\ u = w * 4096 + s * 64 + r
  BY <1>1 DEF Has
<1>9. w = 0
  BY <1>0
<1>3. w = 0 /\ s <= 31 /\ u = s * 64 + r
  BY <1>0, <1>9
<1>4. u \div 64 = s
  BY <1>0, <1>2, <1>3
<1>5. ASSUME x = 192 + s, y = 128 + r PROVE MayTakeTwo(x, y) /\ u = TwoBytes(x, y)
  <2>1. x \in 192 .. 223 /\ y \in 128 .. 191 /\ x - 192 = s /\ y - 128 = r
    BY <1>0, <1>3, <1>5
  <2>2. x % 32 = s
    BY <2>1, LowBits
  <2>3. y % 64 = r
    BY <2>1, LowBits
  <2>4. TwoBytes(x, y) = s * 64 + r
    BY <2>2, <2>3 DEF TwoBytes
  <2> HIDE DEF TwoBytes
  <2> QED
    BY <1>3, <2>1, <2>4 DEF MayTakeTwo, Continuation
<1>6. ASSUME MayTakeTwo(x, y), u = TwoBytes(x, y) PROVE x = 192 + s /\ y = 128 + r
  <2>1. x \in 192 .. 223 /\ y \in 128 .. 191
    BY <1>6 DEF MayTakeTwo, Continuation
  <2>2. x % 32 = x - 192
    BY <2>1, LowBits
  <2>3. y % 64 = y - 128
    BY <2>1, LowBits
  <2>4. u = (x - 192) * 64 + (y - 128)
    BY <1>6, <2>2, <2>3 DEF TwoBytes
  <2>5. x \in Int /\ y \in Int /\ x >= 192 /\ y >= 128 /\ y <= 191
    BY <2>1
  <2>6. s * 64 + r = (x - 192) * 64 + (y - 128)
    BY <1>3, <2>4
  <2> QED
    BY <1>0, <2>5, <2>6
<1> QED
  BY <1>2, <1>4, <1>5, <1>6 DEF AreTwo

\* And three bytes likewise.
LEMMA ThreeBytesOf ==
  ASSUME NEW u \in Nat, u >= 2048, u < 65536, NEW x, NEW y, NEW z
  PROVE  AreThree(u, x, y, z) <=> MayTakeThree(x, y, z) /\ u = ThreeBytes(x, y, z)
<1>1. PICK w, s, r : Has(u, w, s, r)
  <2>1. u < 65536
    OBVIOUS
  <2> QED
    BY <2>1, Has64Digits
<1>2. u \div 4096 = w /\ (u \div 64) % 64 = s /\ u % 64 = r
  BY <1>1, Digits64
<1>3. /\ w \in Int /\ w >= 0 /\ w <= 15 /\ s \in Int /\ s >= 0 /\ s <= 63
      /\ r \in Int /\ r >= 0 /\ r <= 63 /\ u = w * 4096 + s * 64 + r
  BY <1>1 DEF Has
<1>4. ASSUME x = 224 + w, y = 128 + s, z = 128 + r
      PROVE  MayTakeThree(x, y, z) /\ u = ThreeBytes(x, y, z)
  <2>1. /\ x \in 224 .. 239 /\ y \in 128 .. 191 /\ z \in 128 .. 191
        /\ x - 224 = w /\ y - 128 = s /\ z - 128 = r
    BY <1>3, <1>4
  <2>2. x % 16 = w
    BY <2>1, LowBits
  <2>3. y % 64 = s
    BY <2>1, LowBits
  <2>4. z % 64 = r
    BY <2>1, LowBits
  <2>5. ThreeBytes(x, y, z) = u
    BY <1>3, <2>2, <2>3, <2>4 DEF ThreeBytes
  <2> HIDE DEF ThreeBytes
  <2> QED
    BY <2>1, <2>5 DEF MayTakeThree, Continuation
<1>5. ASSUME MayTakeThree(x, y, z), u = ThreeBytes(x, y, z)
      PROVE  x = 224 + w /\ y = 128 + s /\ z = 128 + r
  <2>1. x \in 224 .. 239 /\ y \in 128 .. 191 /\ z \in 128 .. 191
    BY <1>5 DEF MayTakeThree, Continuation
  <2>2. x % 16 = x - 224
    BY <2>1, LowBits
  <2>3. y % 64 = y - 128
    BY <2>1, LowBits
  <2>4. z % 64 = z - 128
    BY <2>1, LowBits
  <2>5. u = (x - 224) * 4096 + (y - 128) * 64 + (z - 128)
    BY <1>5, <2>2, <2>3, <2>4 DEF ThreeBytes
  <2>6. w * 4096 + s * 64 + r = (x - 224) * 4096 + (y - 128) * 64 + (z - 128)
    BY <1>3, <2>5
  <2>7. /\ x \in Int /\ y \in Int /\ z \in Int /\ x >= 224 /\ x <= 239 /\ y >= 128 /\ y <= 191
        /\ z >= 128 /\ z <= 191
    BY <2>1
  <2> QED
    BY <1>3, <2>6, <2>7
<1> QED
  BY <1>2, <1>4, <1>5 DEF AreThree

\* A byte.
Byte == {b \in Nat : b < 256}
\* A code unit of UTF-16.
Unit == {u \in Nat : u < 65536}
\* The bytes of each.
UnitCode == [u \in Unit |-> UnitBytes(u)]

\* UnitBytes is a code, of one to three bytes.
LEMMA UnitCodeIsCode == Code(UnitCode, Unit, Byte)
<1>1. ASSUME NEW u \in Unit PROVE UnitBytes(u) \in Seq(Byte) /\ Len(UnitBytes(u)) > 0
  <2>0. u \in Nat /\ u < 65536
    BY DEF Unit
  <2>4. \A b \in Nat : b < 256 => b \in Byte
    BY DEF Byte
  <2>1. CASE u \in 1 .. 127
    <3>1. UnitBytes(u) = <<u>> /\ u \in Byte
      BY <2>1 DEF UnitBytes, Byte
    <3> QED
      BY <3>1
  <2>2. CASE u \notin 1 .. 127 /\ u < 2048
    <3>1. UnitBytes(u) = <<192 + u \div 64, 128 + (u % 64)>>
      BY <2>2 DEF UnitBytes
    <3>2. AreTwo(u, 192 + u \div 64, 128 + (u % 64))
      BY Zenon DEF AreTwo
    <3>3. MayTakeTwo(192 + u \div 64, 128 + (u % 64))
      BY <2>0, <2>2, <3>2, TwoBytesOf
    <3>4. 192 + u \div 64 \in Byte /\ 128 + (u % 64) \in Byte
      BY <3>3 DEF MayTakeTwo, Continuation, Byte
    <3> QED
      BY <3>1, <3>4
  <2>3. CASE u \notin 1 .. 127 /\ ~(u < 2048)
    <3>1. UnitBytes(u) = <<224 + u \div 4096, 128 + ((u \div 64) % 64), 128 + (u % 64)>>
      BY <2>3 DEF UnitBytes
    <3>2. AreThree(u, 224 + u \div 4096, 128 + ((u \div 64) % 64), 128 + (u % 64))
      BY Zenon DEF AreThree
    <3>3. MayTakeThree(224 + u \div 4096, 128 + ((u \div 64) % 64), 128 + (u % 64))
      BY <2>0, <2>3, <3>2, ThreeBytesOf
    <3>4. /\ 224 + u \div 4096 \in Byte /\ 128 + ((u \div 64) % 64) \in Byte
          /\ 128 + (u % 64) \in Byte
      BY <3>3 DEF MayTakeThree, Continuation, Byte
    <3> QED
      BY <3>1, <3>4
  <2> QED
    BY <2>1, <2>2, <2>3
<1>2. Unit \subseteq Nat
  BY DEF Unit
<1>3. UnitCode \in [Unit -> Seq(Byte)]
  BY <1>1 DEF UnitCode
<1>4. \A u \in Unit : Len(UnitCode[u]) > 0
  BY <1>1 DEF UnitCode
<1> QED
  BY <1>2, <1>3, <1>4 DEF Code

\* The bytes at i are those of a unit of one byte, of two, or of three.
OneAt(e, i, u) == i <= Len(e) /\ e[i] = u /\ u \in 1 .. 127
\* Of two.
TwoAt(e, i, u) ==
  /\ i + 1 <= Len(e) /\ MayTakeTwo(e[i], e[i + 1]) /\ u = TwoBytes(e[i], e[i + 1])
\* Of three.
ThreeAt(e, i, u) ==
  /\ i + 2 <= Len(e) /\ MayTakeThree(e[i], e[i + 1], e[i + 2])
  /\ u = ThreeBytes(e[i], e[i + 1], e[i + 2])

\* Two bytes are read as a number below 2048, three as one from there on.
LEMMA ReadUnits ==
  ASSUME NEW x, NEW y, NEW z
  PROVE  /\ MayTakeTwo(x, y) => TwoBytes(x, y) \in Nat /\ TwoBytes(x, y) < 2048
         /\ MayTakeThree(x, y, z) => /\ ThreeBytes(x, y, z) \in Nat
                                     /\ ThreeBytes(x, y, z) < 65536
<1>1. ASSUME MayTakeTwo(x, y) PROVE TwoBytes(x, y) \in Nat /\ TwoBytes(x, y) < 2048
  <2>1. x \in 192 .. 223 /\ y \in 128 .. 191
    BY <1>1 DEF MayTakeTwo, Continuation
  <2>2. x % 32 = x - 192
    BY <2>1, LowBits
  <2>3. y % 64 = y - 128
    BY <2>1, LowBits
  <2>4. TwoBytes(x, y) = (x - 192) * 64 + (y - 128)
    BY <2>2, <2>3 DEF TwoBytes
  <2>5. x \in Int /\ y \in Int /\ x >= 192 /\ x <= 223 /\ y >= 128 /\ y <= 191
    BY <2>1
  <2> HIDE DEF TwoBytes
  <2> QED
    BY <2>4, <2>5
<1>2. ASSUME MayTakeThree(x, y, z)
      PROVE  ThreeBytes(x, y, z) \in Nat /\ ThreeBytes(x, y, z) < 65536
  <2>1. x \in 224 .. 239 /\ y \in 128 .. 191 /\ z \in 128 .. 191
    BY <1>2 DEF MayTakeThree, Continuation
  <2>2. x % 16 = x - 224
    BY <2>1, LowBits
  <2>3. y % 64 = y - 128
    BY <2>1, LowBits
  <2>4. z % 64 = z - 128
    BY <2>1, LowBits
  <2>5. ThreeBytes(x, y, z) = (x - 224) * 4096 + (y - 128) * 64 + (z - 128)
    BY <2>2, <2>3, <2>4 DEF ThreeBytes
  <2>6. /\ x \in Int /\ y \in Int /\ z \in Int /\ x >= 224 /\ x <= 239
        /\ y >= 128 /\ y <= 191 /\ z >= 128 /\ z <= 191
    BY <2>1
  <2> HIDE DEF ThreeBytes
  <2> QED
    BY <2>5, <2>6
<1> QED
  BY <1>1, <1>2

\* The code of a unit is there just if one of the three is, and it is that long.
LEMMA UnitAt ==
  ASSUME NEW e \in Seq(Byte), NEW i \in 1 .. Len(e), NEW u \in Unit
  PROVE  /\ IsAt(UnitCode[u], e, i) <=> OneAt(e, i, u) \/ TwoAt(e, i, u) \/ ThreeAt(e, i, u)
         /\ OneAt(e, i, u) => Len(UnitCode[u]) = 1
         /\ TwoAt(e, i, u) => Len(UnitCode[u]) = 2
         /\ ThreeAt(e, i, u) => Len(UnitCode[u]) = 3
<1> DEFINE n == Len(e)
<1>1. n \in Nat /\ \A j \in 1 .. n : e[j] \in Nat
  <2>1. n \in Nat /\ \A j \in 1 .. n : e[j] \in Byte
    OBVIOUS
  <2> QED
    BY <2>1 DEF Byte
<1>2. UnitCode[u] = UnitBytes(u) /\ u \in Nat /\ u < 65536
  <2>1. UnitCode[u] = UnitBytes(u)
    BY DEF UnitCode
  <2>2. u \in Nat /\ u < 65536
    BY DEF Unit
  <2> QED
    BY <2>1, <2>2
<1>3. CASE u \in 1 .. 127
  <2>1. UnitBytes(u) = <<u>>
    BY <1>3 DEF UnitBytes
  <2>2. IsAt(<<u>>, e, i) <=> OneAt(e, i, u)
    BY <1>1, <1>3 DEF IsAt, Begins, OneAt
  <2>3. ~TwoAt(e, i, u)
    BY <1>3 DEF TwoAt, MayTakeTwo
  <2>4. ~ThreeAt(e, i, u)
    <3> HIDE DEF ThreeBytes
    <3> QED
      BY <1>1, <1>3 DEF ThreeAt, MayTakeThree
  <2> QED
    BY <1>2, <2>1, <2>2, <2>3, <2>4
<1>4. CASE u \notin 1 .. 127 /\ u < 2048
  <2> DEFINE a == 192 + u \div 64  b == 128 + (u % 64)
  <2>1. UnitBytes(u) = <<a, b>>
    BY <1>4 DEF UnitBytes
  <2>2. IsAt(<<a, b>>, e, i) <=> i + 1 <= n /\ e[i] = a /\ e[i + 1] = b
    <3> HIDE DEF a, b
    <3>1. Len(<<a, b>>) = 2 /\ <<a, b>>[1] = a /\ <<a, b>>[2] = b /\ \A j \in 1 .. 2 : j = 1 \/ j = 2
      OBVIOUS
    <3>2. i - 1 + 1 = i /\ i - 1 + 2 = i + 1 /\ (i - 1 + 2 <= n <=> i + 1 <= n)
      BY <1>1
    <3> QED
      BY <3>1, <3>2 DEF IsAt, Begins
  <2>3. ~OneAt(e, i, u)
    BY <1>4 DEF OneAt
  <2>4. ~ThreeAt(e, i, u)
    <3>1. u < 2048 /\ u \in Nat
      BY <1>2, <1>4
    <3> QED
      BY <3>1 DEF ThreeAt, MayTakeThree
  <2>5. i + 1 <= n /\ e[i] = a /\ e[i + 1] = b <=> TwoAt(e, i, u)
    <3> SUFFICES ASSUME i + 1 <= n PROVE e[i] = a /\ e[i + 1] = b <=> TwoAt(e, i, u)
      BY DEF TwoAt
    <3>2. e[i] = a /\ e[i + 1] = b <=> MayTakeTwo(e[i], e[i + 1]) /\ u = TwoBytes(e[i], e[i + 1])
      <4>1. (u = 0 \/ u > 127) /\ u < 2048
        BY <1>2, <1>4
      <4>2. AreTwo(u, e[i], e[i + 1]) <=> MayTakeTwo(e[i], e[i + 1]) /\ u = TwoBytes(e[i], e[i + 1])
        BY <1>2, <4>1, TwoBytesOf
      <4> QED
        BY <4>2, Zenon DEF AreTwo
    <3> HIDE DEF a, b
    <3> QED
      BY <3>2, Zenon DEF TwoAt
  <2> QED
    BY <1>2, <2>1, <2>2, <2>3, <2>4, <2>5
<1>5. CASE u \notin 1 .. 127 /\ ~(u < 2048)
  <2> DEFINE a == 224 + u \div 4096  b == 128 + ((u \div 64) % 64)  c == 128 + (u % 64)
  <2>1. UnitBytes(u) = <<a, b, c>>
    BY <1>5 DEF UnitBytes
  <2>2. IsAt(<<a, b, c>>, e, i) <=> i + 2 <= n /\ e[i] = a /\ e[i + 1] = b /\ e[i + 2] = c
    <3> HIDE DEF a, b, c
    <3>1. /\ Len(<<a, b, c>>) = 3 /\ <<a, b, c>>[1] = a /\ <<a, b, c>>[2] = b
          /\ <<a, b, c>>[3] = c /\ \A j \in 1 .. 3 : j = 1 \/ j = 2 \/ j = 3
      OBVIOUS
    <3>2. /\ i - 1 + 1 = i /\ i - 1 + 2 = i + 1 /\ i - 1 + 3 = i + 2
          /\ (i - 1 + 3 <= n <=> i + 2 <= n)
      BY <1>1
    <3> QED
      BY <3>1, <3>2 DEF IsAt, Begins
  <2>3. ~OneAt(e, i, u)
    BY <1>5 DEF OneAt
  <2>4. ~TwoAt(e, i, u)
    <3>1. ~(u < 2048)
      BY <1>5
    <3> QED
      BY <3>1, ReadUnits DEF TwoAt
  <2>5. i + 2 <= n /\ e[i] = a /\ e[i + 1] = b /\ e[i + 2] = c <=> ThreeAt(e, i, u)
    <3> SUFFICES ASSUME i + 2 <= n
                 PROVE  e[i] = a /\ e[i + 1] = b /\ e[i + 2] = c <=> ThreeAt(e, i, u)
      BY DEF ThreeAt
    <3>2. e[i] = a /\ e[i + 1] = b /\ e[i + 2] = c <=>
            MayTakeThree(e[i], e[i + 1], e[i + 2]) /\ u = ThreeBytes(e[i], e[i + 1], e[i + 2])
      <4>1. u >= 2048
        BY <1>2, <1>5
      <4>2. AreThree(u, e[i], e[i + 1], e[i + 2]) <=>
              MayTakeThree(e[i], e[i + 1], e[i + 2]) /\ u = ThreeBytes(e[i], e[i + 1], e[i + 2])
        BY <1>2, <4>1, ThreeBytesOf
      <4> QED
        BY <4>2, Zenon DEF AreThree
    <3> HIDE DEF a, b, c
    <3> QED
      BY <3>2, Zenon DEF ThreeAt
  <2> QED
    BY <1>2, <2>1, <2>2, <2>3, <2>4, <2>5
<1> QED
  BY <1>3, <1>4, <1>5

\* s is what a decoder returns of all of e.
DecodedTo(code, A, e, s) ==
  /\ s \in Seq(Int)
  /\ Valid(s) => s \in Seq(A) /\ e = Coded(code, s)
  /\ \A u \in Seq(A) : e = Coded(code, u) => s = u

\* It does, when it decodes at each position.
LEMMA DecodedFromFirst ==
  ASSUME NEW S, NEW A, NEW code, Code(code, A, S), NEW e \in Seq(S), NEW from,
         Decodes(code, A, e, from)
  PROVE  DecodedTo(code, A, e, from[1])
<1>1. Len(e) \in Nat /\ 1 \in 1 .. Len(e) + 1
  OBVIOUS
<1>2. DecodedAt(code, A, e, from, 1)
  BY <1>1, Decoded
<1>3. Rest(e, 1) = e
  <2>1. /\ Rest(e, 1) \in Seq(S) /\ Len(Rest(e, 1)) = Len(e) + 1 - 1
        /\ \A j \in 1 .. Len(e) + 1 - 1 : Rest(e, 1)[j] = e[1 - 1 + j]
    BY <1>1, RestFacts
  <2>2. Len(e) + 1 - 1 = Len(e) /\ \A j \in 1 .. Len(e) : 1 - 1 + j = j
    BY <1>1
  <2> QED
    BY <2>1, <2>2, SeqEqual
<1> QED
  BY <1>2, <1>3 DEF DecodedAt, DecodedTo

\* The first byte tells how many there are, and these are a unit.
LEMMA FirstByte ==
  ASSUME NEW x, NEW y, NEW z
  PROVE  /\ x \in 1 .. 127 => ~MayTakeTwo(x, y) /\ ~MayTakeThree(x, y, z) /\ x \in Unit
         /\ MayTakeTwo(x, y) => ~MayTakeThree(x, y, z) /\ TwoBytes(x, y) \in Unit
         /\ MayTakeThree(x, y, z) => ThreeBytes(x, y, z) \in Unit
<1>1. \A u \in Nat : u < 65536 => u \in Unit
  BY DEF Unit
<1>2. x \in 1 .. 127 => x \in Nat /\ x < 65536
  OBVIOUS
<1>3. MayTakeTwo(x, y) => x >= 192 /\ x <= 223 /\ x \in Int
  BY DEF MayTakeTwo
<1>4. MayTakeThree(x, y, z) => x >= 224 /\ x \in Int
  BY DEF MayTakeThree
<1>5. x \in 1 .. 127 => ~MayTakeTwo(x, y) /\ ~MayTakeThree(x, y, z)
  BY <1>3, <1>4
<1>6. MayTakeTwo(x, y) => ~MayTakeThree(x, y, z)
  BY <1>3, <1>4
<1>7. MayTakeTwo(x, y) => TwoBytes(x, y) \in Nat /\ TwoBytes(x, y) < 65536
  BY ReadUnits
<1>8. MayTakeThree(x, y, z) => ThreeBytes(x, y, z) \in Nat /\ ThreeBytes(x, y, z) < 65536
  BY ReadUnits
<1> QED
  BY <1>1, <1>2, <1>5, <1>6, <1>7, <1>8

\* The first loop of decodeJavaModifiedUTF8 decodes code units.
LEMMA UnitsDecoded ==
  ASSUME NEW e \in Seq(Byte)
  PROVE  DecodedTo(UnitCode, Unit, e, CodeUnits(e))
<1> DEFINE n == Len(e)
           D == 1 .. n + 3
           V == Seq(Int)
           Step(g, i) ==
             IF i > n THEN <<>>
             ELSE IF e[i] \in 1 .. 127
               THEN <<e[i]>> \o g[i + 1]
             ELSE IF i + 1 <= n /\ MayTakeTwo(e[i], e[i + 1])
               THEN <<TwoBytes(e[i], e[i + 1])>> \o g[i + 2]
             ELSE IF i + 2 <= n /\ MayTakeThree(e[i], e[i + 1], e[i + 2])
               THEN <<ThreeBytes(e[i], e[i + 1], e[i + 2])>> \o g[i + 3]
             ELSE Invalid
           F == [g \in [D -> V] |-> [i \in D |-> Step(g, i)]]
           rank == [i \in D |-> n + 3 - i]
           Is(g) == g = [i \in D |-> Step(g, i)]
           from == CHOOSE g : Is(g)
<1>1. n \in Nat /\ \A i \in 1 .. n : e[i] \in Byte
  OBVIOUS
<1>2. \A i \in D : ~(i > n) => /\ i \in 1 .. n /\ i + 1 \in D /\ i + 2 \in D /\ i + 3 \in D
                               /\ i + 1 > i /\ i + 2 > i /\ i + 3 > i
  BY <1>1
<1>3. /\ Invalid \in V /\ <<>> \in V
      /\ \A x \in Int, s \in V : <<x>> \o s \in V
  BY DEF Invalid
<1>4. \A i \in 1 .. n : e[i] \in Int
  <2>1. \A b \in Byte : b \in Int
    BY DEF Byte
  <2> QED
    BY <1>1, <2>1
<1>5. /\ \A x, y : MayTakeTwo(x, y) => TwoBytes(x, y) \in Int
      /\ \A x, y, z : MayTakeThree(x, y, z) => ThreeBytes(x, y, z) \in Int
  BY ReadUnits
<1>6. Ranked(D, V, rank, n + 3, F)
  <2>1. rank \in [D -> Nat] /\ \A i \in D : rank[i] < n + 3
    BY <1>1
  <2>2. ASSUME NEW g \in [D -> V] PROVE F[g] \in [D -> V]
    <3>1. \A i \in D : Step(g, i) \in V
      <4> TAKE i \in D
      <4>1. ~(i > n) => g[i + 1] \in V /\ g[i + 2] \in V /\ g[i + 3] \in V /\ e[i] \in Int
        BY <1>2, <1>4
      <4> HIDE DEF V
      <4> QED
        BY <1>3, <1>5, <4>1
    <3> HIDE DEF Step, V
    <3> QED
      BY <3>1
  <2>3. ASSUME NEW g \in [D -> V], NEW h \in [D -> V], NEW i \in D,
               \A j \in D : rank[j] < rank[i] => g[j] = h[j]
        PROVE  F[g][i] = F[h][i]
    <3>1. ~(i > n) => g[i + 1] = h[i + 1] /\ g[i + 2] = h[i + 2] /\ g[i + 3] = h[i + 3]
      <4>1. \A j \in D : j > i => rank[j] < rank[i]
        BY <1>1
      <4> HIDE DEF rank, D
      <4> QED
        BY <1>2, <2>3, <4>1
    <3>2. Step(g, i) = Step(h, i)
      BY <3>1
    <3> HIDE DEF Step
    <3> QED
      BY <3>2
  <2> HIDE DEF D, V, F, rank
  <2> QED
    BY <2>1, <2>2, <2>3 DEF Ranked
<1>7. Solved(D, V, F)
  <2>1. n + 3 \in Nat
    BY <1>1
  <2> HIDE DEF D, V, F, rank
  <2>2. V # {}
    BY <1>3
  <2> QED
    BY <1>6, <2>1, <2>2, Solvable
<1>8. PICK g \in [D -> V] : g = F[g]
  BY <1>7 DEF Solved
<1>9. Is(g)
  <2> HIDE DEF Step
  <2> QED
    BY <1>8
<1>10. Is(from)
  BY <1>9
<1>11. CodeUnits(e) = from[1]
  BY DEF CodeUnits
<1>12. \A i \in D : from[i] = Step(from, i)
  <2> HIDE DEF Step, from
  <2> QED
    BY <1>10
<1> HIDE DEF from
<1>13. from[n + 1] = <<>>
  <2>1. n + 1 \in D /\ n + 1 > n
    BY <1>1
  <2> QED
    BY <1>12, <2>1
<1>14. ASSUME NEW i \in 1 .. n
       PROVE  \/ Refuses(UnitCode, Unit, e, from, i)
              \/ \E x \in Unit : Takes(UnitCode, Unit, e, from, i, x)
  <2> DEFINE One == e[i] \in 1 .. 127
             Two == i + 1 <= n /\ MayTakeTwo(e[i], e[i + 1])
             Three == i + 2 <= n /\ MayTakeThree(e[i], e[i + 1], e[i + 2])
             At(u) == OneAt(e, i, u) \/ TwoAt(e, i, u) \/ ThreeAt(e, i, u)
  <2>1. i \in D /\ ~(i > n) /\ i <= n
    BY <1>1
  <2>2. \A u \in Unit : /\ IsAt(UnitCode[u], e, i) <=> At(u)
                        /\ OneAt(e, i, u) => Len(UnitCode[u]) = 1
                        /\ TwoAt(e, i, u) => Len(UnitCode[u]) = 2
                        /\ ThreeAt(e, i, u) => Len(UnitCode[u]) = 3
    BY UnitAt
  <2>3. /\ One => ~Two /\ ~Three
        /\ Two => ~Three
    BY FirstByte
  <2>4. from[i] = Step(from, i)
    BY <1>12, <2>1
  <2>5. /\ \A u : OneAt(e, i, u) <=> One /\ u = e[i]
        /\ \A u : TwoAt(e, i, u) <=> Two /\ u = TwoBytes(e[i], e[i + 1])
        /\ \A u : ThreeAt(e, i, u) <=> Three /\ u = ThreeBytes(e[i], e[i + 1], e[i + 2])
    <3> HIDE DEF n
    <3>1. \A u : OneAt(e, i, u) <=> One /\ u = e[i]
      BY <2>1 DEF OneAt, n
    <3> QED
      BY <3>1, Zenon DEF TwoAt, ThreeAt, n
  <2>6. CASE One
    <3>1. e[i] \in Unit
      BY <2>6, FirstByte
    <3>2. from[i] = <<e[i]>> \o from[i + 1]
      BY <2>1, <2>4, <2>6
    <3> HIDE DEF One, Two, Three, Step, n
    <3>3. \A u \in Unit : IsAt(UnitCode[u], e, i) <=> u = e[i]
      BY <2>2, <2>3, <2>5, <2>6
    <3>4. Len(UnitCode[e[i]]) = 1
      BY <2>2, <2>5, <2>6, <3>1
    <3>5. Takes(UnitCode, Unit, e, from, i, e[i])
      BY <3>1, <3>2, <3>3, <3>4 DEF Takes
    <3> QED
      BY <3>1, <3>5
  <2>7. CASE Two
    <3> DEFINE x == TwoBytes(e[i], e[i + 1])
    <3>1. x \in Unit
      BY <2>7, FirstByte
    <3>2. from[i] = <<x>> \o from[i + 2]
      BY <2>1, <2>3, <2>4, <2>7
    <3> HIDE DEF One, Two, Three, Step, n, x
    <3>3. \A u \in Unit : IsAt(UnitCode[u], e, i) <=> u = x
      BY <2>2, <2>3, <2>5, <2>7 DEF x
    <3>4. Len(UnitCode[x]) = 2
      BY <2>2, <2>5, <2>7, <3>1 DEF x
    <3>5. Takes(UnitCode, Unit, e, from, i, x)
      BY <3>1, <3>2, <3>3, <3>4 DEF Takes
    <3> QED
      BY <3>1, <3>5
  <2>8. CASE Three
    <3> DEFINE x == ThreeBytes(e[i], e[i + 1], e[i + 2])
    <3>1. x \in Unit
      BY <2>8, FirstByte
    <3>2. from[i] = <<x>> \o from[i + 3]
      BY <2>1, <2>3, <2>4, <2>8
    <3> HIDE DEF One, Two, Three, Step, n, x
    <3>3. \A u \in Unit : IsAt(UnitCode[u], e, i) <=> u = x
      BY <2>2, <2>3, <2>5, <2>8 DEF x
    <3>4. Len(UnitCode[x]) = 3
      BY <2>2, <2>5, <2>8, <3>1 DEF x
    <3>5. Takes(UnitCode, Unit, e, from, i, x)
      BY <3>1, <3>2, <3>3, <3>4 DEF Takes
    <3> QED
      BY <3>1, <3>5
  <2>9. CASE ~One /\ ~Two /\ ~Three
    <3>1. from[i] = Invalid
      BY <2>1, <2>4, <2>9
    <3> HIDE DEF One, Two, Three, Step, n
    <3>2. \A u \in Unit : ~IsAt(UnitCode[u], e, i)
      BY <2>2, <2>5, <2>9
    <3> QED
      BY <3>1, <3>2 DEF Refuses
  <2> HIDE DEF One, Two, Three
  <2> QED
    BY <2>6, <2>7, <2>8, <2>9
<1>15. Decodes(UnitCode, Unit, e, from)
  BY <1>13, <1>14 DEF Decodes
<1> HIDE DEF n, D, V, F, rank, Is, Step
<1> QED
  BY <1>11, <1>15, UnitCodeIsCode, DecodedFromFirst

\* What a rune may be, and a text is made of.
Scalar == {r \in Nat : r < 1114112 /\ ~(r >= 55296 /\ r <= 57343)}
\* The units of each.
RuneCode == [r \in Scalar |-> Units(r)]

\* An interval by its bounds, also of so many numbers that they are not listed.
LEMMA Interval ==
  ASSUME NEW a \in Int, NEW b \in Int, NEW x
  PROVE  x \in a .. b <=> x \in Int /\ a <= x /\ x <= b
OBVIOUS

\* The surrogates, by their bounds.
LEMMA Halves ==
  ASSUME NEW u
  PROVE  /\ High(u) <=> u \in Int /\ 55296 <= u /\ u <= 56319
         /\ Low(u) <=> u \in Int /\ 56320 <= u /\ u <= 57343
<1> DEFINE a == 55296  b == 56319  c == 56320  d == 57343
<1>1. a \in Int /\ b \in Int /\ c \in Int /\ d \in Int
  OBVIOUS
<1>2. High(u) <=> u \in a .. b
  BY DEF High
<1>3. Low(u) <=> u \in c .. d
  BY DEF Low
<1> HIDE DEF a, b, c, d
<1>4. High(u) <=> u \in Int /\ a <= u /\ u <= b
  BY <1>1, <1>2, Interval
<1>5. Low(u) <=> u \in Int /\ c <= u /\ u <= d
  BY <1>1, <1>3, Interval
<1> QED
  BY <1>4, <1>5 DEF a, b, c, d

\* A division, by the bounds of what is left.
LEMMA ByBounds ==
  ASSUME NEW m \in Int, NEW u, NEW v, NEW q
  PROVE  By(m, u, v, q) <=> v \in Nat /\ q \in Int /\ 0 <= q /\ q < m /\ u = v * m + q
BY DEF By

\* A division by 1024.
LEMMA By1024 ==
  ASSUME NEW u, NEW v, NEW q, By(1024, u, v, q)
  PROVE  Divides(1024, u, v, q)
<1>1. 1024 \in Int
  OBVIOUS
<1>2. v \in Nat /\ q \in Int /\ 0 <= q /\ q < 1024 /\ u = v * 1024 + q
  BY <1>1, ByBounds
<1>3. u \div 1024 = v
  BY <1>2
<1>4. u % 1024 = q
  BY <1>2
<1> QED
  BY <1>3, <1>4 DEF Divides

\* Every number can be divided by that, too.
LEMMA IsBy1024 ==
  ASSUME NEW u \in Nat
  PROVE  By(1024, u, u \div 1024, u % 1024)
<1>1. u = (u \div 1024) * 1024 + (u % 1024) /\ u \div 1024 \in Nat
  OBVIOUS
<1>2. u % 1024 \in Int /\ 0 <= u % 1024 /\ u % 1024 < 1024
  OBVIOUS
<1>3. 1024 \in Int
  OBVIOUS
<1> QED
  BY <1>1, <1>2, <1>3, ByBounds

\* The surrogates of a rune that has two.
ArePair(r, x, y) == x = 55296 + (r - 65536) \div 1024 /\ y = 56320 + ((r - 65536) % 1024)
\* The rune that two surrogates stand for.
Paired(x, y) == 65536 + (x - 55296) * 1024 + y - 56320

\* Two surrogates are read as the rune that is written as those.
LEMMA PairOf ==
  ASSUME NEW r \in Nat, r >= 65536, r < 1114112, NEW x, NEW y
  PROVE  ArePair(r, x, y) <=> High(x) /\ Low(y) /\ r = Paired(x, y)
<1> DEFINE w == r - 65536
<1>1. w \in Nat /\ w < 1048576 /\ r = w + 65536
  OBVIOUS
<1> HIDE DEF w
<1>2. By(1024, w, w \div 1024, w % 1024)
  BY <1>1, IsBy1024
<1>3. PICK v, q : By(1024, w, v, q)
  BY <1>2
<1>4. w \div 1024 = v /\ w % 1024 = q
  BY <1>3, By1024 DEF Divides
<1>5. v \in Nat /\ q \in Int /\ 0 <= q /\ q <= 1023 /\ w = v * 1024 + q
  <2>1. 1024 \in Int
    OBVIOUS
  <2>2. v \in Nat /\ q \in Int /\ 0 <= q /\ q < 1024 /\ w = v * 1024 + q
    BY <1>3, <2>1, ByBounds
  <2>3. q <= 1023
    BY <2>2
  <2> QED
    BY <2>2, <2>3
<1>6. v <= 1023
  <2>1. w < 1048576 /\ w = v * 1024 + q /\ v \in Int /\ q \in Int /\ 0 <= q
    BY <1>1, <1>5
  <2> QED
    BY <2>1
<1>7. ArePair(r, x, y) <=> x = 55296 + v /\ y = 56320 + q
  BY <1>4 DEF ArePair, w
<1>8. ASSUME x = 55296 + v, y = 56320 + q PROVE High(x) /\ Low(y) /\ r = Paired(x, y)
  <2>1. x \in Int /\ 55296 <= x /\ x <= 56319 /\ y \in Int /\ 56320 <= y /\ y <= 57343
    BY <1>5, <1>6, <1>8
  <2>2. High(x) /\ Low(y)
    BY <2>1, Halves
  <2>3. r = Paired(x, y)
    BY <1>1, <1>5, <1>8 DEF Paired
  <2> QED
    BY <2>2, <2>3
<1>9. ASSUME High(x), Low(y), r = Paired(x, y) PROVE x = 55296 + v /\ y = 56320 + q
  <2>1. x \in Int /\ 55296 <= x /\ x <= 56319 /\ y \in Int /\ 56320 <= y /\ y <= 57343
    BY <1>9, Halves
  <2>2. w = (x - 55296) * 1024 + (y - 56320)
    BY <1>1, <1>9, <2>1 DEF Paired
  <2>3. (x - 55296) * 1024 + (y - 56320) = v * 1024 + q
    BY <1>5, <2>2
  <2> QED
    BY <1>5, <2>1, <2>3
<1> QED
  BY <1>7, <1>8, <1>9

\* It is none that has one unit.
LEMMA ReadPair ==
  ASSUME NEW x, NEW y, High(x), Low(y)
  PROVE  Paired(x, y) \in Nat /\ Paired(x, y) >= 65536 /\ Paired(x, y) < 1114112
<1>1. x \in Int /\ 55296 <= x /\ x <= 56319 /\ y \in Int /\ 56320 <= y /\ y <= 57343
  BY Halves
<1> QED
  BY <1>1 DEF Paired

\* Units is a code, of one or two units.
LEMMA RuneCodeIsCode == Code(RuneCode, Scalar, Unit)
<1>1. ASSUME NEW r \in Scalar PROVE Units(r) \in Seq(Unit) /\ Len(Units(r)) > 0
  <2>1. r \in Nat /\ r < 1114112
    BY DEF Scalar
  <2>2. \A u \in Nat : u < 65536 => u \in Unit
    BY DEF Unit
  <2>3. CASE r < 65536
    <3>1. Units(r) = <<r>> /\ r \in Unit
      BY <2>1, <2>2, <2>3 DEF Units
    <3> QED
      BY <3>1
  <2>4. CASE ~(r < 65536)
    <3> DEFINE x == 55296 + (r - 65536) \div 1024  y == 56320 + ((r - 65536) % 1024)
    <3>1. Units(r) = <<x, y>>
      BY <2>4 DEF Units
    <3>2. ArePair(r, x, y)
      BY DEF ArePair
    <3> HIDE DEF x, y
    <3>3. r >= 65536
      BY <2>1, <2>4
    <3>4. High(x) /\ Low(y)
      BY <2>1, <3>2, <3>3, PairOf
    <3>5. x \in Nat /\ x < 65536 /\ y \in Nat /\ y < 65536
      BY <3>4, Halves
    <3>6. x \in Unit /\ y \in Unit
      BY <2>2, <3>5
    <3> QED
      BY <3>1, <3>6
  <2> QED
    BY <2>3, <2>4
<1>2. Scalar \subseteq Nat
  BY DEF Scalar
<1>3. RuneCode \in [Scalar -> Seq(Unit)]
  BY <1>1 DEF RuneCode
<1>4. \A r \in Scalar : Len(RuneCode[r]) > 0
  BY <1>1 DEF RuneCode
<1> QED
  BY <1>2, <1>3, <1>4 DEF Code

\* The units at i are those of a rune of one unit, or of two.
SingleAt(e, i, r) == i <= Len(e) /\ e[i] = r /\ ~High(e[i]) /\ ~Low(e[i])
\* Of two.
PairAt(e, i, r) ==
  i + 1 <= Len(e) /\ High(e[i]) /\ Low(e[i + 1]) /\ r = Paired(e[i], e[i + 1])

\* The code of a rune is there just if one of the two is, and it is that long.
LEMMA RuneAt ==
  ASSUME NEW e \in Seq(Unit), NEW i \in 1 .. Len(e), NEW r \in Scalar
  PROVE  /\ IsAt(RuneCode[r], e, i) <=> SingleAt(e, i, r) \/ PairAt(e, i, r)
         /\ SingleAt(e, i, r) => Len(RuneCode[r]) = 1
         /\ PairAt(e, i, r) => Len(RuneCode[r]) = 2
<1> DEFINE n == Len(e)
<1>1. n \in Nat /\ i \in Nat /\ i >= 1 /\ i <= n
  OBVIOUS
<1>2. \A j \in 1 .. n : e[j] \in Nat /\ e[j] < 65536
  <2>1. \A j \in 1 .. n : e[j] \in Unit
    OBVIOUS
  <2> QED
    BY <2>1 DEF Unit
<1>3. RuneCode[r] = Units(r)
  BY DEF RuneCode
<1>4. r \in Nat /\ r < 1114112 /\ ~(r >= 55296 /\ r <= 57343)
  BY DEF Scalar
<1>5. ~High(r) /\ ~Low(r)
  BY <1>4, Halves
<1>6. CASE r < 65536
  <2>1. Units(r) = <<r>>
    BY <1>6 DEF Units
  <2>2. IsAt(<<r>>, e, i) <=> e[i] = r
    BY <1>1 DEF IsAt, Begins
  <2>3. SingleAt(e, i, r) <=> e[i] = r
    BY <1>1, <1>5 DEF SingleAt
  <2>4. ~PairAt(e, i, r)
    BY <1>6, <1>4, ReadPair DEF PairAt
  <2>5. Len(<<r>>) = 1
    OBVIOUS
  <2> QED
    BY <1>3, <2>1, <2>2, <2>3, <2>4, <2>5
<1>7. CASE ~(r < 65536)
  <2> DEFINE x == 55296 + (r - 65536) \div 1024  y == 56320 + ((r - 65536) % 1024)
  <2>1. Units(r) = <<x, y>>
    BY <1>7 DEF Units
  <2>2. e[i] = x /\ e[i + 1] = y <=> ArePair(r, e[i], e[i + 1])
    BY DEF ArePair
  <2> HIDE DEF x, y
  <2>3. IsAt(<<x, y>>, e, i) <=> i + 1 <= n /\ e[i] = x /\ e[i + 1] = y
    <3>1. Len(<<x, y>>) = 2 /\ <<x, y>>[1] = x /\ <<x, y>>[2] = y /\ \A j \in 1 .. 2 : j = 1 \/ j = 2
      OBVIOUS
    <3>2. i - 1 + 1 = i /\ i - 1 + 2 = i + 1 /\ (i - 1 + 2 <= n <=> i + 1 <= n)
      BY <1>1
    <3> QED
      BY <3>1, <3>2 DEF IsAt, Begins
  <2>4. r >= 65536
    BY <1>4, <1>7
  <2>5. ArePair(r, e[i], e[i + 1]) <=>
          High(e[i]) /\ Low(e[i + 1]) /\ r = Paired(e[i], e[i + 1])
    BY <1>4, <2>4, PairOf
  <2>6. ~SingleAt(e, i, r)
    BY <1>1, <1>2, <1>7 DEF SingleAt
  <2>7. Len(<<x, y>>) = 2
    OBVIOUS
  <2>8. IsAt(<<x, y>>, e, i) <=> PairAt(e, i, r)
    BY <2>2, <2>3, <2>5, Zenon DEF PairAt, n
  <2> QED
    BY <1>3, <2>1, <2>6, <2>7, <2>8
<1> QED
  BY <1>6, <1>7

\* The first unit tells how many there are, and these are a rune.
LEMMA FirstUnit ==
  ASSUME NEW x, NEW y
  PROVE  /\ x \in Unit /\ ~High(x) /\ ~Low(x) => x \in Scalar
         /\ High(x) /\ Low(y) => Paired(x, y) \in Scalar
         /\ ~(High(x) /\ Low(x))
<1>1. /\ High(x) <=> x \in Int /\ 55296 <= x /\ x <= 56319
      /\ Low(x) <=> x \in Int /\ 56320 <= x /\ x <= 57343
  BY Halves
<1>2. ASSUME x \in Unit, ~High(x), ~Low(x) PROVE x \in Scalar
  <2>1. x \in Nat /\ x < 65536
    BY <1>2 DEF Unit
  <2> QED
    BY <1>1, <1>2, <2>1 DEF Scalar
<1>3. ASSUME High(x), Low(y) PROVE Paired(x, y) \in Scalar
  <2>1. Paired(x, y) \in Nat /\ Paired(x, y) >= 65536 /\ Paired(x, y) < 1114112
    BY <1>3, ReadPair
  <2> QED
    BY <2>1 DEF Scalar
<1>4. ~(High(x) /\ Low(x))
  BY <1>1
<1> QED
  BY <1>2, <1>3, <1>4

\* The second loop decodes runes.
LEMMA TextDecoded ==
  ASSUME NEW e \in Seq(Unit)
  PROVE  DecodedTo(RuneCode, Scalar, e, Text(e))
<1> DEFINE n == Len(e)
           D == 1 .. n + 2
           V == Seq(Int)
           Step(g, i) ==
             IF i > n THEN <<>>
             ELSE IF High(e[i]) /\ i + 1 <= n /\ Low(e[i + 1])
               THEN <<65536 + (e[i] - 55296) * 1024 + e[i + 1] - 56320>> \o g[i + 2]
             ELSE IF High(e[i]) \/ Low(e[i]) THEN Invalid
             ELSE <<e[i]>> \o g[i + 1]
           F == [g \in [D -> V] |-> [i \in D |-> Step(g, i)]]
           rank == [i \in D |-> n + 2 - i]
           Is(g) == g = [i \in D |-> Step(g, i)]
           from == CHOOSE g : Is(g)
           One(i) == ~High(e[i]) /\ ~Low(e[i])
           Two(i) == i + 1 <= n /\ High(e[i]) /\ Low(e[i + 1])
<1>1. n \in Nat /\ \A i \in 1 .. n : e[i] \in Unit
  OBVIOUS
<1>2. \A i \in D : ~(i > n) => /\ i \in 1 .. n /\ i + 1 \in D /\ i + 2 \in D
                               /\ i + 1 > i /\ i + 2 > i
  BY <1>1
<1>3. /\ Invalid \in V /\ <<>> \in V
      /\ \A x \in Int, s \in V : <<x>> \o s \in V
  BY DEF Invalid
<1>4. \A i \in 1 .. n : e[i] \in Int
  <2>1. \A b \in Unit : b \in Int
    BY DEF Unit
  <2> QED
    BY <1>1, <2>1
<1>5. \A g, i : Step(g, i) =
        IF i > n THEN <<>>
        ELSE IF Two(i) THEN <<Paired(e[i], e[i + 1])>> \o g[i + 2]
        ELSE IF ~One(i) THEN Invalid
        ELSE <<e[i]>> \o g[i + 1]
  BY DEF Paired
<1>6. \A i : Two(i) => Paired(e[i], e[i + 1]) \in Int
  BY ReadPair
<1> HIDE DEF One, Two, Step
<1>7. Ranked(D, V, rank, n + 2, F)
  <2>1. rank \in [D -> Nat] /\ \A i \in D : rank[i] < n + 2
    BY <1>1
  <2>2. ASSUME NEW g \in [D -> V] PROVE F[g] \in [D -> V]
    <3>1. \A i \in D : Step(g, i) \in V
      <4> TAKE i \in D
      <4>1. ~(i > n) => g[i + 1] \in V /\ g[i + 2] \in V /\ e[i] \in Int
        BY <1>2, <1>4
      <4> HIDE DEF V
      <4> QED
        BY <1>3, <1>5, <1>6, <4>1
    <3> HIDE DEF V
    <3> QED
      BY <3>1
  <2>3. ASSUME NEW g \in [D -> V], NEW h \in [D -> V], NEW i \in D,
               \A j \in D : rank[j] < rank[i] => g[j] = h[j]
        PROVE  F[g][i] = F[h][i]
    <3>1. ~(i > n) => g[i + 1] = h[i + 1] /\ g[i + 2] = h[i + 2]
      <4>1. \A j \in D : j > i => rank[j] < rank[i]
        BY <1>1
      <4> HIDE DEF rank, D
      <4> QED
        BY <1>2, <2>3, <4>1
    <3>2. Step(g, i) = Step(h, i)
      BY <1>5, <3>1
    <3> QED
      BY <3>2
  <2> HIDE DEF D, V, F, rank
  <2> QED
    BY <2>1, <2>2, <2>3 DEF Ranked
<1>8. Solved(D, V, F)
  <2>1. n + 2 \in Nat
    BY <1>1
  <2> HIDE DEF D, V, F, rank
  <2>2. V # {}
    BY <1>3
  <2> QED
    BY <1>7, <2>1, <2>2, Solvable
<1>9. PICK g \in [D -> V] : g = F[g]
  BY <1>8 DEF Solved
<1>10. Is(g)
  BY <1>9
<1>11. Is(from)
  BY <1>10
<1>12. Text(e) = from[1]
  BY DEF Text, Step
<1>13. \A i \in D : from[i] = Step(from, i)
  <2> HIDE DEF from
  <2> QED
    BY <1>11
<1> HIDE DEF from
<1>14. from[n + 1] = <<>>
  <2>1. n + 1 \in D /\ n + 1 > n
    BY <1>1
  <2> QED
    BY <1>5, <1>13, <2>1
<1>15. ASSUME NEW i \in 1 .. n
       PROVE  \/ Refuses(RuneCode, Scalar, e, from, i)
              \/ \E x \in Scalar : Takes(RuneCode, Scalar, e, from, i, x)
  <2>1. i \in D /\ ~(i > n) /\ i <= n
    BY <1>1
  <2>2. \A r \in Scalar : /\ IsAt(RuneCode[r], e, i) <=> SingleAt(e, i, r) \/ PairAt(e, i, r)
                          /\ SingleAt(e, i, r) => Len(RuneCode[r]) = 1
                          /\ PairAt(e, i, r) => Len(RuneCode[r]) = 2
    BY RuneAt
  <2>3. One(i) => ~Two(i)
    BY DEF One, Two
  <2>4. from[i] = Step(from, i)
    BY <1>13, <2>1
  <2>5. /\ \A r : SingleAt(e, i, r) <=> One(i) /\ r = e[i]
        /\ \A r : PairAt(e, i, r) <=> Two(i) /\ r = Paired(e[i], e[i + 1])
    <3>1. \A r : SingleAt(e, i, r) <=> One(i) /\ r = e[i]
      BY <2>1 DEF SingleAt, One
    <3> QED
      BY <3>1, Zenon DEF PairAt, Two
  <2>6. CASE One(i)
    <3>1. e[i] \in Scalar
      BY <1>1, <2>6, FirstUnit DEF One
    <3>2. from[i] = <<e[i]>> \o from[i + 1]
      BY <1>5, <2>1, <2>3, <2>4, <2>6
    <3> HIDE DEF n
    <3>3. \A r \in Scalar : IsAt(RuneCode[r], e, i) <=> r = e[i]
      BY <2>2, <2>3, <2>5, <2>6
    <3>4. Len(RuneCode[e[i]]) = 1
      BY <2>2, <2>5, <2>6, <3>1
    <3>5. Takes(RuneCode, Scalar, e, from, i, e[i])
      BY <3>1, <3>2, <3>3, <3>4 DEF Takes
    <3> QED
      BY <3>1, <3>5
  <2>7. CASE Two(i)
    <3> DEFINE x == Paired(e[i], e[i + 1])
    <3>1. x \in Scalar
      BY <2>7, FirstUnit DEF Two
    <3>2. from[i] = <<x>> \o from[i + 2]
      BY <1>5, <2>1, <2>4, <2>7
    <3> HIDE DEF n, x
    <3>3. \A r \in Scalar : IsAt(RuneCode[r], e, i) <=> r = x
      BY <2>2, <2>3, <2>5, <2>7 DEF x
    <3>4. Len(RuneCode[x]) = 2
      BY <2>2, <2>5, <2>7, <3>1 DEF x
    <3>5. Takes(RuneCode, Scalar, e, from, i, x)
      BY <3>1, <3>2, <3>3, <3>4 DEF Takes
    <3> QED
      BY <3>1, <3>5
  <2>8. CASE ~One(i) /\ ~Two(i)
    <3>1. from[i] = Invalid
      BY <1>5, <2>1, <2>4, <2>8
    <3> HIDE DEF n
    <3>2. \A r \in Scalar : ~IsAt(RuneCode[r], e, i)
      BY <2>2, <2>5, <2>8
    <3> QED
      BY <3>1, <3>2 DEF Refuses
  <2> QED
    BY <2>6, <2>7, <2>8
<1>16. Decodes(RuneCode, Scalar, e, from)
  BY <1>14, <1>15 DEF Decodes
<1> HIDE DEF n, D, V, F, rank, Is
<1> QED
  BY <1>12, <1>16, RuneCodeIsCode, DecodedFromFirst

\* Numbers are not taken for a refusal.
LEMMA NumbersAreValid ==
  ASSUME NEW A, A \subseteq Nat, NEW s \in Seq(A)
  PROVE  Valid(s)
<1>1. \A i \in DOMAIN s : s[i] \in Nat
  <2>1. \A i \in DOMAIN s : s[i] \in A
    OBVIOUS
  <2> QED
    BY <2>1
<1>2. -1 \notin Nat
  OBVIOUS
<1> QED
  BY <1>1, <1>2 DEF Valid, Range

\* A sequence is encoded by its elements.
LEMMA SameCodes ==
  ASSUME NEW A, NEW code, NEW s \in Seq(A), NEW f,
         f = [i \in DOMAIN s |-> code[s[i]]]
  PROVE  FlattenSeq(f) = Coded(code, s)
BY Zenon DEF Coded

\* The units of a text are those of its runes.
LEMMA AllUnitsCoded ==
  ASSUME NEW text \in Seq(Scalar)
  PROVE  AllUnits(text) = Coded(RuneCode, text) /\ AllUnits(text) \in Seq(Unit)
<1>1. \A i \in DOMAIN text : text[i] \in Scalar
  OBVIOUS
<1>2. \A i \in DOMAIN text : Units(text[i]) = RuneCode[text[i]]
  BY <1>1 DEF RuneCode
<1>3. [i \in DOMAIN text |-> Units(text[i])] = [i \in DOMAIN text |-> RuneCode[text[i]]]
  BY <1>2
<1>4. AllUnits(text) = Coded(RuneCode, text)
  BY <1>3, SameCodes DEF AllUnits
<1>5. RuneCode \in [Scalar -> Seq(Unit)]
  BY RuneCodeIsCode DEF Code
<1>6. Coded(RuneCode, text) \in Seq(Unit)
  <2>1. \E x : x \in Scalar
    <3>1. 0 \in Scalar
      BY DEF Scalar
    <3> QED
      BY <3>1
  <2> QED
    BY <1>5, <2>1, CodedFacts
<1> QED
  BY <1>4, <1>6

\* The bytes of an alias are those of its units.
LEMMA ModifiedUTF8Coded ==
  ASSUME NEW text \in Seq(Scalar)
  PROVE  /\ ModifiedUTF8(text) = Coded(UnitCode, AllUnits(text))
         /\ ModifiedUTF8(text) \in Seq(Byte)
<1> DEFINE w == AllUnits(text)
<1>1. w \in Seq(Unit)
  BY AllUnitsCoded
<1> HIDE DEF w
<1>2. \A i \in DOMAIN w : UnitBytes(w[i]) = UnitCode[w[i]]
  <2>1. \A i \in DOMAIN w : w[i] \in Unit
    BY <1>1
  <2> QED
    BY <2>1 DEF UnitCode
<1>3. [i \in DOMAIN w |-> UnitBytes(w[i])] = [i \in DOMAIN w |-> UnitCode[w[i]]]
  BY <1>2
<1>4. ModifiedUTF8(text) = Coded(UnitCode, w)
  <2>1. ModifiedUTF8(text) = FlattenSeq([i \in DOMAIN w |-> UnitBytes(w[i])])
    BY DEF ModifiedUTF8, w
  <2> QED
    BY <1>1, <1>3, <2>1, SameCodes
<1>5. Coded(UnitCode, w) \in Seq(Byte)
  <2>1. UnitCode \in [Unit -> Seq(Byte)]
    BY UnitCodeIsCode DEF Code
  <2>2. 0 \in Unit
    BY DEF Unit
  <2> QED
    BY <1>1, <2>1, <2>2, CodedFacts
<1> QED
  BY <1>4, <1>5 DEF w

\* decodeJavaModifiedUTF8 undoes the encoding of aliases, and accepts nothing else.
LEMMA AliasDecoded ==
  ASSUME NEW e \in Seq(Byte)
  PROVE  LET decoded == DecodeJavaModifiedUTF8(e) IN
         /\ Valid(decoded) => ModifiedUTF8(decoded) = e
         /\ \A text \in Seq(Scalar) : e = ModifiedUTF8(text) => Valid(decoded)
<1> DEFINE u == CodeUnits(e)  decoded == DecodeJavaModifiedUTF8(e)
<1>1. DecodedTo(UnitCode, Unit, e, u)
  BY UnitsDecoded
<1>2. decoded = IF Valid(u) THEN Text(u) ELSE Invalid
  BY DEF DecodeJavaModifiedUTF8
<1> HIDE DEF u, decoded
<1>3. ASSUME Valid(decoded) PROVE ModifiedUTF8(decoded) = e
  <2>1. Valid(u) /\ decoded = Text(u)
    BY <1>2, <1>3, InvalidIsNot
  <2>2. u \in Seq(Unit) /\ e = Coded(UnitCode, u)
    BY <1>1, <2>1 DEF DecodedTo
  <2>3. DecodedTo(RuneCode, Scalar, u, decoded)
    BY <2>1, <2>2, TextDecoded
  <2>4. decoded \in Seq(Scalar) /\ u = Coded(RuneCode, decoded)
    BY <1>3, <2>3 DEF DecodedTo
  <2>5. AllUnits(decoded) = u
    BY <2>4, AllUnitsCoded
  <2>6. ModifiedUTF8(decoded) = Coded(UnitCode, AllUnits(decoded))
    BY <2>4, ModifiedUTF8Coded
  <2> QED
    BY <2>2, <2>5, <2>6
<1>4. ASSUME NEW text \in Seq(Scalar), e = ModifiedUTF8(text) PROVE Valid(decoded)
  <2> DEFINE w == AllUnits(text)
  <2>1. w \in Seq(Unit) /\ w = Coded(RuneCode, text) /\ e = Coded(UnitCode, w)
    BY <1>4, AllUnitsCoded, ModifiedUTF8Coded
  <2> HIDE DEF w
  <2>2. u = w
    BY <1>1, <2>1 DEF DecodedTo
  <2>3. Valid(w) /\ Valid(text)
    <3>1. Unit \subseteq Nat /\ Scalar \subseteq Nat
      BY DEF Unit, Scalar
    <3> QED
      BY <2>1, <3>1, NumbersAreValid
  <2>4. DecodedTo(RuneCode, Scalar, w, Text(w))
    BY <2>1, TextDecoded
  <2>5. Text(w) = text
    BY <2>1, <2>4 DEF DecodedTo
  <2> QED
    BY <1>2, <2>2, <2>3, <2>5
<1> QED
  BY <1>3, <1>4 DEF decoded

\* The two bytes of a unit in a name.
PairCode == [u \in Unit |-> <<u \div 256, u % 256>>]

\* A unit is the number that its two bytes make, the first the higher.
LEMMA TwoBytesOfUnit ==
  ASSUME NEW x \in Byte, NEW y \in Byte, NEW u, u = x * 256 + y
  PROVE  u \in Unit /\ u \div 256 = x /\ u % 256 = y
<1>1. x \in Nat /\ x < 256 /\ y \in Nat /\ y < 256
  BY DEF Byte
<1>2. u \div 256 = x
  BY <1>1
<1>3. u % 256 = y
  BY <1>1
<1>4. u \in Nat /\ u < 65536
  BY <1>1
<1> QED
  BY <1>2, <1>3, <1>4 DEF Unit

\* And the other way round.
LEMMA UnitOfTwoBytes ==
  ASSUME NEW u \in Unit
  PROVE  u \div 256 \in Byte /\ u % 256 \in Byte /\ (u \div 256) * 256 + (u % 256) = u
<1>1. u \in Nat /\ u < 65536
  BY DEF Unit
<1>2. (u \div 256) * 256 + (u % 256) = u /\ u \div 256 \in Nat
  BY <1>1
<1>3. u \div 256 < 256
  BY <1>1
<1>4. u % 256 \in Nat /\ u % 256 < 256
  BY <1>1
<1> QED
  BY <1>2, <1>3, <1>4 DEF Byte

\* The bytes c of the units w, two for each.
PairsOf(c, w) ==
  /\ c \in Seq(Byte) /\ Len(c) = 2 * Len(w)
  /\ \A i \in 1 .. Len(w) : c[2 * i - 1] = w[i] \div 256 /\ c[2 * i] = w[i] % 256

\* One more unit in front adds its two bytes.
LEMMA PairsFirst ==
  ASSUME NEW c, NEW v \in Seq(Unit), NEW y \in Unit, PairsOf(c, v)
  PROVE  PairsOf(<<y \div 256, y % 256>> \o c, <<y>> \o v)
<1> DEFINE a == y \div 256  b == y % 256
           first == <<a, b>>  d == first \o c  w == <<y>> \o v  n == Len(v)
<1>1. a \in Byte /\ b \in Byte
  BY UnitOfTwoBytes
<1>2. first \in Seq(Byte) /\ Len(first) = 2 /\ first[1] = a /\ first[2] = b
  <2> HIDE DEF a, b
  <2> QED
    BY <1>1
<1>3. c \in Seq(Byte) /\ Len(c) = 2 * n /\ n \in Nat
  BY DEF PairsOf
<1> HIDE DEF first, n, w, a, b
<1>4. /\ d \in Seq(Byte) /\ Len(d) = Len(first) + Len(c)
      /\ \A i \in 1 .. Len(first) + Len(c) : d[i] = IF i <= Len(first) THEN first[i] ELSE c[i - Len(first)]
  <2>1. first \in Seq(Byte) /\ c \in Seq(Byte)
    BY <1>2, <1>3
  <2> QED
    BY <2>1, ConcatProperties
<1> USE DEF n, w
<1>5. /\ w \in Seq(Unit) /\ Len(w) = n + 1
      /\ w[1] = y /\ \A i \in 1 .. n : w[i + 1] = v[i]
  <2>1. <<y>> \in Seq(Unit) /\ Len(<<y>>) = 1 /\ <<y>>[1] = y
    OBVIOUS
  <2>2. /\ w \in Seq(Unit) /\ Len(w) = 1 + n
        /\ \A i \in 1 .. 1 + n : w[i] = IF i <= 1 THEN <<y>>[i] ELSE v[i - 1]
    BY <2>1, ConcatProperties
  <2> HIDE DEF w, n
  <2>3. 1 \in 1 .. 1 + n /\ \A i \in 1 .. n : i + 1 \in 1 .. 1 + n /\ ~(i + 1 <= 1) /\ (i + 1) - 1 = i
    BY <1>3
  <2> QED
    BY <1>3, <2>1, <2>2, <2>3
<1> HIDE DEF d, w, n, a, b
<1>6. Len(d) = 2 * (n + 1) /\ Len(d) = 2 * Len(w)
  BY <1>2, <1>3, <1>4, <1>5
<1>7. d[1] = a /\ d[2] = b
  BY <1>2, <1>3, <1>4
<1>8. \A i \in 1 .. n : d[2 * (i + 1) - 1] = v[i] \div 256 /\ d[2 * (i + 1)] = v[i] % 256
  <2> TAKE i \in 1 .. n
  <2>1. /\ 2 * (i + 1) - 1 \in 1 .. 2 + 2 * n /\ ~(2 * (i + 1) - 1 <= 2) /\ 2 * (i + 1) - 1 - 2 = 2 * i - 1
        /\ 2 * (i + 1) \in 1 .. 2 + 2 * n /\ ~(2 * (i + 1) <= 2) /\ 2 * (i + 1) - 2 = 2 * i
    BY <1>3
  <2>2. d[2 * (i + 1) - 1] = c[2 * i - 1] /\ d[2 * (i + 1)] = c[2 * i]
    BY <1>2, <1>3, <1>4, <2>1
  <2>3. c[2 * i - 1] = v[i] \div 256 /\ c[2 * i] = v[i] % 256
    BY DEF PairsOf, n
  <2> QED
    BY <2>2, <2>3
<1>9. ASSUME NEW i \in 1 .. Len(w)
      PROVE  d[2 * i - 1] = w[i] \div 256 /\ d[2 * i] = w[i] % 256
  <2>1. CASE i = 1
    <3>1. 2 * i - 1 = 1 /\ 2 * i = 2
      BY <2>1
    <3> QED
      BY <1>5, <1>7, <2>1, <3>1 DEF a, b
  <2>2. CASE i # 1
    <3>1. i - 1 \in 1 .. n /\ (i - 1) + 1 = i
      BY <1>3, <1>5, <2>2
    <3>2. w[i] = v[i - 1]
      BY <1>5, <3>1
    <3>3. d[2 * i - 1] = v[i - 1] \div 256 /\ d[2 * i] = v[i - 1] % 256
      BY <1>8, <3>1
    <3> QED
      BY <3>2, <3>3
  <2> QED
    BY <2>1, <2>2
<1>10. PairsOf(d, w)
  BY <1>4, <1>6, <1>9 DEF PairsOf
<1> QED
  BY <1>10 DEF d, w, first, a, b

\* So the encoding has two bytes for each.
LEMMA PairsCoded ==
  ASSUME NEW w \in Seq(Unit)
  PROVE  PairsOf(Coded(PairCode, w), w)
<1> DEFINE T == {k \in Nat : \A v \in Seq(Unit) : Len(v) = k => PairsOf(Coded(PairCode, v), v)}
<1>1. PairCode \in [Unit -> Seq(Byte)]
  <2>1. ASSUME NEW u \in Unit PROVE <<u \div 256, u % 256>> \in Seq(Byte)
    <3>1. u \div 256 \in Byte /\ u % 256 \in Byte
      BY UnitOfTwoBytes
    <3> QED
      BY <3>1
  <2> QED
    BY <2>1 DEF PairCode
<1>2. 0 \in Unit
  BY DEF Unit
<1>3. 0 \in T
  <2> SUFFICES ASSUME NEW v \in Seq(Unit), Len(v) = 0 PROVE PairsOf(Coded(PairCode, v), v)
    OBVIOUS
  <2>1. v = <<>>
    BY EmptySeq
  <2>2. Coded(PairCode, <<>>) = <<>>
    BY <1>1, <1>2, CodedFacts
  <2>3. <<>> \in Seq(Byte) /\ Len(<<>>) = 0 /\ 2 * 0 = 0 /\ 1 .. 0 = {}
    OBVIOUS
  <2> QED
    BY <2>1, <2>2, <2>3 DEF PairsOf
<1>4. ASSUME NEW k \in Nat, k \in T PROVE k + 1 \in T
  <2> SUFFICES ASSUME NEW v \in Seq(Unit), Len(v) = k + 1 PROVE PairsOf(Coded(PairCode, v), v)
    OBVIOUS
  <2>1. v # <<>>
    <3>1. Len(<<>>) = 0
      OBVIOUS
    <3> QED
      BY <3>1
  <2>2. PICK y \in Unit, r \in Seq(Unit) : v = <<y>> \o r
    BY <2>1, FirstAndRest
  <2>3. Len(r) = k
    <3>1. Len(<<y>> \o r) = 1 + Len(r) /\ Len(r) \in Nat
      OBVIOUS
    <3> QED
      BY <2>2, <3>1
  <2>4. PairsOf(Coded(PairCode, r), r)
    BY <1>4, <2>3
  <2>5. CodedFirst(PairCode, y, r)
    BY <1>1, CodedFacts
  <2>6. Coded(PairCode, v) = <<y \div 256, y % 256>> \o Coded(PairCode, r)
    BY <2>2, <2>5 DEF CodedFirst, PairCode
  <2>7. PairsOf(<<y \div 256, y % 256>> \o Coded(PairCode, r), <<y>> \o r)
    BY <2>4, PairsFirst
  <2> QED
    BY <2>2, <2>6, <2>7
<1>5. Nat \subseteq T
  <2> HIDE DEF T
  <2> QED
    BY <1>3, <1>4, Induction
<1>6. Len(w) \in Nat
  OBVIOUS
<1> QED
  BY <1>5, <1>6

\* The units that decodeUTF16BE makes of the bytes.
UnitsOf(e) == [i \in 1 .. Len(e) \div 2 |-> e[2 * i - 1] * 256 + e[2 * i]]

\* Each is made of the two bytes at its place.
LEMMA EvenBytes ==
  ASSUME NEW e \in Seq(Byte), Len(e) % 2 = 0
  PROVE  /\ UnitsOf(e) \in Seq(Unit) /\ Len(e) = 2 * Len(UnitsOf(e))
         /\ \A i \in 1 .. Len(UnitsOf(e)) :
              /\ e[2 * i - 1] \in Byte /\ e[2 * i] \in Byte
              /\ UnitsOf(e)[i] = e[2 * i - 1] * 256 + e[2 * i]
<1> DEFINE n == Len(e)  m == n \div 2  w == UnitsOf(e)
<1>1. n \in Nat /\ m \in Nat /\ n = 2 * m
  OBVIOUS
<1> HIDE DEF m
<1>2. \A i \in 1 .. m : e[2 * i - 1] \in Byte /\ e[2 * i] \in Byte
  <2>1. \A i \in 1 .. m : 2 * i - 1 \in 1 .. n /\ 2 * i \in 1 .. n
    BY <1>1
  <2>2. \A j \in 1 .. n : e[j] \in Byte
    OBVIOUS
  <2> HIDE DEF n
  <2> QED
    BY <2>1, <2>2
<1>3. \A i \in 1 .. m : e[2 * i - 1] * 256 + e[2 * i] \in Unit
  BY <1>2, TwoBytesOfUnit
<1>4. w = [i \in 1 .. m |-> e[2 * i - 1] * 256 + e[2 * i]]
  BY DEF UnitsOf, m
<1>5. w \in [1 .. m -> Unit]
  BY <1>3, <1>4
<1>6. w \in Seq(Unit) /\ Len(w) = m
  BY <1>1, <1>5, SeqDef
<1> HIDE DEF n, w
<1> QED
  BY <1>1, <1>2, <1>4, <1>6 DEF n, w

\* Two sequences of bytes are the same when their pairs are.
LEMMA PairsEqual ==
  ASSUME NEW w \in Seq(Unit), NEW c, PairsOf(c, w), NEW d, PairsOf(d, w)
  PROVE  c = d
<1>1. /\ c \in Seq(Byte) /\ d \in Seq(Byte) /\ Len(c) = 2 * Len(w) /\ Len(d) = 2 * Len(w)
      /\ Len(w) \in Nat
  BY DEF PairsOf
<1>2. ASSUME NEW j \in 1 .. 2 * Len(w) PROVE c[j] = d[j]
  <2>1. PICK i \in 1 .. Len(w) : j = 2 * i - 1 \/ j = 2 * i
    <3> DEFINE i == (j + 1) \div 2
    <3>1. i \in 1 .. Len(w)
      BY <1>1
    <3>2. j = 2 * i - 1 \/ j = 2 * i
      BY <1>1
    <3> HIDE DEF i
    <3> QED
      BY <3>1, <3>2
  <2>2. c[2 * i - 1] = w[i] \div 256 /\ c[2 * i] = w[i] % 256
    BY DEF PairsOf
  <2>3. d[2 * i - 1] = w[i] \div 256 /\ d[2 * i] = w[i] % 256
    BY DEF PairsOf
  <2>4. c[2 * i - 1] = d[2 * i - 1] /\ c[2 * i] = d[2 * i]
    BY <2>2, <2>3
  <2> QED
    BY <2>1, <2>4
<1> QED
  BY <1>1, <1>2, SeqEqual

\* The encoding of a name, by its units.
LEMMA UTF16BECoded ==
  ASSUME NEW text \in Seq(Scalar)
  PROVE  PairsOf(UTF16BE(text), AllUnits(text))
<1> DEFINE w == AllUnits(text)
<1>1. w \in Seq(Unit)
  BY AllUnitsCoded
<1> HIDE DEF w
<1>2. \A i \in DOMAIN w : <<w[i] \div 256, w[i] % 256>> = PairCode[w[i]]
  <2>1. \A i \in DOMAIN w : w[i] \in Unit
    BY <1>1
  <2> QED
    BY <2>1 DEF PairCode
<1>3. [i \in DOMAIN w |-> <<w[i] \div 256, w[i] % 256>>] = [i \in DOMAIN w |-> PairCode[w[i]]]
  BY <1>2
<1>4. UTF16BE(text) = FlattenSeq([i \in DOMAIN w |-> <<w[i] \div 256, w[i] % 256>>])
  BY DEF UTF16BE, w
<1>5. UTF16BE(text) = Coded(PairCode, w)
  BY <1>1, <1>3, <1>4, SameCodes
<1> QED
  BY <1>1, <1>5, PairsCoded DEF w

\* decodeUTF16BE undoes the encoding of names, and accepts nothing else.
LEMMA NameDecoded ==
  ASSUME NEW e \in Seq(Byte)
  PROVE  LET decoded == DecodeUTF16BE(e) IN
         /\ Valid(decoded) => UTF16BE(decoded) = e
         /\ \A text \in Seq(Scalar) : e = UTF16BE(text) => Valid(decoded)
<1> DEFINE decoded == DecodeUTF16BE(e)
<1>1. decoded = IF Len(e) % 2 # 0 THEN Invalid ELSE Text(UnitsOf(e))
  BY DEF DecodeUTF16BE, UnitsOf
<1>2. ASSUME Len(e) % 2 = 0 PROVE PairsOf(e, UnitsOf(e)) /\ UnitsOf(e) \in Seq(Unit)
  <2> DEFINE w == UnitsOf(e)
  <2>1. /\ w \in Seq(Unit) /\ Len(e) = 2 * Len(w)
        /\ \A i \in 1 .. Len(w) :
             /\ e[2 * i - 1] \in Byte /\ e[2 * i] \in Byte
             /\ w[i] = e[2 * i - 1] * 256 + e[2 * i]
    BY <1>2, EvenBytes
  <2> HIDE DEF w
  <2>2. \A i \in 1 .. Len(w) : e[2 * i - 1] = w[i] \div 256 /\ e[2 * i] = w[i] % 256
    BY <2>1, TwoBytesOfUnit
  <2> QED
    BY <2>1, <2>2 DEF PairsOf, w
<1> HIDE DEF decoded
<1>3. ASSUME Valid(decoded) PROVE UTF16BE(decoded) = e
  <2>1. Len(e) % 2 = 0 /\ decoded = Text(UnitsOf(e))
    BY <1>1, <1>3, InvalidIsNot
  <2>2. UnitsOf(e) \in Seq(Unit) /\ PairsOf(e, UnitsOf(e))
    BY <1>2, <2>1
  <2>3. DecodedTo(RuneCode, Scalar, UnitsOf(e), decoded)
    BY <2>1, <2>2, TextDecoded
  <2>4. decoded \in Seq(Scalar) /\ UnitsOf(e) = Coded(RuneCode, decoded)
    BY <1>3, <2>3 DEF DecodedTo
  <2>5. AllUnits(decoded) = UnitsOf(e)
    BY <2>4, AllUnitsCoded
  <2>6. PairsOf(UTF16BE(decoded), UnitsOf(e))
    BY <2>4, <2>5, UTF16BECoded
  <2> QED
    BY <2>2, <2>6, PairsEqual
<1>4. ASSUME NEW text \in Seq(Scalar), e = UTF16BE(text) PROVE Valid(decoded)
  <2> DEFINE w == AllUnits(text)
  <2>1. w \in Seq(Unit) /\ w = Coded(RuneCode, text) /\ PairsOf(e, w)
    BY <1>4, AllUnitsCoded, UTF16BECoded
  <2> HIDE DEF w
  <2>2. Len(e) = 2 * Len(w) /\ Len(w) \in Nat
    BY <2>1 DEF PairsOf
  <2>3. Len(e) % 2 = 0
    BY <2>2
  <2>4. PairsOf(e, UnitsOf(e)) /\ UnitsOf(e) \in Seq(Unit)
    BY <1>2, <2>3
  <2>5. UnitsOf(e) = w
    <3> DEFINE v == UnitsOf(e)
    <3>1. v \in Seq(Unit) /\ PairsOf(e, v)
      BY <2>4
    <3> HIDE DEF v
    <3>2. Len(v) = Len(w) /\ Len(v) \in Nat
      BY <2>2, <3>1 DEF PairsOf
    <3>3. \A i \in 1 .. Len(v) : v[i] \in Unit /\ w[i] \in Unit
      BY <2>1, <3>1, <3>2
    <3>4. \A i \in 1 .. Len(v) : v[i] \div 256 = w[i] \div 256 /\ v[i] % 256 = w[i] % 256
      BY <2>1, <3>1, <3>2 DEF PairsOf
    <3>5. \A i \in 1 .. Len(v) : v[i] = w[i]
      BY <3>3, <3>4, UnitOfTwoBytes
    <3>6. v = w
      BY <2>1, <3>1, <3>2, <3>5, SeqEqual
    <3> QED
      BY <3>6 DEF v
  <2>6. Valid(text)
    <3>1. Scalar \subseteq Nat
      BY DEF Scalar
    <3> QED
      BY <3>1, NumbersAreValid
  <2>7. DecodedTo(RuneCode, Scalar, w, Text(w))
    BY <2>1, TextDecoded
  <2>8. Text(w) = text
    BY <2>1, <2>7 DEF DecodedTo
  <2> QED
    BY <1>1, <2>3, <2>5, <2>6, <2>8
<1> QED
  BY <1>3, <1>4 DEF decoded

-----------------------------------------------------------------------------
\* The texts that are encoded, and the strings that are decoded.
LEMMA TextsAreRunes == Texts \subseteq Seq(Scalar)
<1>5. Runes \subseteq Scalar
  BY RuneAssumption DEF Scalar
<1>6. ASSUME NEW n \in 0 .. 2, NEW text \in [1 .. n -> Runes] PROVE text \in Seq(Scalar)
  <2>1. n \in Nat /\ text \in [1 .. n -> Scalar]
    BY <1>5
  <2> QED
    BY <2>1, SeqDef
<1> QED
  BY <1>6 DEF Texts

\* They are bytes, and the encodings among them are, too.
LEMMA StringsAreBytes == EncodedStrings \subseteq Seq(Byte)
<1>1. Aliases \subseteq Seq(Byte)
  BY TextsAreRunes, ModifiedUTF8Coded DEF Aliases
<1>2. Names \subseteq Seq(Byte)
  BY TextsAreRunes, UTF16BECoded DEF Names, PairsOf
<1>3. Bytes \subseteq Byte
  <2>1. \A b \in Bytes : b \in 0 .. 255
    BY WidthAssumption
  <2>2. \A b \in 0 .. 255 : b \in Nat /\ b < 256
    OBVIOUS
  <2> QED
    BY <2>1, <2>2 DEF Byte
<1>4. ASSUME NEW n \in 0 .. 3, NEW s \in [1 .. n -> Bytes] PROVE s \in Seq(Byte)
  <2>1. n \in Nat /\ s \in [1 .. n -> Byte]
    BY <1>3
  <2> QED
    BY <2>1, SeqDef
<1>5. ASSUME NEW p \in [1 .. 4 -> Bytes] PROVE <<237, p[1], p[2], 237, p[3], p[4]>> \in Seq(Byte)
  <2>1. 237 \in Byte
    BY DEF Byte
  <2>2. p[1] \in Byte /\ p[2] \in Byte /\ p[3] \in Byte /\ p[4] \in Byte
    BY <1>3
  <2> QED
    BY <2>1, <2>2
<1>6. ShortStrings \subseteq Seq(Byte)
  BY <1>4 DEF ShortStrings
<1>7. LongStrings \subseteq Seq(Byte)
  BY <1>5 DEF LongStrings
<1> QED
  BY <1>1, <1>2, <1>6, <1>7 DEF EncodedStrings

\* A decoder of strings has run on bytes.
StringRead ==
  /\ decoder \in {"alias", "name"} => input \in Seq(Byte)
  /\ decoder = "alias" => output = DecodeJavaModifiedUTF8(input)
  /\ decoder = "name" => output = DecodeUTF16BE(input)

\* What a string that was read shows.
LEMMA StringReadExact == StringRead => DecodingExact
<1> SUFFICES ASSUME StringRead PROVE DecodingExact
  OBVIOUS
<1>1. ASSUME decoder = "alias"
      PROVE  /\ Valid(output) => ModifiedUTF8(output) = input
             /\ input \in Aliases => Valid(output)
  <2>1. input \in Seq(Byte) /\ output = DecodeJavaModifiedUTF8(input)
    BY <1>1 DEF StringRead
  <2>2. /\ Valid(output) => ModifiedUTF8(output) = input
        /\ \A text \in Seq(Scalar) : input = ModifiedUTF8(text) => Valid(output)
    BY <2>1, AliasDecoded
  <2> QED
    BY <2>2, TextsAreRunes DEF Aliases
<1>2. ASSUME decoder = "name"
      PROVE  /\ Valid(output) => UTF16BE(output) = input
             /\ input \in Names => Valid(output)
  <2>1. input \in Seq(Byte) /\ output = DecodeUTF16BE(input)
    BY <1>2 DEF StringRead
  <2>2. /\ Valid(output) => UTF16BE(output) = input
        /\ \A text \in Seq(Scalar) : input = UTF16BE(text) => Valid(output)
    BY <2>1, NameDecoded
  <2> QED
    BY <2>2, TextsAreRunes DEF Names
<1> QED
  BY <1>1, <1>2 DEF DecodingExact

\* The string decoders undo the encodings of aliases and names, and accept nothing
\* else, for every alphabet of texts and every set of bytes.
THEOREM DecodingsExact == KeystoreSpec => []DecodingExact
<1>1. KeystoreInit => StringRead
  BY DEF KeystoreInit, DecoderInit, StringRead
<1>2. StringRead /\ [KeystoreNext]_keystoreVars => StringRead'
  <2> SUFFICES ASSUME StringRead, [KeystoreNext]_keystoreVars PROVE StringRead'
    OBVIOUS
  <2>1. CASE UNCHANGED decoderVars
    BY <2>1 DEF StringRead, decoderVars
  <2>2. CASE DecodeAlias \/ DecodeName
    BY <2>2, StringsAreBytes DEF DecodeAlias, DecodeName, StringRead
  <2>3. CASE DecodeHeader
    BY <2>3 DEF DecodeHeader, StringRead
  <2> QED
    BY <2>1, <2>2, <2>3 DEF KeystoreNext, keystoreVars, DecoderNext
<1>3. StringRead => DecodingExact
  BY StringReadExact
<1> QED
  BY <1>1, <1>2, <1>3, PTL DEF KeystoreSpec
=============================================================================
