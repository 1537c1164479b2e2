-------------------------- MODULE ContentScanProofs --------------------------
(***************************************************************************)
(* What is reported of a file that grows while it is read, for every limit *)
(* and every file: all of it, or that it was capped.                       *)
(***************************************************************************)
EXTENDS ContentScan, SequenceTheorems, TLAPS

Prefix(n) == SubSeq(file, 1, n)

-----------------------------------------------------------------------------
(* The invariant.                                                          *)

Reading == contentPlace \in {"sniff", "probe", "recognise"}

\* The data begins where the file does; during the first read it is within the
\* limit.
PositionInv ==
  /\ start = 0
  /\ Reading /\ MaxBytes > 0 => position <= MaxBytes
  /\ contentPlace \in {"sniff", "probe"} => complete
  /\ contentPlace = "probe" => MaxBytes > 0 /\ position = MaxBytes
  /\ contentPlace = "archive" => position = 0

\* What the probe has told: that the data was the file once, or that the file is
\* larger than the limit.
ProbeInv ==
  contentPlace = "recognise" =>
    IF complete THEN opened <= position
    ELSE MaxBytes > 0 /\ position = MaxBytes /\ Len(file) > MaxBytes

\* Why the file is read again.
RestInv ==
  contentPlace = "rest" =>
    /\ MaxBytes > 0 /\ Len(file) > MaxBytes
    /\ KeystoreOf(Prefix(MaxBytes)) # {} \/ PEM(Prefix(MaxBytes)) # {}

\* There is no result before the end.
ResultInv == contentPlace # "done" => ~capped

ContentInv ==
  /\ ContentTypeOK
  /\ PositionInv /\ ProbeInv /\ RestInv /\ ResultInv
  /\ WholeOrCapped /\ HeldWithinLimit

-----------------------------------------------------------------------------
(* Lemmas.                                                                 *)

\* What is appended changes nothing that has been read.
LEMMA PrefixStays ==
  ASSUME file \in Seq(Blocks), NEW block \in Blocks, file' = Append(file, block)
  PROVE  /\ file' \in Seq(Blocks) /\ Len(file') = Len(file) + 1
         /\ Len(file) \in Nat
         /\ \A n \in 0 .. Len(file) : Prefix(n)' = Prefix(n)
<1>1. /\ file' \in Seq(Blocks) /\ Len(file') = Len(file) + 1 /\ Len(file) \in Nat
      /\ \A i \in 1 .. Len(file) : file'[i] = file[i]
  BY AppendProperties, LenProperties
<1>2. ASSUME NEW n \in 0 .. Len(file)
      PROVE  SubSeq(file', 1, n) = SubSeq(file, 1, n)
  <2>1. \A i \in 1 .. n : file'[i] = file[i]
    BY <1>1
  <2> QED
    BY <1>1, <2>1
<1> QED
  BY <1>1, <1>2 DEF Prefix

\* Data that is not complete and does not ask for the rest gives nothing.
LEMMA NothingOfAPart ==
  ASSUME NEW data, ~NeedsFullRead(data, FALSE)
  PROVE  /\ CertificatesOf(data, FALSE) = {} /\ KeystoreOf(data) = {}
         /\ PEM(data) = {}
BY DEF NeedsFullRead, CertificatesOf, KeystoreOf

\* Certificates are positions, keystores data.
LEMMA ResultTypes ==
  ASSUME NEW data \in Seq(Blocks), NEW c
  PROVE  /\ CertificatesOf(data, c) \subseteq 1 .. Len(data)
         /\ KeystoreOf(data) \subseteq Seq(Blocks)
<1>1. DOMAIN data = 1 .. Len(data) /\ Len(data) \in Nat
  BY LenProperties
<1>2. PEM(data) \subseteq 1 .. Len(data)
  BY <1>1 DEF PEM
<1> QED
  BY <1>1, <1>2 DEF CertificatesOf, KeystoreOf

\* The invariant holds when the file has been opened.
LEMMA InitContent == ContentInit => ContentInv
<1> SUFFICES ASSUME ContentInit PROVE ContentInv
  OBVIOUS
<1>1. file \in Seq(Blocks) /\ Len(file) \in Nat
  BY ContentAssumption, LenProperties DEF ContentInit
<1>2. ContentTypeOK
  <2>1. /\ opened = Len(file) /\ position = 0 /\ start = 0
        /\ contentPlace = "sniff" /\ certificates = {} /\ keystore = {}
        /\ complete \in BOOLEAN /\ capped \in BOOLEAN /\ failedRead \in BOOLEAN
    BY DEF ContentInit
  <2> QED
    BY <1>1, <2>1 DEF ContentTypeOK
<1>3. PositionInv /\ ProbeInv /\ RestInv /\ ResultInv
  BY ContentAssumption
  DEF ContentInit, PositionInv, ProbeInv, RestInv, ResultInv, Reading
<1>4. WholeOrCapped /\ HeldWithinLimit
  BY ContentAssumption DEF ContentInit, WholeOrCapped, HeldWithinLimit, Finished
<1> QED
  BY <1>2, <1>3, <1>4 DEF ContentInv

\* Appending changes neither what has been read nor what it showed.
LEMMA AppendInv == ContentInv /\ AppendBlock => ContentInv'
<1> SUFFICES ASSUME ContentInv, AppendBlock PROVE ContentInv'
  OBVIOUS
<1>1. PICK block \in Blocks : file' = Append(file, block)
  BY DEF AppendBlock
<1>2. /\ UNCHANGED <<opened, position, start, contentPlace, complete,
                    certificates, keystore, capped, failedRead>>
      /\ contentPlace # "done"
  BY DEF AppendBlock
<1>3. /\ file' \in Seq(Blocks) /\ Len(file') = Len(file) + 1 /\ Len(file) \in Nat
      /\ \A n \in 0 .. Len(file) : Prefix(n)' = Prefix(n)
  BY <1>1, PrefixStays DEF ContentInv, ContentTypeOK
<1>4. MaxBytes \in Nat
  BY ContentAssumption
<1>5. ContentTypeOK'
  BY <1>2, <1>3 DEF ContentInv, ContentTypeOK
<1>6. PositionInv' /\ ResultInv'
  BY <1>2 DEF ContentInv, PositionInv, ResultInv, Reading
<1>7. ProbeInv'
  BY <1>2, <1>3, <1>4 DEF ContentInv, ContentTypeOK, ProbeInv
<1>8. RestInv'
  <2> SUFFICES ASSUME contentPlace = "rest" PROVE RestInv'
    BY <1>2 DEF RestInv
  <2>1. Len(file) > MaxBytes
    BY DEF ContentInv, RestInv
  <2>2. Prefix(MaxBytes)' = Prefix(MaxBytes) /\ Len(file') > MaxBytes
    BY <1>3, <1>4, <2>1
  <2> QED
    BY <2>2 DEF ContentInv, RestInv, Prefix
<1>9. WholeOrCapped'
  BY <1>2 DEF WholeOrCapped, Finished
<1>10. HeldWithinLimit'
  <2> SUFFICES ASSUME MaxBytes > 0, position - start > MaxBytes PROVE HeldWithinLimit'
    BY <1>2 DEF HeldWithinLimit
  <2>1. MaxBytes \in 0 .. Len(file)
    BY <1>3, <1>4 DEF ContentInv, ContentTypeOK
  <2>2. Prefix(MaxBytes)' = Prefix(MaxBytes)
    BY <1>3, <2>1
  <2> QED
    BY <2>2 DEF ContentInv, HeldWithinLimit, Prefix
<1> QED
  BY <1>5, <1>6, <1>7, <1>8, <1>9, <1>10 DEF ContentInv

\* The first read, its end and the probe.
LEMMA SniffInv ==
  ASSUME ContentInv, Sniff \/ EndSniff \/ Probe
  PROVE  ContentInv'
<1>1. /\ UNCHANGED <<file, opened, start, certificates, keystore, capped, failedRead>>
      /\ contentPlace \in {"sniff", "probe"} /\ contentPlace' # "done"
      /\ contentPlace' \notin {"rest", "archive"}
  BY DEF Sniff, EndSniff, Probe, AfterSniff
<1>2. /\ MaxBytes \in Nat /\ Len(file) \in Nat /\ position \in 0 .. Len(file)
      /\ opened \in 0 .. Len(file) /\ start = 0
      /\ MaxBytes > 0 => position <= MaxBytes
  BY <1>1, ContentAssumption, LenProperties
  DEF ContentInv, ContentTypeOK, PositionInv, Reading
<1>3. RestInv' /\ ResultInv' /\ WholeOrCapped'
  BY <1>1 DEF ContentInv, RestInv, ResultInv, WholeOrCapped, Finished
<1>4. CASE Sniff
  <2>1. /\ contentPlace = "sniff" /\ position' = position + 1 /\ position < Len(file)
        /\ contentPlace' = contentPlace /\ complete' = complete
        /\ MaxBytes > 0 => position' <= MaxBytes
    BY <1>2, <1>4 DEF Sniff, AtLimit
  <2>2. ContentTypeOK'
    BY <1>1, <1>2, <2>1 DEF ContentInv, ContentTypeOK
  <2>3. PositionInv' /\ ProbeInv'
    BY <1>1, <1>2, <2>1 DEF ContentInv, PositionInv, ProbeInv, Reading
  <2>4. HeldWithinLimit'
    BY <1>1, <1>2, <2>1 DEF HeldWithinLimit
  <2> QED
    BY <1>3, <2>2, <2>3, <2>4 DEF ContentInv
<1>5. CASE EndSniff
  <2>1. /\ contentPlace = "sniff" /\ position' = position /\ complete' = complete
        /\ contentPlace' = AfterSniff /\ (AtLimit \/ position = Len(file))
    BY <1>5 DEF EndSniff
  <2>2. ContentTypeOK'
    BY <1>1, <2>1 DEF ContentInv, ContentTypeOK, AfterSniff
  <2>3. PositionInv' /\ ProbeInv'
    BY <1>1, <1>2, <2>1
    DEF ContentInv, PositionInv, ProbeInv, Reading, AfterSniff, AtLimit
  <2>4. HeldWithinLimit'
    BY <1>1, <1>2, <2>1 DEF HeldWithinLimit
  <2> QED
    BY <1>3, <2>2, <2>3, <2>4 DEF ContentInv
<1>6. CASE Probe
  <2>1. /\ contentPlace = "probe" /\ contentPlace' = "recognise"
        /\ position' = position /\ complete' \in BOOLEAN
    BY <1>6, Zenon DEF Probe
  <2>2. complete' => position = Len(file)
    BY <1>6, Zenon DEF Probe
  <2>3. ~complete' => position # Len(file)
    BY <1>6, Zenon DEF Probe
  <2>4. ContentTypeOK'
    BY <1>1, <2>1 DEF ContentInv, ContentTypeOK
  <2>5. PositionInv'
    BY <1>1, <1>2, <2>1 DEF ContentInv, PositionInv, Reading
  <2>6. MaxBytes > 0 /\ position = MaxBytes
    BY <2>1 DEF ContentInv, PositionInv
  <2>7. ProbeInv'
    <3>1. CASE complete'
      BY <1>1, <1>2, <2>1, <2>2, <3>1 DEF ProbeInv
    <3>2. CASE ~complete'
      BY <1>1, <1>2, <2>1, <2>3, <2>6, <3>2 DEF ProbeInv
    <3> QED
      BY <3>1, <3>2
  <2>8. HeldWithinLimit'
    BY <1>1, <1>2, <2>1 DEF HeldWithinLimit
  <2> QED
    BY <1>3, <2>4, <2>5, <2>7, <2>8 DEF ContentInv
<1> QED
  BY <1>4, <1>5, <1>6

\* What the data holds decides.
LEMMA RecogniseInv == ContentInv /\ Recognise => ContentInv'
<1> SUFFICES ASSUME ContentInv, Recognise PROVE ContentInv'
  OBVIOUS
<1>1. /\ contentPlace = "recognise"
      /\ UNCHANGED <<file, opened, complete, failedRead>>
  BY DEF Recognise
<1>2. /\ MaxBytes \in Nat /\ Len(file) \in Nat /\ position \in 0 .. Len(file)
      /\ opened \in 0 .. Len(file) /\ start = 0 /\ file \in Seq(Blocks)
      /\ MaxBytes > 0 => position <= MaxBytes
      /\ ~capped
  BY <1>1, ContentAssumption, LenProperties
  DEF ContentInv, ContentTypeOK, PositionInv, ResultInv, Reading
<1>3. Data = Prefix(position) /\ Data \in Seq(Blocks) /\ Len(Data) = position
  BY <1>2, SubSeqProperties DEF Data, Prefix
<1>4. ~complete => MaxBytes > 0 /\ position = MaxBytes /\ Len(file) > MaxBytes
  BY <1>1 DEF ContentInv, ProbeInv
<1>5. complete => opened <= position
  BY <1>1 DEF ContentInv, ProbeInv
<1>6. CASE SeekStart /\ contentPlace' = "archive"
             /\ UNCHANGED <<certificates, keystore, capped>>
  <2>1. position' = 0 /\ start' = 0
    BY <1>6 DEF SeekStart
  <2>2. ContentTypeOK'
    BY <1>1, <1>2, <1>6, <2>1 DEF ContentInv, ContentTypeOK
  <2>3. PositionInv' /\ ProbeInv' /\ RestInv' /\ ResultInv' /\ WholeOrCapped'
    BY <1>1, <1>2, <1>6, <2>1
    DEF PositionInv, ProbeInv, RestInv, ResultInv, WholeOrCapped, Finished, Reading
  <2>4. HeldWithinLimit'
    BY <1>2, <2>1 DEF HeldWithinLimit
  <2> QED
    BY <2>2, <2>3, <2>4 DEF ContentInv
<1>7. CASE SeekStart /\ contentPlace' = "rest" /\ NeedsFullRead(Data, complete)
             /\ UNCHANGED <<certificates, keystore, capped>>
  <2>1. position' = 0 /\ start' = 0
    BY <1>7 DEF SeekStart
  <2>2. ContentTypeOK'
    BY <1>1, <1>2, <1>7, <2>1 DEF ContentInv, ContentTypeOK
  <2>3. PositionInv' /\ ProbeInv' /\ ResultInv' /\ WholeOrCapped'
    BY <1>1, <1>2, <1>7, <2>1
    DEF PositionInv, ProbeInv, ResultInv, WholeOrCapped, Finished, Reading
  <2>4. HeldWithinLimit'
    BY <1>2, <2>1 DEF HeldWithinLimit
  <2>5. ~complete /\ (KeystoreOf(Data) # {} \/ PEM(Data) # {})
    BY <1>7 DEF NeedsFullRead, KeystoreOf
  <2>6. RestInv'
    BY <1>1, <1>3, <1>4, <2>5 DEF RestInv, Prefix
  <2> QED
    BY <2>2, <2>3, <2>4, <2>6 DEF ContentInv
<1>8. CASE /\ ~NeedsFullRead(Data, complete)
           /\ certificates' = CertificatesOf(Data, complete)
           /\ keystore' = KeystoreOf(Data)
           /\ capped' = ~complete
           /\ contentPlace' = "done"
           /\ UNCHANGED <<position, start>>
  <2>1. capped' \in BOOLEAN /\ (capped' => ~complete) /\ (~capped' => complete)
    BY <1>8, Zenon DEF ContentInv, ContentTypeOK
  <2>2. CertificatesOf(Data, complete) \subseteq 1 .. position
        /\ KeystoreOf(Data) \subseteq Seq(Blocks)
    BY <1>3, ResultTypes
  <2>3. /\ certificates' = CertificatesOf(Data, complete)
        /\ keystore' = KeystoreOf(Data) /\ contentPlace' = "done"
        /\ UNCHANGED <<position, start>>
    BY <1>8
  <2>4. ContentTypeOK'
    BY <1>1, <1>2, <2>1, <2>2, <2>3 DEF ContentInv, ContentTypeOK
  <2>5. PositionInv' /\ ProbeInv' /\ RestInv' /\ ResultInv'
    BY <1>1, <1>2, <2>3 DEF PositionInv, ProbeInv, RestInv, ResultInv, Reading
  <2>6. HeldWithinLimit'
    BY <1>2, <2>3 DEF HeldWithinLimit
  <2>7. WholeOrCapped'
    <3>1. CASE complete
      <4>1. complete = TRUE /\ ~capped'
        BY <2>1, <3>1 DEF ContentInv, ContentTypeOK
      <4>2. position \in opened .. Len(file)
        BY <1>2, <1>5, <3>1
      <4>3. /\ certificates' = CertificatesOf(SubSeq(file, 1, position), TRUE)
            /\ keystore' = KeystoreOf(SubSeq(file, 1, position))
        BY <1>3, <2>3, <4>1 DEF Prefix
      <4> QED
        BY <1>1, <4>1, <4>2, <4>3 DEF WholeOrCapped
    <3>2. CASE ~complete
      <4>1. complete = FALSE /\ capped'
        BY <2>1, <3>2 DEF ContentInv, ContentTypeOK
      <4>2. ~NeedsFullRead(Data, FALSE)
        BY <1>8, <4>1
      <4>3. certificates' = {} /\ keystore' = {} /\ PEM(Data) = {}
        BY <2>3, <4>1, <4>2, NothingOfAPart
      <4> QED
        BY <1>1, <1>3, <1>4, <4>1, <4>3 DEF WholeOrCapped, Prefix
    <3> QED
      BY <3>1, <3>2
  <2> QED
    BY <2>4, <2>5, <2>6, <2>7 DEF ContentInv
<1> QED
  BY <1>6, <1>7, <1>8 DEF Recognise

\* The second read and its end.
LEMMA RestReadInv ==
  ASSUME ContentInv, ReadRest \/ EndRest
  PROVE  ContentInv'
<1>1. /\ UNCHANGED <<file, opened, start, complete, capped, failedRead>>
      /\ contentPlace = "rest"
  BY DEF ReadRest, EndRest
<1>2. /\ MaxBytes \in Nat /\ Len(file) \in Nat /\ position \in 0 .. Len(file)
      /\ opened \in 0 .. Len(file) /\ start = 0 /\ file \in Seq(Blocks)
      /\ ~capped
  BY <1>1, ContentAssumption, LenProperties
  DEF ContentInv, ContentTypeOK, PositionInv, ResultInv
<1>3. KeystoreOf(Prefix(MaxBytes)) # {} \/ PEM(Prefix(MaxBytes)) # {}
  BY <1>1 DEF ContentInv, RestInv
<1>4. HeldWithinLimit'
  BY <1>1, <1>3 DEF HeldWithinLimit, Prefix
<1>5. CASE ReadRest
  <2>1. /\ position < Len(file) /\ position' = position + 1
        /\ UNCHANGED <<contentPlace, certificates, keystore>>
    BY <1>5 DEF ReadRest
  <2>2. ContentTypeOK'
    BY <1>1, <1>2, <2>1 DEF ContentInv, ContentTypeOK
  <2>3. RestInv'
    <3>1. Prefix(MaxBytes)' = Prefix(MaxBytes)
      BY <1>1 DEF Prefix
    <3> QED
      BY <1>1, <2>1, <3>1 DEF ContentInv, RestInv
  <2>4. PositionInv' /\ ProbeInv' /\ ResultInv' /\ WholeOrCapped'
    BY <1>1, <1>2, <2>1
    DEF PositionInv, ProbeInv, ResultInv, WholeOrCapped, Finished, Reading
  <2> QED
    BY <1>4, <2>2, <2>3, <2>4 DEF ContentInv
<1>6. CASE EndRest
  <2>1. /\ position = Len(file) /\ position' = position /\ contentPlace' = "done"
        /\ certificates' = CertificatesOf(Data, TRUE) /\ keystore' = KeystoreOf(Data)
    BY <1>6 DEF EndRest
  <2>2. /\ Data = SubSeq(file, 1, Len(file)) /\ Data \in Seq(Blocks)
        /\ Len(Data) = Len(file)
    BY <1>2, <2>1, SubSeqProperties DEF Data
  <2>3. /\ CertificatesOf(Data, TRUE) \subseteq 1 .. Len(file)
        /\ KeystoreOf(Data) \subseteq Seq(Blocks)
    BY <2>2, ResultTypes
  <2>4. ContentTypeOK'
    BY <1>1, <1>2, <2>1, <2>3 DEF ContentInv, ContentTypeOK
  <2>5. PositionInv' /\ ProbeInv' /\ RestInv' /\ ResultInv'
    BY <1>1, <1>2, <2>1 DEF PositionInv, ProbeInv, RestInv, ResultInv, Reading
  <2>6. WholeOrCapped'
    <3>1. Len(file) \in opened .. Len(file)
      BY <1>2
    <3> QED
      BY <1>1, <1>2, <2>1, <2>2, <3>1 DEF WholeOrCapped
  <2> QED
    BY <1>4, <2>4, <2>5, <2>6 DEF ContentInv
<1> QED
  BY <1>5, <1>6

\* Every step keeps the invariant.
LEMMA ContentStepInv == ContentInv /\ [ContentNext]_contentVars => ContentInv'
<1> SUFFICES ASSUME ContentInv, [ContentNext]_contentVars PROVE ContentInv'
  OBVIOUS
<1>1. CASE UNCHANGED contentVars
  BY <1>1
  DEF contentVars, ContentInv, ContentTypeOK, PositionInv, ProbeInv, RestInv,
      ResultInv, WholeOrCapped, HeldWithinLimit, Finished, Reading, Prefix
<1>2. CASE ReadFails
  <2>1. /\ UNCHANGED <<file, opened, position, start, complete, certificates,
                      keystore, capped>>
        /\ contentPlace' = "done" /\ failedRead' = TRUE
    BY <1>2 DEF ReadFails
  <2>2. ContentTypeOK'
    BY <2>1 DEF ContentInv, ContentTypeOK
  <2>3. PositionInv' /\ ProbeInv' /\ RestInv' /\ ResultInv' /\ WholeOrCapped'
    <3>1. start = 0
      BY DEF ContentInv, PositionInv
    <3> QED
      BY <2>1, <3>1
      DEF PositionInv, ProbeInv, RestInv, ResultInv, WholeOrCapped, Finished, Reading
  <2>4. HeldWithinLimit'
    BY <2>1 DEF ContentInv, HeldWithinLimit
  <2> QED
    BY <2>2, <2>3, <2>4 DEF ContentInv
<1> QED
  BY <1>1, <1>2, AppendInv, SniffInv, RecogniseInv, RestReadInv DEF ContentNext

-----------------------------------------------------------------------------
(* The theorems.                                                           *)

\* The invariant holds whatever the file holds and however it grows.
THEOREM ContentInvariance == ContentSpec => []ContentInv
BY InitContent, ContentStepInv, PTL DEF ContentSpec

\* The positions stay within the file and the results within what was read.
THEOREM ContentTypeCorrect == ContentSpec => []ContentTypeOK
<1>1. ContentInv => ContentTypeOK
  BY DEF ContentInv
<1> QED
  BY <1>1, ContentInvariance, PTL

\* scanFileContentsWithOptions never reports a part of a file without saying so.
THEOREM WholeReported == ContentSpec => []WholeOrCapped
<1>1. ContentInv => WholeOrCapped
  BY DEF ContentInv
<1> QED
  BY <1>1, ContentInvariance, PTL

\* Only what the first read shows makes it read a file beyond the limit.
THEOREM LimitKeptUnlessShown == ContentSpec => []HeldWithinLimit
<1>1. ContentInv => HeldWithinLimit
  BY DEF ContentInv
<1> QED
  BY <1>1, ContentInvariance, PTL
=============================================================================
