----------------------------- MODULE ContentScan -----------------------------
(***************************************************************************)
(* scanFileContentsWithOptions and scanContentData in scanner.go: a file   *)
(* is read up to a limit, a probe for one more byte tells whether that was *)
(* all, and what the prefix holds decides whether the file is read again   *)
(* from its beginning.  Other programs may append to the file all the      *)
(* while.  A file is a sequence of blocks: the beginnings of formats, the  *)
(* two halves of a PEM certificate, and anything else.                     *)
(***************************************************************************)
EXTENDS Naturals, Sequences, FiniteSets, SequencesExt

CONSTANTS
  MaxBytes,           \* Options.MaxBytes, in blocks; 0 for no limit
  ScanArchives,       \* Options.ScanArchives
  InitialFiles,       \* what a file may hold when it is opened
  MaxLen              \* bound on what is appended

Blocks == {"jks", "pkcs12", "archive", "der", "begin", "end", "other"}

ASSUME ContentAssumption ==
  /\ MaxBytes \in Nat /\ MaxLen \in Nat /\ ScanArchives \in BOOLEAN
  /\ \A file \in InitialFiles : file \in Seq(Blocks)

VARIABLES
  file,               \* what the file holds now
  opened,             \* history: how much it held when it was opened
  position,           \* of the file's next read
  start,              \* where the data read so far begins
  contentPlace,       \* "sniff", "probe", "recognise", "rest"; at the end "done",
                      \* or "archive" when scanArchiveFile reads on
  complete,
  certificates,       \* the result: positions of PEM or DER certificates
  keystore,           \* the result: the keystore parser's data, {} for none
  capped,
  failedRead          \* the result is the error of a read or of a seek

contentVars == <<file, opened, position, start, contentPlace, complete,
                 certificates, keystore, capped, failedRead>>

\* The data read so far.  What is behind start and before position cannot change.
Data == SubSeq(file, start + 1, position)

Begins(data, block) == data # <<>> /\ data[1] = block

\* parsePEM
PEM(data) == {i \in 1 .. Len(data) - 1 : data[i] = "begin" /\ data[i + 1] = "end"}

\* A slip in place of NeedsFullRead: half a certificate is worth the whole file.
KeenNeedsFullRead(data, complete_) ==
  ~complete_ /\ (Begins(data, "jks") \/ Begins(data, "pkcs12")
                   \/ \E i \in DOMAIN data : data[i] = "begin")

\* scanContentData: a keystore is parsed from complete data only, and data with
\* a PEM certificate asks for the complete file; DER is looked for in complete
\* data alone.
NeedsFullRead(data, complete_) ==
  ~complete_ /\ (Begins(data, "jks") \/ Begins(data, "pkcs12") \/ PEM(data) # {})

KeystoreOf(data) ==
  IF Begins(data, "jks") \/ Begins(data, "pkcs12") THEN {data} ELSE {}

CertificatesOf(data, complete_) ==
  IF KeystoreOf(data) # {} THEN {}
  ELSE IF PEM(data) # {} THEN PEM(data)
  ELSE IF complete_ /\ Begins(data, "der") /\ \A i \in DOMAIN data : data[i] = "der"
    THEN DOMAIN data
  ELSE {}

ContentInit ==
  /\ file \in InitialFiles /\ opened = Len(file)
  /\ position = 0 /\ start = 0
  /\ contentPlace = "sniff" /\ complete = TRUE
  /\ certificates = {} /\ keystore = {} /\ capped = FALSE /\ failedRead = FALSE

-----------------------------------------------------------------------------
(* Slips, each in place of the definition it is named after.               *)

\* The file is read on from where the probe left it.
UnsoughtSeekStart ==
  LET behind == IF complete THEN position ELSE position + 1
  IN  position' = behind /\ start' = behind

\* The probe for one more byte is left out.
TrustingAfterSniff == "recognise"

-----------------------------------------------------------------------------
\* Another program appends to the file.
AppendBlock ==
  /\ contentPlace \notin {"archive", "done"} /\ Len(file) < MaxLen
  /\ \E block \in Blocks : file' = Append(file, block)
  /\ UNCHANGED <<opened, position, start, contentPlace, complete, certificates,
                 keystore, capped, failedRead>>

\* os.Open, a read or a seek fails: the result is that error and nothing else.
ReadFails ==
  /\ contentPlace \notin {"recognise", "archive", "done"}
  /\ contentPlace' = "done" /\ failedRead' = TRUE
  /\ UNCHANGED <<file, opened, position, start, complete, certificates, keystore,
                 capped>>

AtLimit == MaxBytes > 0 /\ position = MaxBytes

\* io.ReadAll of the limited reader.
Sniff ==
  /\ contentPlace = "sniff" /\ ~AtLimit /\ position < Len(file)
  /\ position' = position + 1
  /\ UNCHANGED <<file, opened, start, contentPlace, complete, certificates,
                 keystore, capped, failedRead>>

\* After as many bytes as the limit one more is asked for.
AfterSniff == IF AtLimit THEN "probe" ELSE "recognise"

EndSniff ==
  /\ contentPlace = "sniff" /\ (AtLimit \/ position = Len(file))
  /\ contentPlace' = AfterSniff
  /\ UNCHANGED <<file, opened, position, start, complete, certificates, keystore,
                 capped, failedRead>>

\* A byte or the end of the file.  The byte is not part of the data.
Probe ==
  /\ contentPlace = "probe"
  /\ complete' = (position = Len(file))
  /\ contentPlace' = "recognise"
  /\ UNCHANGED <<file, opened, position, start, certificates, keystore, capped,
                 failedRead>>

\* file.Seek(0, io.SeekStart), behind the byte of the probe or not.
SeekStart == position' = 0 /\ start' = 0

\* An archive, a keystore or a certificate in the prefix, or the result.
Recognise ==
  /\ contentPlace = "recognise"
  /\ \/ /\ ScanArchives /\ Begins(Data, "archive")
        /\ contentPlace' = "archive" /\ SeekStart
        /\ UNCHANGED <<certificates, keystore, capped>>
     \/ /\ ~(ScanArchives /\ Begins(Data, "archive")) /\ NeedsFullRead(Data, complete)
        /\ contentPlace' = "rest" /\ SeekStart
        /\ UNCHANGED <<certificates, keystore, capped>>
     \/ /\ ~(ScanArchives /\ Begins(Data, "archive")) /\ ~NeedsFullRead(Data, complete)
        /\ certificates' = CertificatesOf(Data, complete)
        /\ keystore' = KeystoreOf(Data)
        /\ capped' = ~complete
        /\ contentPlace' = "done"
        /\ UNCHANGED <<position, start>>
  /\ UNCHANGED <<file, opened, complete, failedRead>>

\* io.ReadAll of the file, from its beginning.
ReadRest ==
  /\ contentPlace = "rest" /\ position < Len(file)
  /\ position' = position + 1
  /\ UNCHANGED <<file, opened, start, contentPlace, complete, certificates,
                 keystore, capped, failedRead>>

EndRest ==
  /\ contentPlace = "rest" /\ position = Len(file)
  /\ certificates' = CertificatesOf(Data, TRUE)
  /\ keystore' = KeystoreOf(Data)
  /\ contentPlace' = "done"
  /\ UNCHANGED <<file, opened, position, start, complete, capped, failedRead>>

ContentNext ==
  \/ AppendBlock \/ ReadFails \/ Sniff \/ EndSniff \/ Probe \/ Recognise
  \/ ReadRest \/ EndRest
  \/ contentPlace \in {"done", "archive"} /\ UNCHANGED contentVars

ContentSpec == ContentInit /\ [][ContentNext]_contentVars

-----------------------------------------------------------------------------
(* Properties.                                                             *)

ContentTypeOK ==
  /\ file \in Seq(Blocks) /\ opened \in 0 .. Len(file) /\ position \in 0 .. Len(file)
  /\ start \in 0 .. position
  /\ contentPlace \in {"sniff", "probe", "recognise", "rest", "archive", "done"}
  /\ certificates \subseteq 1 .. Len(file) /\ keystore \subseteq Seq(Blocks)
  /\ complete \in BOOLEAN /\ capped \in BOOLEAN /\ failedRead \in BOOLEAN

Finished == contentPlace = "done" /\ ~failedRead

\* A result describes the whole file, as it was at some moment since it was
\* opened, or says that the file was capped and holds nothing: a bundle or a
\* keystore is never reported in part, however the file grows between the sniff,
\* the probe and the second read, and a file whose prefix shows one is not capped.
WholeOrCapped ==
  Finished =>
    IF capped
      THEN /\ MaxBytes > 0 /\ Len(file) > MaxBytes
           /\ certificates = {} /\ keystore = {}
           /\ PEM(SubSeq(file, 1, MaxBytes)) = {}
      ELSE \E n \in opened .. Len(file) :
             /\ certificates = CertificatesOf(SubSeq(file, 1, n), TRUE)
             /\ keystore = KeystoreOf(SubSeq(file, 1, n))

\* More than the limit is held only of a file whose first bytes, as many as the
\* limit, hold a keystore's beginning or a whole PEM certificate.
HeldWithinLimit ==
  MaxBytes > 0 /\ position - start > MaxBytes =>
    LET prefix == SubSeq(file, 1, MaxBytes)
    IN  KeystoreOf(prefix) # {} \/ PEM(prefix) # {}
=============================================================================
