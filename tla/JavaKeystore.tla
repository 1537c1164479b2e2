---------------------------- MODULE JavaKeystore ----------------------------
(***************************************************************************)
(* parseJavaKeystore in jks.go: a reader over the bytes of a file without  *)
(* its MAC, a loop over the entries the file claims to have, and a loop    *)
(* over the certificates an entry claims.  The file is not fixed: each     *)
(* length, tag and count is chosen when it is read, so that a behaviour    *)
(* stands for one file and a run for all files within the bounds.          *)
(***************************************************************************)
EXTENDS Encodings

CONSTANTS
  Sizes,              \* number of bytes before the MAC
  Lengths,            \* values of a 32-bit length or count
  ShortLengths        \* values of a 16-bit length

ASSUME JksAssumption ==
  /\ Sizes \subseteq 12 .. IntMax               \* a len(), 32 bytes or more
  /\ Lengths \subseteq 0 .. 2 * IntMax + 1      \* an int has 32 bits or more
  /\ ShortLengths \subseteq 0 .. IntMax

VARIABLES
  size,               \* len(reader.data), fixed
  version,            \* of the format, fixed; 0 before it is read
  offset,             \* reader.offset
  jksPlace,           \* what is read next, or "done"
  entryCount,         \* claimed by the header
  entry,              \* entryIndex
  chainLength,        \* claimed by the entry
  chainIndex,         \* in the chain
  privateKeyEntries,
  trustedEntries,
  jksFound,           \* len(certificates)
  jksFailed,          \* an error was appended, or returned
  jksTruststore,      \* the mark on every certificate returned
  claimed,            \* history: certificates claimed by the entries so far
  examined            \* history: certificates read

jksVars == <<size, version, offset, jksPlace, entryCount, entry, chainLength,
             chainIndex, privateKeyEntries, trustedEntries, jksFound, jksFailed,
             jksTruststore, claimed, examined>>

Remaining == size - offset

JksInit ==
  /\ size \in Sizes
  /\ version = 0 /\ offset = 0 /\ jksPlace = "header"
  /\ entryCount = 0 /\ entry = 0 /\ chainLength = 0 /\ chainIndex = 0
  /\ privateKeyEntries = 0 /\ trustedEntries = 0
  /\ jksFound = 0 /\ jksFailed = FALSE /\ jksTruststore = FALSE
  /\ claimed = 0 /\ examined = 0

-----------------------------------------------------------------------------
(* Slips, each in place of the definition it is named after.               *)

\* takeUint32 converts the length first and compares the result.
HastyFits(length, skipped) == ToInt(length) <= Remaining - skipped

\* The truststore mark is decided on early returns too.
EagerGiveUp ==
  /\ jksPlace' = "done" /\ jksFailed' = TRUE
  /\ jksTruststore' = (privateKeyEntries = 0 /\ trustedEntries > 0)
  /\ UNCHANGED <<size, version, offset, entryCount, entry, chainLength, chainIndex,
                 privateKeyEntries, trustedEntries, jksFound, claimed, examined>>

-----------------------------------------------------------------------------
\* Return what was found so far, without the mark, and an error.
GiveUp ==
  /\ jksPlace' = "done" /\ jksFailed' = TRUE
  /\ UNCHANGED <<size, version, offset, entryCount, entry, chainLength, chainIndex,
                 privateKeyEntries, trustedEntries, jksFound, jksTruststore,
                 claimed, examined>>

\* takeUint32 compares as int64 and converts afterwards.
Fits(length, skipped) == length <= Remaining - skipped

\* The magic, the version and the number of entries.  The check of the file's
\* length guarantees that they are there.
ReadHeader ==
  /\ jksPlace = "header"
  /\ \/ GiveUp
     \/ \E v \in {1, 2}, n \in Lengths :
          /\ version' = v /\ offset' = 12 /\ entryCount' = n
          /\ jksPlace' = IF n = 0 THEN "done" ELSE "entry"
          /\ jksFailed' = (n = 0)
          /\ UNCHANGED <<size, entry, chainLength, chainIndex, privateKeyEntries,
                         trustedEntries, jksFound, jksTruststore, claimed,
                         examined>>

\* Tag, alias and date of an entry.  An alias that cannot be decoded is an error
\* and replaced; a tag other than these two ends the parse.
BeginEntry(tag) ==
  /\ jksPlace = "entry" /\ entry < entryCount
  /\ \E alias \in ShortLengths, decoded \in BOOLEAN :
       IF 14 + alias > Remaining
         THEN GiveUp
         ELSE /\ offset' = offset + 14 + alias
              /\ jksFailed' = (jksFailed \/ ~decoded)
              /\ \/ /\ tag = "privateKey"
                    /\ privateKeyEntries' = privateKeyEntries + 1
                    /\ jksPlace' = "key"
                    /\ UNCHANGED <<trustedEntries, chainLength, chainIndex, claimed>>
                 \/ /\ tag = "trusted"
                    /\ trustedEntries' = trustedEntries + 1
                    /\ chainLength' = 1 /\ chainIndex' = 0
                    /\ claimed' = claimed + 1
                    /\ jksPlace' = "certificate"
                    /\ UNCHANGED privateKeyEntries
              /\ UNCHANGED <<size, version, entryCount, entry, jksFound,
                             jksTruststore, examined>>

\* A secret key, or a tag that is not known.
UnsupportedEntry == jksPlace = "entry" /\ entry < entryCount /\ GiveUp

\* The key is skipped, and the length of its chain read.
ReadKey ==
  /\ jksPlace = "key"
  /\ \E key, chain \in Lengths :
       IF 4 > Remaining \/ ~Fits(key, 4) \/ 4 > Remaining - 4 - ToInt(key)
         THEN GiveUp
         ELSE /\ offset' = offset + 8 + ToInt(key)
              /\ chainLength' = chain /\ chainIndex' = 0
              /\ claimed' = claimed + chain
              /\ jksPlace' = "certificate"
              /\ UNCHANGED <<size, version, entryCount, entry, privateKeyEntries,
                             trustedEntries, jksFound, jksFailed, jksTruststore,
                             examined>>

\* reader.certificate.  Version 2 has a type before the DER; one that cannot be
\* decoded ends the parse, one that is not X.509, or DER that is not a
\* certificate, is an error of this certificate alone.
ReadCertificate ==
  /\ jksPlace = "certificate" /\ chainIndex < chainLength
  /\ \E type \in ShortLengths, der \in Lengths, parsed \in BOOLEAN :
       LET before == IF version = 2 THEN 6 + type ELSE 4
       IN  IF before > Remaining \/ ~Fits(der, before)
             THEN GiveUp
             ELSE /\ offset' = offset + before + ToInt(der)
                  /\ parsed => der > 0
                  /\ jksFound' = jksFound + (IF parsed THEN 1 ELSE 0)
                  /\ jksFailed' = (jksFailed \/ ~parsed)
                  /\ chainIndex' = chainIndex + 1
                  /\ examined' = examined + 1
                  /\ UNCHANGED <<size, version, jksPlace, entryCount, entry,
                                 chainLength, privateKeyEntries, trustedEntries,
                                 jksTruststore, claimed>>

UndecodableType == jksPlace = "certificate" /\ chainIndex < chainLength
                   /\ version = 2 /\ GiveUp

EndEntry ==
  /\ jksPlace = "certificate" /\ chainIndex = chainLength
  /\ entry' = entry + 1 /\ jksPlace' = "entry"
  /\ UNCHANGED <<size, version, offset, entryCount, chainLength, chainIndex,
                 privateKeyEntries, trustedEntries, jksFound, jksFailed,
                 jksTruststore, claimed, examined>>

\* Bytes behind the last entry end the parse; a keystore without certificates is
\* an error; then the mark is decided.
FinishEntries ==
  /\ jksPlace = "entry" /\ entry = entryCount
  /\ IF Remaining # 0
       THEN GiveUp
       ELSE /\ jksFailed' = (jksFailed \/ jksFound = 0)
            /\ jksTruststore' = (privateKeyEntries = 0 /\ trustedEntries > 0)
            /\ jksPlace' = "done"
            /\ UNCHANGED <<size, version, offset, entryCount, entry, chainLength,
                           chainIndex, privateKeyEntries, trustedEntries, jksFound,
                           claimed, examined>>

JksNext ==
  \/ ReadHeader \/ BeginEntry("privateKey") \/ BeginEntry("trusted")
  \/ UnsupportedEntry \/ ReadKey \/ ReadCertificate \/ UndecodableType \/ EndEntry
  \/ FinishEntries

JksSpec == JksInit /\ [][JksNext]_jksVars

-----------------------------------------------------------------------------
(* Properties.                                                             *)

JksTypeOK ==
  /\ size \in Sizes /\ version \in 0 .. 2 /\ offset \in Int
  /\ jksPlace \in {"header", "entry", "key", "certificate", "done"}
  /\ entryCount \in Nat /\ entry \in Nat
  /\ chainLength \in Nat /\ chainIndex \in Nat
  /\ privateKeyEntries \in Nat /\ trustedEntries \in Nat
  /\ jksFound \in Nat /\ claimed \in Nat /\ examined \in Nat
  /\ jksFailed \in BOOLEAN /\ jksTruststore \in BOOLEAN

\* The reader stays within the file, and everything the loops have done is paid
\* for with bytes of it, 12 for the header, 14 for an entry, 4 for a certificate:
\* what a file claims in its counts and lengths costs nothing until the bytes are
\* there.
WorkPaidFor ==
  /\ 0 <= offset /\ offset <= size
  /\ version # 0 =>
       12 + 14 * (privateKeyEntries + trustedEntries) + 4 * examined <= offset

\* Without an error the whole file was read, and every entry and every
\* certificate it claims was returned, at least one.
JksSilentMeansComplete ==
  jksPlace = "done" /\ ~jksFailed =>
    /\ entry = entryCount /\ offset = size
    /\ privateKeyEntries + trustedEntries = entryCount
    /\ jksFound = claimed /\ jksFound > 0

\* Certificates are marked as a truststore's only where the whole file was read
\* and each of its entries is a trusted certificate.
JksMarkDeserved ==
  jksTruststore => jksPlace = "done" /\ offset = size /\ trustedEntries = entryCount
=============================================================================
