--------------------------- MODULE PKCS12Contents ---------------------------
(***************************************************************************)
(* parsePKCS12 in pkcs12.go: a loop over the contents of a container, and  *)
(* the recursion of parseSafeContents over the bags of one, as a stack     *)
(* with a level for each call.  The elements of a sequence are counted     *)
(* and delimited before the first is looked at (rawSequenceElements); what *)
(* an element holds is chosen when the loop comes to it.                   *)
(***************************************************************************)
EXTENDS Integers, Sequences, FiniteSets, SequencesExt

CONSTANTS
  MaxContentInfos,    \* maxPKCS12ContentInfos
  MaxBags,            \* maxPKCS12Bags
  MaxSafeContentsDepth

ASSUME P12Assumption ==
  /\ MaxContentInfos \in Nat /\ MaxBags \in Nat /\ MaxSafeContentsDepth \in Nat

\* A call of parseSafeContents: the bags it has still to look at, and whether it
\* has appended an error.
Level == [bags : 0 .. MaxBags + 1, failed : BOOLEAN]

VARIABLES
  p12Place,           \* "container", "contents", "bags" or "done"
  contentInfos,       \* number of contents
  content,            \* contentIndex
  levels,             \* the calls under way, the innermost last
  certBags,           \* chainIndex, one for all levels of a content
  bagCount, keyBagCount,
  p12Found,           \* the content and chain index of each certificate returned
  encrypted,          \* the contents reported as encrypted
  p12Failed,          \* an error was appended to parser.errors, or returned
  p12Truststore,      \* the mark on every certificate returned
  read,               \* history: bags that were looked into
  missed              \* history: a part of the container was not understood

p12Vars == <<p12Place, contentInfos, content, levels, certBags, bagCount,
             keyBagCount, p12Found, encrypted, p12Failed, p12Truststore, read,
             missed>>

P12Init ==
  /\ p12Place = "container" /\ contentInfos = 0 /\ content = 0
  /\ levels = <<>> /\ certBags = 0 /\ bagCount = 0 /\ keyBagCount = 0
  /\ p12Found = <<>> /\ encrypted = {}
  /\ p12Failed = FALSE /\ p12Truststore = FALSE
  /\ read = 0 /\ missed = FALSE

\* The innermost call goes on to its next bag, with or without a new error.
AfterBag(failed_) ==
  [levels EXCEPT ![Len(levels)] =
     [bags |-> @.bags - 1, failed |-> @.failed \/ failed_]]

-----------------------------------------------------------------------------
(* Slips, each in place of the definition it is named after.               *)

\* The error of a nested call is dropped.
ForgetfulReturn(failed_) ==
  LET outer == Front(levels) IN
  /\ levels' = outer
  /\ p12Failed' = (p12Failed \/ (outer = <<>> /\ failed_))
  /\ p12Place' = IF outer = <<>> THEN "contents" ELSE "bags"

\* The depth is compared with one level too many.
DeepMayEnter(below) == Len(below) <= MaxSafeContentsDepth + 1

-----------------------------------------------------------------------------
\* The innermost call returns: its error is one of the call around it, where the
\* bag it came from is done, or of the parser.
Return(failed_) ==
  LET outer == Front(levels) IN
  /\ levels' = IF outer = <<>> THEN <<>>
               ELSE [outer EXCEPT ![Len(outer)].failed = @ \/ failed_]
  /\ p12Failed' = (p12Failed \/ (outer = <<>> /\ failed_))
  /\ p12Place' = IF outer = <<>> THEN "contents" ELSE "bags"

-----------------------------------------------------------------------------
(* The container.                                                          *)

\* The PFX, its authSafe and the sequence of contents, or an error of these.
OpenContainer ==
  /\ p12Place = "container"
  /\ \/ /\ \E n \in 0 .. MaxContentInfos : contentInfos' = n
        /\ p12Place' = "contents"
        /\ UNCHANGED <<p12Failed, missed>>
     \/ /\ p12Place' = "done" /\ p12Failed' = TRUE /\ missed' = TRUE
        /\ UNCHANGED contentInfos
  /\ UNCHANGED <<content, levels, certBags, bagCount, keyBagCount, p12Found,
                 encrypted, p12Truststore, read>>

MoreContents == p12Place = "contents" /\ content < contentInfos

\* The check of the depth.
MayEnter(below) == Len(below) <= MaxSafeContentsDepth

\* A call of parseSafeContents on a level of its own: not too deep, and a
\* sequence of at most one element more than a file may have bags.
Enter(below) ==
  /\ MayEnter(below)
  /\ \E n \in 0 .. MaxBags + 1 :
       levels' = Append(below, [bags |-> n, failed |-> FALSE])
  /\ p12Place' = "bags"
  /\ UNCHANGED <<p12Failed, missed>>

\* A content of type data.
EnterContent ==
  /\ MoreContents
  /\ content' = content + 1 /\ certBags' = 0
  /\ Enter(<<>>)
  /\ UNCHANGED <<contentInfos, bagCount, keyBagCount, p12Found, encrypted,
                 p12Truststore, read>>

\* A content of type encryptedData, listed under its index.
EncryptedContent ==
  /\ MoreContents
  /\ content' = content + 1 /\ encrypted' = encrypted \cup {content}
  /\ UNCHANGED <<p12Place, contentInfos, levels, certBags, bagCount, keyBagCount,
                 p12Found, p12Failed, p12Truststore, read, missed>>

\* A content that is malformed, of another type, or whose octets, safe contents
\* or encryption parameters are malformed or too many.
UnreadableContent ==
  /\ MoreContents
  /\ content' = content + 1
  /\ p12Failed' = TRUE /\ missed' = TRUE
  /\ UNCHANGED <<p12Place, contentInfos, levels, certBags, bagCount, keyBagCount,
                 p12Found, encrypted, p12Truststore, read>>

-----------------------------------------------------------------------------
(* The bags of one call.                                                   *)

BagsLeft == p12Place = "bags" /\ Last(levels).bags > 0

\* The next bag is counted and may be looked into.
TakeBag ==
  /\ BagsLeft /\ bagCount < MaxBags
  /\ bagCount' = bagCount + 1 /\ read' = read + 1

\* One bag too many: the call returns; the calls around it go on.
TooManyBags ==
  /\ BagsLeft /\ bagCount >= MaxBags
  /\ bagCount' = bagCount + 1 /\ missed' = TRUE
  /\ Return(TRUE)
  /\ UNCHANGED <<contentInfos, content, certBags, keyBagCount, p12Found, encrypted,
                 p12Truststore, read>>

\* A bag that is malformed.
UnreadableBag ==
  /\ TakeBag
  /\ levels' = AfterBag(TRUE) /\ missed' = TRUE
  /\ UNCHANGED <<p12Place, contentInfos, content, certBags, keyBagCount, p12Found,
                 encrypted, p12Failed, p12Truststore>>

\* keyBag, pkcs8ShroudedKeyBag or secretBag.
KeyBag ==
  /\ TakeBag
  /\ keyBagCount' = keyBagCount + 1
  /\ levels' = AfterBag(FALSE)
  /\ UNCHANGED <<p12Place, contentInfos, content, certBags, p12Found, encrypted,
                 p12Failed, p12Truststore, missed>>

\* certBag: it takes a position whether its certificate can be read or not; a
\* friendly name that cannot be read is an error, the certificate is kept.
CertBag ==
  /\ TakeBag
  /\ certBags' = certBags + 1
  /\ \E named, parsed \in BOOLEAN :
       /\ p12Found' = IF parsed
                      THEN Append(p12Found, [content |-> content - 1, chain |-> certBags])
                      ELSE p12Found
       /\ levels' = AfterBag(~named \/ ~parsed)
       /\ missed' = (missed \/ ~parsed)
  /\ UNCHANGED <<p12Place, contentInfos, content, keyBagCount, encrypted, p12Failed,
                 p12Truststore>>

\* A slip in place of NestedBag: a nested call counts positions from zero.
RestartingNestedBag ==
  /\ TakeBag
  /\ \/ Enter(AfterBag(FALSE)) /\ certBags' = 0
     \/ /\ levels' = AfterBag(TRUE) /\ missed' = TRUE
        /\ UNCHANGED <<p12Place, p12Failed, certBags>>
  /\ UNCHANGED <<contentInfos, content, keyBagCount, p12Found, encrypted,
                 p12Truststore>>

\* safeContentsBag: a call on another level, or an error at once.
NestedBag ==
  /\ TakeBag
  /\ \/ Enter(AfterBag(FALSE))
     \/ /\ levels' = AfterBag(TRUE) /\ missed' = TRUE
        /\ UNCHANGED <<p12Place, p12Failed>>
  /\ UNCHANGED <<contentInfos, content, certBags, keyBagCount, p12Found, encrypted,
                 p12Truststore>>

\* Any other kind of bag is passed over.
OtherBag ==
  /\ TakeBag
  /\ levels' = AfterBag(FALSE)
  /\ UNCHANGED <<p12Place, contentInfos, content, certBags, keyBagCount, p12Found,
                 encrypted, p12Failed, p12Truststore, missed>>

EndBags ==
  /\ p12Place = "bags" /\ Last(levels).bags = 0
  /\ Return(Last(levels).failed)
  /\ UNCHANGED <<contentInfos, content, certBags, bagCount, keyBagCount, p12Found,
                 encrypted, p12Truststore, read, missed>>

-----------------------------------------------------------------------------
FinishContents ==
  /\ p12Place = "contents" /\ content = contentInfos
  /\ p12Truststore' = (p12Found # <<>> /\ keyBagCount = 0 /\ encrypted = {})
  /\ p12Place' = "done"
  /\ UNCHANGED <<contentInfos, content, levels, certBags, bagCount, keyBagCount,
                 p12Found, encrypted, p12Failed, read, missed>>

P12Next ==
  \/ OpenContainer \/ EnterContent \/ EncryptedContent \/ UnreadableContent
  \/ TooManyBags \/ UnreadableBag \/ KeyBag \/ CertBag \/ NestedBag \/ OtherBag
  \/ EndBags \/ FinishContents

P12Spec == P12Init /\ [][P12Next]_p12Vars

-----------------------------------------------------------------------------
(* Properties.                                                             *)

P12TypeOK ==
  /\ p12Place \in {"container", "contents", "bags", "done"}
  /\ contentInfos \in 0 .. MaxContentInfos /\ content \in 0 .. contentInfos
  /\ levels \in Seq(Level) /\ (p12Place = "bags") = (levels # <<>>)
  /\ certBags \in Nat /\ bagCount \in Nat /\ keyBagCount \in Nat /\ read \in Nat
  /\ p12Found \in Seq([content : 0 .. MaxContentInfos, chain : Nat])
  /\ encrypted \subseteq 0 .. MaxContentInfos
  /\ p12Failed \in BOOLEAN /\ p12Truststore \in BOOLEAN /\ missed \in BOOLEAN

\* The limits hold for the whole file, however its bags are nested: no bag beyond
\* the limit is looked into, and each open call of each content can count at
\* most one more before it returns.
BagLimitKept ==
  /\ Len(levels) <= MaxSafeContentsDepth + 1
  /\ read <= MaxBags
  /\ bagCount > MaxBags =>
       bagCount + Len(levels) <= MaxBags + content * (MaxSafeContentsDepth + 1)

\* Without an error every content was read or listed as encrypted, and every bag
\* at every depth was looked into: an error of a nested call reaches the caller.
P12SilentMeansComplete ==
  p12Place = "done" /\ ~p12Failed => ~missed /\ content = contentInfos

\* Without an error a marked container has certificates, no key bag and no
\* encrypted content.  (With one, the part that could not be read may hold either.)
P12MarkDeserved ==
  p12Truststore /\ ~p12Failed =>
    /\ p12Place = "done" /\ ~missed
    /\ p12Found # <<>> /\ keyBagCount = 0 /\ encrypted = {}

\* The chain index is the position among the certificate bags of one content, in
\* the order of the file, nested bags included: two certificates of a content
\* never share one, and one that could not be read leaves its position free.
ChainIndicesExact ==
  \A i, j \in DOMAIN p12Found :
    /\ i < j /\ p12Found[i].content = p12Found[j].content =>
         p12Found[i].chain < p12Found[j].chain
    /\ i < j => p12Found[i].content <= p12Found[j].content
    /\ ~missed => \A c \in 0 .. p12Found[i].chain :
         \E k \in 1 .. i : p12Found[k] = [p12Found[i] EXCEPT !.chain = c]
=============================================================================
