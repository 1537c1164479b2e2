------------------------------ MODULE Keystores ------------------------------
(***************************************************************************)
(* The keystore branches of scanContentData in scanner.go: a file that     *)
(* begins like a Java keystore goes to one parser, one that begins like a  *)
(* PFX to the other.  With neither, a decoder of theirs is called alone:   *)
(* the parsers take the outcome of decoding a name as a choice.            *)
(***************************************************************************)
EXTENDS JavaKeystore, PKCS12Contents

VARIABLE format       \* what was detected, fixed; or "none"

keystoreVars == <<format, jksVars, p12Vars, decoderVars>>

KeystoreInit ==
  /\ format \in {"jks", "pkcs12", "none"}
  /\ JksInit /\ P12Init /\ DecoderInit
  /\ format # "jks" => size = CHOOSE n \in Sizes : TRUE    \* not looked at

Done == jksPlace = "done" \/ p12Place = "done" \/ decoder # "none"

KeystoreNext ==
  \/ format = "jks" /\ JksNext /\ UNCHANGED <<format, p12Vars, decoderVars>>
  \/ format = "pkcs12" /\ P12Next /\ UNCHANGED <<format, jksVars, decoderVars>>
  \/ format = "none" /\ DecoderNext /\ UNCHANGED <<format, jksVars, p12Vars>>
  \/ Done /\ UNCHANGED keystoreVars

KeystoreSpec == KeystoreInit /\ [][KeystoreNext]_keystoreVars

-----------------------------------------------------------------------------
(* Properties.                                                             *)

KeystoreTypeOK == format \in {"jks", "pkcs12", "none"} /\ JksTypeOK /\ P12TypeOK

\* A keystore whose outcome has no error was read to its end, and everything in
\* it is in the outcome: each certificate its entries claim, each bag at every
\* depth, each encrypted content.
SilentMeansComplete == JksSilentMeansComplete /\ P12SilentMeansComplete

\* A mark as a truststore is deserved: no key anywhere, nothing encrypted, and,
\* without an error, nothing unread.
MarkDeserved == JksMarkDeserved /\ P12MarkDeserved
=============================================================================
