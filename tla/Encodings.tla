------------------------------ MODULE Encodings ------------------------------
(***************************************************************************)
(* The pure decoders of the keystore parsers, each with the encoding it    *)
(* must agree with: the aliases of jks.go (Java's modified UTF-8), the     *)
(* BMPStrings of pkcs12.go (UTF-16, big-endian), and the headers of DER    *)
(* elements.  A behaviour is one call of one decoder on one input.         *)
(***************************************************************************)
EXTENDS Integers, Sequences, SequencesExt

CONSTANTS
  IntMax,             \* the largest int
  ByteSize,           \* values of a byte in a DER header: 256
  LengthBytes,        \* bytes of a DER length, at most: 8, as in a uint64
  Runes,              \* characters from which texts are made
  Bytes               \* bytes from which encoded strings are made

ASSUME WidthAssumption ==
  /\ IntMax \in Nat /\ ByteSize \in Nat /\ LengthBytes \in Nat
  /\ Bytes \subseteq 0 .. 255

ASSUME RuneAssumption ==
  \A rune \in Runes :
    rune \in Nat /\ rune < 1114112 /\ (rune < 55296 \/ rune > 57343)

\* int(n) for an unsigned n of as many bits, or fewer
ToInt(n) == IF n <= IntMax THEN n ELSE n - 2 * (IntMax + 1)

VARIABLES
  decoder,            \* the one called, "none" before
  input,              \* the bytes it is given
  window,             \* of a DER header: where it begins, and the limit
  output              \* what it returned

decoderVars == <<decoder, input, window, output>>

\* What a decoder returns instead of a text.  No text holds a negative number.
Invalid == <<-1>>
Valid(decoded) == -1 \notin Range(decoded)

-----------------------------------------------------------------------------
(* Strings.                                                                *)

Continuation(byte) == byte \in 128 .. 191
High(unit) == unit \in 55296 .. 56319
Low(unit) == unit \in 56320 .. 57343

\* The code units of one to three bytes, and the least value that needs so many.
TwoBytes(a, b) == (a % 32) * 64 + (b % 64)
ThreeBytes(a, b, c) == (a % 16) * 4096 + (b % 64) * 64 + (c % 64)

\* A slip in place of MayTakeTwo: a value that fits one byte may take two.
LooseMayTakeTwo(a, b) == a \in 192 .. 223 /\ Continuation(b)

MayTakeTwo(a, b) ==
  /\ a \in 192 .. 223 /\ Continuation(b)
  /\ TwoBytes(a, b) = 0 \/ TwoBytes(a, b) >= 128

MayTakeThree(a, b, c) ==
  /\ a \in 224 .. 239 /\ Continuation(b) /\ Continuation(c)
  /\ ThreeBytes(a, b, c) >= 2048

\* The first loop of decodeJavaModifiedUTF8, from each offset to the end.
CodeUnits(encoded) ==
  LET n == Len(encoded)
      from[i \in 1 .. n + 3] ==
        IF i > n THEN <<>>
        ELSE IF encoded[i] \in 1 .. 127
          THEN <<encoded[i]>> \o from[i + 1]
        ELSE IF i + 1 <= n /\ MayTakeTwo(encoded[i], encoded[i + 1])
          THEN <<TwoBytes(encoded[i], encoded[i + 1])>> \o from[i + 2]
        ELSE IF i + 2 <= n /\ MayTakeThree(encoded[i], encoded[i + 1], encoded[i + 2])
          THEN <<ThreeBytes(encoded[i], encoded[i + 1], encoded[i + 2])>> \o from[i + 3]
        ELSE Invalid
  IN  from[1]

\* The second loop, which decodeUTF16BE has too: surrogates come in pairs.
Text(units) ==
  LET n == Len(units)
      from[i \in 1 .. n + 2] ==
        IF i > n THEN <<>>
        ELSE IF High(units[i]) /\ i + 1 <= n /\ Low(units[i + 1])
          THEN <<65536 + (units[i] - 55296) * 1024 + units[i + 1] - 56320>>
                 \o from[i + 2]
        ELSE IF High(units[i]) \/ Low(units[i]) THEN Invalid
        ELSE <<units[i]>> \o from[i + 1]
  IN  from[1]

DecodeJavaModifiedUTF8(encoded) ==
  IF Valid(CodeUnits(encoded)) THEN Text(CodeUnits(encoded)) ELSE Invalid

DecodeUTF16BE(encoded) ==
  IF Len(encoded) % 2 # 0 THEN Invalid
  ELSE Text([i \in 1 .. Len(encoded) \div 2 |->
              encoded[2 * i - 1] * 256 + encoded[2 * i]])

\* The encoders, as the formats define them.
Units(rune) ==
  IF rune < 65536 THEN <<rune>>
  ELSE <<55296 + (rune - 65536) \div 1024, 56320 + ((rune - 65536) % 1024)>>

UnitBytes(unit) ==
  IF unit \in 1 .. 127 THEN <<unit>>
  ELSE IF unit < 2048 THEN <<192 + unit \div 64, 128 + (unit % 64)>>
  ELSE <<224 + unit \div 4096, 128 + ((unit \div 64) % 64), 128 + (unit % 64)>>

AllUnits(text) == FlattenSeq([i \in DOMAIN text |-> Units(text[i])])
ModifiedUTF8(text) ==
  FlattenSeq([i \in DOMAIN AllUnits(text) |-> UnitBytes(AllUnits(text)[i])])
UTF16BE(text) ==
  FlattenSeq([i \in DOMAIN AllUnits(text) |->
    <<AllUnits(text)[i] \div 256, AllUnits(text)[i] % 256>>])

-----------------------------------------------------------------------------
(* Headers of DER elements.                                                *)

\* The value of the length bytes, the first the most significant.
LengthOf(digits) == FoldLeft(LAMBDA length, digit : (length * ByteSize) + digit, 0, digits)

\* A slip in place of EndFits: the end is computed first and then compared.
HastyEndFits(offset, length, limit) == ToInt(offset + length) <= limit

\* offset is that of the content.
EndFits(offset, length, limit) ==
  /\ length <= IntMax /\ offset <= IntMax - length
  /\ ToInt(offset + length) <= limit

\* readDERElementHeader at an offset of data, up to a limit that may lie behind
\* the data: where the content begins and where it ends.
ReadDERElementHeader(data, offset, limit) ==
  IF offset + 2 > Len(data) \/ offset >= limit THEN Invalid
  ELSE
    LET first == data[offset + 2]
        short == first < ByteSize \div 2
        count == IF short THEN 0 ELSE first - ByteSize \div 2
        content == offset + 2 + count
        fits == count <= LengthBytes /\ content <= Len(data)
        digits == IF fits THEN SubSeq(data, offset + 3, content) ELSE <<>>
        length == IF short THEN first ELSE LengthOf(digits)
        minimal == short \/ (digits # <<>> /\ digits[1] # 0 /\ length >= ByteSize \div 2)
    IN  IF fits /\ minimal /\ EndFits(content, length, limit)
          THEN <<content, ToInt(content + length)>>
          ELSE Invalid

\* What a digit with so many digits behind it counts for.
Power[k \in 0 .. LengthBytes] == IF k = 0 THEN 1 ELSE ByteSize * Power[k - 1]

\* The lengths below have so many digits; an int holds the size of the data.
ASSUME HeaderAssumption == 2 * IntMax + 1 < Power[LengthBytes] /\ IntMax >= 5

\* The header of an element as DER defines it: the shortest form.
Header(tag, length) ==
  LET top == CHOOSE k \in 1 .. LengthBytes :
               length < Power[k] /\ (k = 1 \/ length >= Power[k - 1])
  IN  IF length < ByteSize \div 2 THEN <<tag, length>>
      ELSE <<tag, ByteSize \div 2 + top>>
             \o [i \in 1 .. top |-> (length \div Power[top - i]) % ByteSize]

-----------------------------------------------------------------------------
(* The calls.                                                              *)

Texts == UNION {[1 .. n -> Runes] : n \in 0 .. 2}
Aliases == {ModifiedUTF8(text) : text \in Texts}
Names == {UTF16BE(text) : text \in Texts}

ShortStrings == UNION {[1 .. n -> Bytes] : n \in 0 .. 3}

\* Two units of three bytes, those of surrogates among them.
LongStrings == {<<237, p[1], p[2], 237, p[3], p[4]>> : p \in [1 .. 4 -> Bytes]}

EncodedStrings == Aliases \cup Names \cup ShortStrings \cup LongStrings

\* A tag, the first length byte, and up to two more.
HeaderBytes == UNION {[1 .. n -> 0 .. ByteSize - 1] : n \in 1 .. 3}
Headers == [length \in 0 .. 2 * IntMax + 1 |-> Header(3, length)]

DecoderInit == decoder = "none" /\ input = <<>> /\ window = <<0, 0>> /\ output = <<>>

DecodeAlias ==
  /\ decoder = "none" /\ decoder' = "alias"
  /\ input' \in EncodedStrings
  /\ output' = DecodeJavaModifiedUTF8(input')
  /\ UNCHANGED window

DecodeName ==
  /\ decoder = "none" /\ decoder' = "name"
  /\ input' \in EncodedStrings
  /\ output' = DecodeUTF16BE(input')
  /\ UNCHANGED window

DecodeHeader ==
  /\ decoder = "none" /\ decoder' = "header"
  /\ \E bytes \in HeaderBytes, before \in {0, 1} :
       /\ input' = [i \in 1 .. before |-> 0] \o <<3>> \o bytes
       /\ \E limit \in {before, Len(input'), IntMax - 1, IntMax} : window' = <<before, limit>>
  /\ output' = ReadDERElementHeader(input', window'[1], window'[2])

DecoderNext == DecodeAlias \/ DecodeName \/ DecodeHeader

-----------------------------------------------------------------------------
(* Properties.                                                             *)

\* Decoding undoes encoding and accepts nothing else: no two encodings of an
\* alias or a friendly name are taken for the same text, no half of a surrogate
\* pair gets through, and no valid name is refused.
DecodingExact ==
  /\ decoder = "alias" =>
       /\ Valid(output) => ModifiedUTF8(output) = input
       /\ input \in Aliases => Valid(output)
  /\ decoder = "name" =>
       /\ Valid(output) => UTF16BE(output) = input
       /\ input \in Names => Valid(output)

\* A header is accepted exactly when it is the DER header of some length whose
\* element ends within the limit, and then the end is the true one: no length,
\* however large, wraps around into an end that looks small.
DERHeaderExact ==
  decoder = "header" =>
    LET bytes == SubSeq(input, window[1] + 1, Len(input))
        Is(length) ==
          LET content == window[1] + Len(Headers[length]) IN
          /\ IsPrefix(Headers[length], bytes)
          /\ content + length <= window[2]
          /\ output = <<content, content + length>>
    IN  IF Valid(output) THEN \E length \in DOMAIN Headers : Is(length)
        ELSE ~\E length \in DOMAIN Headers :
               /\ IsPrefix(Headers[length], bytes)
               /\ window[1] + Len(Headers[length]) + length <= window[2]
=============================================================================
