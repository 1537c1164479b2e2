\* Files of 12, 46, 57 and 72 bytes before the MAC; claims of none, few and more
\* than fit; ints that do not hold the largest length.  Four bags, two nested levels.
SPECIFICATION KeystoreSpec
CONSTANTS
  Sizes = {12, 46, 57, 72}
  Lengths = {0, 1, 2, 6, 125, 255}
  ShortLengths = {0, 1, 3}
  IntMax = 127
  ByteSize = 16
  LengthBytes = 2
  Runes = {0, 1, 127, 128, 2047, 2048, 55295, 57344, 65535, 65536, 1114111}
  Bytes = {0, 1, 127, 128, 159, 160, 175, 176, 191, 192, 193, 194, 223, 224, 237, 240}
  MaxContentInfos = 2
  MaxBags = 4
  MaxSafeContentsDepth = 2
INVARIANTS
  DecodingExact
  DERHeaderExact
  WorkPaidFor
  BagLimitKept
  ChainIndicesExact
  SilentMeansComplete
  MarkDeserved
