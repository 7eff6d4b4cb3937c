------------------------------- MODULE Codec -------------------------------
(***************************************************************************)
(* The posting lists of a segment on disk: differences of document numbers *)
(* in bytes of a few bits each (compression.rs).  The code has numbers of  *)
(* 32 bits and seven of them in a byte, which gives 5 bytes; here both     *)
(* widths are parameters.                                                  *)
(***************************************************************************)
EXTENDS Naturals, Sequences, FiniteSets, FiniteSetsExt

CONSTANTS
  Width, \* bits of a document number: 32
  Group  \* bits of a number in a byte, below the bit that says more follow: 7

ASSUME CodecConstants == {Width, Group} \subseteq Nat \ {0}

\* 2 ^ n, in a form that proofs can expand.
Power[n \in Nat] == IF n = 0 THEN 1 ELSE 2 * Power[n - 1]

Base == Power[Group]
Modulus == Power[Width]
MaxBytes == (Width + Group - 1) \div Group

NoValue == [value |-> 0, consumed |-> 0]

\* Mutated EncodeNext: a number of exactly the base fits one byte.
EncodeNextOff(t) ==
  IF t.left <= Base THEN t
  ELSE [bytes |-> Append(t.bytes, Base + (t.left % Base)), left |-> t.left \div Base]

\* A turn of the loop that does not end it: the lowest bits are written, with
\* the high bit.
EncodeNext(t) ==
  IF t.left < Base THEN t
  ELSE [bytes |-> Append(t.bytes, Base + (t.left % Base)), left |-> t.left \div Base]

\* The lowest bits come first; all bytes but the last have the high bit.  A
\* number has bits for MaxBytes turns at most.
EncodeVarint(value) ==
  LET turns[k \in 0 .. MaxBytes] ==
        IF k = 0 THEN [bytes |-> <<>>, left |-> value] ELSE EncodeNext(turns[k - 1])
  IN  Append(turns[MaxBytes].bytes, turns[MaxBytes].left)

\* The number that ends at the first byte without the high bit, and how many
\* bytes it takes.  Bits beyond the width are lost; too many bytes are none.
DecodeVarint(bytes) ==
  LET ends == {i \in DOMAIN bytes : bytes[i] < Base}
      turns[k \in 0 .. Len(bytes)] ==
        IF k = 0 THEN [value |-> 0, shifted |-> 1]
        ELSE LET t == turns[k - 1]
             IN  [value   |-> t.value + (bytes[k] % Base) * t.shifted,
                  shifted |-> t.shifted * Base]
  IN  IF ends = {} \/ Min(ends) > MaxBytes THEN NoValue
      ELSE [value |-> turns[Min(ends)].value % Modulus, consumed |-> Min(ends)]

\* Differences wrap around where a list is not sorted.
DeltaEncode(numbers) ==
  LET Prev(i) == IF i = 1 THEN 0 ELSE numbers[i - 1]
      Delta(i) == (Modulus + numbers[i] - Prev(i)) % Modulus
      turns[k \in 0 .. Len(numbers)] ==
        IF k = 0 THEN <<>> ELSE turns[k - 1] \o EncodeVarint(Delta(k))
  IN  turns[Len(numbers)]

\* A turn of the loop of delta_decode; the last one finds no number.
DecodeNext(bytes, t) ==
  LET d == DecodeVarint(SubSeq(bytes, t.pos + 1, Len(bytes)))
      number == (t.prev + d.value) % Modulus
  IN  IF d.consumed = 0 THEN t
      ELSE [pos |-> t.pos + d.consumed, prev |-> number,
            numbers |-> Append(t.numbers, number)]

DeltaDecode(bytes) ==
  LET turns[k \in 0 .. Len(bytes)] ==
        IF k = 0 THEN [pos |-> 0, prev |-> 0, numbers |-> <<>>]
        ELSE DecodeNext(bytes, turns[k - 1])
  IN  turns[Len(bytes)].numbers
=============================================================================
