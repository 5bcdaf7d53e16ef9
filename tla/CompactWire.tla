----------------------------- MODULE CompactWire -----------------------------
(***************************************************************************)
(* The compact integers: unsigned LEB128 of the value, of its ZigZag image *)
(* for a signed type.  read_compact_uint is one step per byte, as its loop *)
(* is; it reads any bytes at all, the encoder's among them.  byte_reader   *)
(* has the same loop again, for a reader that is at any bytes.             *)
(*                                                                         *)
(* A byte has ByteBits bits, one of which says that another follows, and   *)
(* the word WordBytes bytes.  In the code they are 8 and 8, so ten groups  *)
(* of 7 bits of which the last has room for one: the assumption below      *)
(* keeps that last group of one bit.                                       *)
(***************************************************************************)
EXTENDS Numerals

CONSTANTS ByteBits, WordBytes,
          Widths,            \* the byte counts of the integer types decoded to
          Kinds,             \* which of "unsigned", "signed" and "bool" are decoded to
          MaxInput           \* Bound: the bytes there are to read

ASSUME CompactAssumption ==
    /\ ByteBits \in Nat /\ ByteBits > 2 /\ WordBytes \in Nat \ {0}
    /\ (ByteBits * WordBytes - 1) % (ByteBits - 1) = 0
    /\ 1 \in Widths /\ Widths \subseteq 1..WordBytes
    /\ Kinds \subseteq {"unsigned", "signed", "bool"}
    /\ MaxInput \in Nat

VARIABLES
    input,                   \* buf_, or the reader's bytes, from the position on
    width, kind,             \* the type asked for
    i, shift, value, cursor, \* read_compact_uint's locals
    pos,                     \* pos_, or the reader's position_
    result,                  \* "reading", then "ok" or the error
    out                      \* <<the value returned>>, <<>> before or on failure

vars == <<input, width, kind, i, shift, value, cursor, pos, result, out>>

WordBits == ByteBits * WordBytes
Group == Pow2[ByteBits - 1]
Byte == 0..(2 * Group - 1)
MaxBytes == (WordBits - 1) \div (ByteBits - 1) + 1        \* 10 in the code
Bits == ByteBits * width
MaxWord == Pow2[WordBits] - 1                             \* UINT64_MAX

Payload(byte) == byte % Group
More(byte) == byte >= Group

\* compact_encode: raw << 1, all its bits flipped when the sign bit was set.
ZigZag(v) ==
    LET raw == v % Pow2[Bits]
        doubled == (2 * raw) % Pow2[Bits]
    IN  IF 2 * raw >= Pow2[Bits] THEN Pow2[Bits] - 1 - doubled ELSE doubled

\* compact_decode, back to a value of the signed type.
UnZigZag(raw) ==
    LET cut == raw % Pow2[Bits]
        u == IF cut % 2 = 1 THEN Pow2[Bits] - 1 - cut \div 2 ELSE cut \div 2
    IN  IF 2 * u >= Pow2[Bits] THEN u - Pow2[Bits] ELSE u

\* write_compact_uint.
Encode[v \in 0..MaxWord] ==
    IF v \div Group = 0 THEN <<v % Group>>
    ELSE <<(v % Group) + Group>> \o Encode[v \div Group]

Init ==
    /\ input \in UNION {[1..k -> Byte] : k \in 0..MaxInput}
    /\ width \in Widths /\ kind \in Kinds /\ (kind = "bool" => width = 1)
    /\ i = 0 /\ shift = 0 /\ value = 0 /\ cursor = 0 /\ pos = 0
    /\ result = "reading" /\ out = <<>>

\* Defect: The cursor published while the loop still reads.
DefectFails(error) ==
    /\ result' = error /\ pos' = cursor
    /\ UNCHANGED <<input, width, kind, i, shift, value, cursor, out>>

Fails(error) ==
    /\ result' = error
    /\ UNCHANGED <<input, width, kind, i, shift, value, cursor, pos, out>>

\* Defect: one group more than the word has.
DefectGroupsLeft == i <= MaxBytes

GroupsLeft == i < MaxBytes

\* The loop runs out of bytes.
Starved == cursor >= Len(input)

\* The last group has one bit of the word left.
PayloadFits(byte) == shift = WordBits - 1 => Payload(byte) <= 1

Accumulated(byte) == (value + Payload(byte) * Pow2[shift]) % Pow2[WordBits]

\* Defect: A zero payload is overlong even as the only byte.
DefectPadded(byte) == Payload(byte) = 0

\* A last byte that adds nothing: the encoding was longer than it need be.
Padded(byte) == i # 0 /\ Payload(byte) = 0

\* Defect: The width check forgotten.
DefectFitsType(v) == TRUE

FitsType(v) == width < WordBytes => v \div Pow2[Bits] = 0

\* The value as the type has it: the cast of a byte to bool asks if it is zero.
Decoded(v) ==
    CASE kind = "unsigned" -> v % Pow2[Bits]
      [] kind = "signed" -> UnZigZag(v)
      [] kind = "bool" -> IF v % Pow2[Bits] = 0 THEN 0 ELSE 1

Current == input[cursor + 1]

InLoop == result = "reading" /\ GroupsLeft
ReadByte == InLoop /\ ~Starved

Starve == InLoop /\ Starved /\ Fails("insufficient_data")

TooLarge == ReadByte /\ ~PayloadFits(Current) /\ Fails("invalid_size")

Continue ==
    /\ ReadByte /\ PayloadFits(Current) /\ More(Current)
    /\ value' = Accumulated(Current)
    /\ cursor' = cursor + 1 /\ shift' = shift + ByteBits - 1 /\ i' = i + 1
    /\ UNCHANGED <<input, width, kind, pos, result, out>>

Last == ReadByte /\ PayloadFits(Current) /\ ~More(Current)

NotMinimal == Last /\ Padded(Current) /\ Fails("non_canonical_encoding")

TooWide ==
    /\ Last /\ ~Padded(Current) /\ ~FitsType(Accumulated(Current))
    /\ Fails("invalid_size")

Accept ==
    /\ Last /\ ~Padded(Current) /\ FitsType(Accumulated(Current))
    /\ value' = Accumulated(Current)
    /\ cursor' = cursor + 1 /\ pos' = cursor + 1
    /\ result' = "ok" /\ out' = <<Decoded(value')>>
    /\ UNCHANGED <<input, width, kind, i, shift>>

Unterminated == result = "reading" /\ ~GroupsLeft /\ Fails("invalid_size")

Next == Starve \/ TooLarge \/ Continue \/ NotMinimal \/ TooWide \/ Accept \/ Unterminated

Spec == Init /\ [][Next]_vars

----------------------------------------------------------------------------
\* The reference: what bytes denote, and which of them are the shortest for
\* what they denote.
Denotation(s) ==
    Numeral([k \in 0..(Len(s) - 1) |-> Payload(s[k + 1])], ByteBits - 1, Len(s))
Codeword(s) ==
    /\ s # <<>> /\ \A j \in 1..(Len(s) - 1) : More(s[j])
    /\ ~More(s[Len(s)]) /\ (Len(s) > 1 => s[Len(s)] # 0)
Prefix(k) == SubSeq(input, 1, k)

\* Decoding succeeds exactly when the input begins with a shortest encoding
\* of a value of the requested width (WIRE_FORMAT.md: unterminated, too large,
\* too wide and overlong encodings are rejected), the position then stands
\* behind it and what is returned is that value, and after a failure the
\* position has not moved.
AcceptsExactlyShortest ==
    result # "reading" =>
        LET Good == {k \in 1..Len(input) :
                        Codeword(Prefix(k)) /\ Denotation(Prefix(k)) < Pow2[Bits]}
        IN  /\ result = "ok" <=> Good # {}
            /\ pos = IF result = "ok" THEN CHOOSE k \in Good : TRUE ELSE 0
            /\ out = IF result = "ok" THEN <<Decoded(Denotation(Prefix(pos)))>> ELSE <<>>

\* Every accepted value is written back as the bytes it was read from: the
\* encoder emits the canonical form and the decoder reads no other.  Of the
\* stream's compact bool this is false (CompactBool.cfg): any byte from 2 on
\* decodes to true, which is written as 1.
CanonicalBothWays ==
    result = "ok" => Encode[IF kind = "signed" THEN ZigZag(out[1]) ELSE out[1]] = Prefix(pos)

\* insufficient_data means what it says for the full word: more bytes would
\* have made a value of the prefix, so a caller may wait for them.
InsufficientIsRecoverable ==
    result = "insufficient_data" /\ width = WordBytes =>
        \E b \in 1..(Group - 1) :
            LET s == Append(input, b) IN Codeword(s) /\ Denotation(s) < Pow2[WordBits]

=============================================================================
