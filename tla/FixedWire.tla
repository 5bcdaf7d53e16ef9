------------------------------ MODULE FixedWire ------------------------------
(***************************************************************************)
(* A fixed-width integer on its way from one machine to another: the       *)
(* writer's register, the bytes, the reader's register.  A width the       *)
(* machine has is stored by one memcpy of the register, byte-swapped when  *)
(* the wire order is not the host's; every other width is stored and       *)
(* loaded byte by byte with shifts.  Which of the two happens, and what a  *)
(* register looks like in memory, must not show on the wire.  Nor must the *)
(* half of the library that is used: stream has one implementation of all  *)
(* this, byte_writer and byte_reader have another.                         *)
(*                                                                         *)
(* A byte has ByteBits bits and the widest integer WordBytes bytes; 8 and  *)
(* 8 in the code.  uint64_t arithmetic is arithmetic modulo 2^WordBits.    *)
(***************************************************************************)
EXTENDS Numerals

CONSTANTS ByteBits, WordBytes,
          Registers          \* the widths in bytes that are integer types

FixedAssumption ==
    /\ ByteBits \in Nat \ {0} /\ WordBytes \in Nat \ {0}
    /\ Registers \subseteq 1..WordBytes /\ {1, WordBytes} \subseteq Registers

VARIABLES
    width, signed, n,        \* the C++ type, and the byte count asked of set and get
    value,                   \* the value given to set
    order,                   \* the stream's endian_, the same at both ends
    writer, reader,          \* host_endian() of the two machines
    sentBy, readBy,          \* what set and get are called on
    wire,                    \* the bytes written, <<>> before
    got                      \* <<the value get returned>>, <<>> before

vars == <<width, signed, n, value, order, writer, reader, sentBy, readBy, wire, got>>

Endian == {"little", "big"}
WordBits == ByteBits * WordBytes
Range2(k) == Pow2[ByteBits * k]                   \* the values of k bytes
Signed(raw, k) == IF 2 * raw >= Range2(k) THEN raw - Range2(k) ELSE raw
Values(w, s) == IF s THEN (-(Range2(w) \div 2))..(Range2(w) \div 2 - 1) ELSE 0..(Range2(w) - 1)

ByteAt(raw, i) == (raw \div Pow2[ByteBits * i]) % Pow2[ByteBits]

\* memcpy between a register of k bytes and memory: the byte of the register
\* that is at an address, and the address of one of its bytes.
Place(host, k, j) == IF host = "little" THEN j - 1 ELSE k - j
Address(host, k, i) == IF host = "little" THEN i + 1 ELSE k - i
Image(host, raw, k) == [j \in 1..k |-> ByteAt(raw, Place(host, k, j))]
Register(host, s) ==
    Numeral([i \in 0..(Len(s) - 1) |-> s[Address(host, Len(s), i)]], ByteBits, Len(s))

ByteSwap(raw, k) == Numeral([i \in 0..(k - 1) |-> ByteAt(raw, k - 1 - i)], ByteBits, k)

\* Defect: Only looking at the byte count of the type, never at the host.
DefectSwapped(host, raw, k) == IF order = "big" /\ k > 1 THEN ByteSwap(raw, k) ELSE raw

\* The endian_ != host_endian() test of both directions; one byte has no order.
Swapped(host, raw, k) == IF order # host /\ k > 1 THEN ByteSwap(raw, k) ELSE raw

\* Defect: The byte-by-byte path that counts from the wrong end.
DefectShiftOf(k, i) == ByteBits * (IF order = "big" THEN i ELSE k - 1 - i)

ShiftOf(k, i) == ByteBits * (IF order = "little" THEN i ELSE k - 1 - i)

StoreUint(host, raw, k) ==
    IF k \in Registers
    THEN Image(host, Swapped(host, raw % Range2(k), k), k)
    ELSE [j \in 1..k |-> (raw \div Pow2[ShiftOf(k, j - 1)]) % Pow2[ByteBits]]

\* The loops over the bytes: value |= in[i] << i * 8 and value = value << 8 | in[i].
Shifted(s) ==
    LET word[j \in 0..Len(s)] ==
            IF j = 0 THEN 0
            ELSE IF order = "little" THEN word[j - 1] + s[j] * Pow2[ByteBits * (j - 1)]
            ELSE (word[j - 1] * Pow2[ByteBits] + s[j]) % Range2(WordBytes)
    IN  word[Len(s)]

LoadUint(host, s) ==
    IF Len(s) \in Registers THEN Swapped(host, Register(host, s), Len(s)) ELSE Shifted(s)

\* byte_io.hpp has the same two functions again.
store_uint(host, raw, k) == StoreUint(host, raw, k)
load_uint(host, s) == LoadUint(host, s)

\* Defect: The sign bit looked for in the type instead of the bytes read.
DefectSignExtend(raw, k) ==
    IF k < WordBytes /\ 2 * raw >= Range2(width)
    THEN raw + Range2(WordBytes) - Range2(k) ELSE raw

\* sign_extend: the bits above the shortened value, in the 64-bit word.
SignExtend(raw, k) ==
    IF k < WordBytes /\ 2 * raw >= Range2(k) THEN raw + Range2(WordBytes) - Range2(k) ELSE raw

\* byte_reader::read's own extension: the top bit of the last byte tested.
ExtendTop(raw, k) ==
    IF k < WordBytes /\ ByteAt(raw, k - 1) >= Pow2[ByteBits - 1]
    THEN raw + Range2(WordBytes) - Range2(k) ELSE raw

Init ==
    /\ sentBy \in {"stream", "byte_io"} /\ readBy \in {"stream", "byte_io"}
    /\ signed \in BOOLEAN /\ order \in Endian /\ writer \in Endian /\ reader \in Endian
    /\ width \in Registers /\ n \in 1..width /\ value \in Values(width, signed)
    /\ wire = <<>> /\ got = <<>>

\* set or write(value, n): two's complement of the type's own width, then n
\* bytes of it.
Set ==
    /\ wire = <<>>
    /\ LET raw == value % Range2(width)
       IN  wire' = IF sentBy = "stream" THEN StoreUint(writer, raw, n)
                   ELSE store_uint(writer, raw, n)
    /\ UNCHANGED <<width, signed, n, value, order, writer, reader, sentBy, readBy, got>>

\* get<T>(n) or read(output, n): load, extend the sign in the word, cut to
\* the type.
Get ==
    /\ wire # <<>> /\ got = <<>>
    /\ LET raw == IF readBy = "stream" THEN LoadUint(reader, wire) ELSE load_uint(reader, wire)
           word == IF ~signed THEN raw
                   ELSE IF readBy = "stream" THEN SignExtend(raw, n) ELSE ExtendTop(raw, n)
           cut == word % Range2(width)
       IN  got' = <<IF signed THEN Signed(cut, width) ELSE cut>>
    /\ UNCHANGED <<width, signed, n, value, order, writer, reader, sentBy, readBy, wire>>

Next == Set \/ Get

Spec == Init /\ [][Next]_vars

----------------------------------------------------------------------------
\* Digit i of the two's complement of v, the reference for what follows.
Digit(v, i) == (v \div Pow2[ByteBits * i]) % Pow2[ByteBits]

\* WIRE_FORMAT.md: an integer is the low 8n bits of its two's complement,
\* least significant byte first in a little-endian stream and last in a
\* big-endian one, whatever the machine, whichever of the two ways the width
\* is stored and whichever half of the library writes it.
WireIsCanonical ==
    wire # <<>> =>
        /\ Len(wire) = n
        /\ \A j \in 1..n :
               wire[j] = Digit(value, IF order = "little" THEN j - 1 ELSE n - j)

\* What either half sets is what either returns on any machine, cut to n bytes:
\* modulo 2^(8n) for an unsigned type, with bit 8n-1 extended for a signed
\* one, so that every value that fits n bytes comes back as itself.
ReadsBack ==
    got # <<>> =>
        got[1] = IF signed THEN Signed(value % Range2(n), n) ELSE value % Range2(n)

=============================================================================
