--------------------------- MODULE StreamBuffer ---------------------------
(***************************************************************************)
(* The bytes a stream owns, in the memory they live in (buf_ and           *)
(* append_bytes in byte_stream.hpp).  append takes a pointer, and the      *)
(* pointer may lead into the stream's own buffer, into the reserved part   *)
(* of its allocation, or to an independent array that happens to begin     *)
(* where the allocation ends; appending may move the buffer elsewhere.     *)
(*                                                                         *)
(* Memory is a flat range of addresses.  There is one stream and one array *)
(* of the caller's; std::vector allocates any free block that is large     *)
(* enough, or throws bad_alloc.                                            *)
(***************************************************************************)
EXTENDS Integers

CONSTANTS Heap,      \* highest address
          Byte,      \* byte values
          Junk,      \* content of memory nobody has written or owns any more
          MaxSize    \* buf_.max_size()

ASSUME BufferAssumption == /\ Heap \in Nat
                           /\ MaxSize \in Nat
                           /\ Junk \notin Byte

VARIABLES mem,            \* content of every address
          base, cap, len, \* buf_: data(), capacity(), size()
          arr, arrLen     \* the caller's array: address and length

vars == <<mem, base, cap, len, arr, arrLen>>

Addr == 1..Heap

\* The addresses of a block of n bytes at b.
Block(b, n) == b..(b + n - 1)

Own == Block(base, cap)
Foreign == Block(arr, arrLen)

\* The addresses at which a vector can allocate c bytes.
FreeFor(c) == {b \in Addr : /\ Block(b, c) \subseteq Addr
                            /\ Block(b, c) \cap (Own \cup Foreign) = {}}

TypeOK == /\ mem \in [Addr -> Byte \cup {Junk}]
          /\ base \in Addr \cup {0}
          /\ cap \in 0..MaxSize
          /\ len \in 0..cap
          /\ arr \in Addr
          /\ arrLen \in Nat

Init == /\ base = 0 /\ cap = 0 /\ len = 0
        /\ arr \in Addr
        /\ arrLen \in 0..(Heap - arr + 1)
        /\ \E content \in [Foreign -> Byte] :
             mem = [a \in Addr |-> IF a \in Foreign THEN content[a] ELSE Junk]

---------------------------------------------------------------------------
(* Defects the properties are tested against.                              *)

\* The end of the allocation taken for an address inside it.
DefectInReserve(p) == cap # 0 /\ p > base + len /\ p <= base + cap

\* The source not followed to the new allocation.
DefectSourceAfter(p, b) == p

\* The capacity compared with the new bytes alone, not with the size.
DefectFitsAlone(n) == n <= cap

\* A relocation that starts at the wrong end of the old block.
DefectRelocated(b) ==
  [a \in Addr |-> IF a \in Block(b, len) THEN mem[base + cap - len + (a - b)]
                  ELSE IF a \in Own THEN Junk
                  ELSE mem[a]]

\* The copied range one byte too long.
DefectCopied(content, b, q, n) ==
  [a \in Addr |-> IF a \in Block(b + len, n + 1) THEN content[q + (a - (b + len))]
                  ELSE content[a]]

---------------------------------------------------------------------------
(* Where a source pointer leads: the tests of append_bytes.                *)

InBuffer(p) == cap # 0 /\ p >= base /\ p < base + cap /\ p <= base + len
InReserve(p) == cap # 0 /\ p > base + len /\ p < base + cap

\* invalid_size: in the reserved part, or a range that leaves the buffer.
Refused(p, n) == \/ InReserve(p)
                 \/ InBuffer(p) /\ n > len - (p - base)

\* The same source once the buffer is at b.
SourceAfter(p, b) == IF InBuffer(p) THEN b + (p - base) ELSE p

---------------------------------------------------------------------------
(* std::vector.                                                            *)

\* No allocation is needed for n more bytes.
Fits(n) == n <= cap - len

\* The buffer moved to b; nobody owns its old place any more.
Relocated(b) ==
  [a \in Addr |-> IF a \in Block(b, len) THEN mem[base + (a - b)]
                  ELSE IF a \in Own THEN Junk
                  ELSE mem[a]]

\* The capacity, place and memory of the buffer once it has room for n more
\* bytes: as they are, or those of a new block it has been moved to.
Capacities(n) == IF Fits(n) THEN {cap} ELSE (len + n)..MaxSize
Bases(n, c) == IF Fits(n) THEN {base} ELSE FreeFor(c)
Memory(n, b) == IF Fits(n) THEN mem ELSE Relocated(b)

\* content with the n bytes from q on copied behind the buffer at b.
Copied(content, b, q, n) ==
  [a \in Addr |-> IF a \in Block(b + len, n) THEN content[q + (a - (b + len))]
                  ELSE content[a]]

\* content with value v up to size k of the buffer at b.
Padded(content, b, k, v) ==
  [a \in Addr |-> IF a \in (b + len)..(b + k - 1) THEN v ELSE content[a]]

---------------------------------------------------------------------------
(* The operations.                                                         *)

\* A range the caller may pass: inside his array, or from within the
\* allocation of the stream (whatever its length, append_bytes checks that).
Passable(p, n) == \/ Block(p, n) \subseteq Foreign
                  \/ p \in Own

\* append(p, n), when it succeeds; a refusal or a bad_alloc changes nothing.
Append(p, n) ==
  /\ Passable(p, n)
  /\ ~Refused(p, n)
  /\ len + n <= MaxSize
  /\ cap' \in Capacities(n)
  /\ base' \in Bases(n, cap')
  /\ mem' = Copied(Memory(n, base'), base', SourceAfter(p, base'), n)
  /\ len' = len + n
  /\ UNCHANGED <<arr, arrLen>>

\* resize(k, v), both ways.
Resize(k, v) ==
  /\ k <= MaxSize
  /\ IF k <= len
     THEN UNCHANGED <<mem, base, cap>>
     ELSE /\ cap' \in Capacities(k - len)
          /\ base' \in Bases(k - len, cap')
          /\ mem' = Padded(Memory(k - len, base'), base', k, v)
  /\ len' = k
  /\ UNCHANGED <<arr, arrLen>>

\* reserve(c); less than the capacity changes nothing.
Reserve(c) ==
  /\ c > cap
  /\ c <= MaxSize
  /\ cap' = c
  /\ base' \in FreeFor(c)
  /\ mem' = Relocated(base')
  /\ UNCHANGED <<len, arr, arrLen>>

Clear == len' = 0 /\ UNCHANGED <<mem, base, cap, arr, arrLen>>

\* take_buffer(): the block leaves the stream, and its new owner frees it.
TakeBuffer ==
  /\ cap # 0
  /\ base' = 0 /\ cap' = 0 /\ len' = 0
  /\ mem' = [a \in Addr |-> IF a \in Own THEN Junk ELSE mem[a]]
  /\ UNCHANGED <<arr, arrLen>>

Next == \/ \E p \in Addr, n \in 1..MaxSize : Append(p, n)
        \/ \E k \in 0..MaxSize, v \in Byte : Resize(k, v)
        \/ \E c \in 1..MaxSize : Reserve(c)
        \/ Clear
        \/ TakeBuffer

Spec == Init /\ [][Next]_vars

---------------------------------------------------------------------------
(* Properties.                                                             *)

\* The buffer lies in memory of its own and holds bytes, never what a freed
\* or unwritten place contains.
BytesOwned == /\ cap > 0 => Own \subseteq Addr
              /\ Foreign \subseteq Addr
              /\ Own \cap Foreign = {}
              /\ \A a \in Block(base, len) \cup Foreign : mem[a] \in Byte

\* append_bytes judges a source by its address alone, and judges it right: an
\* array of the caller's is never refused, even one that begins where the
\* allocation ends, and a range of the allocation is refused exactly when it
\* is not all inside the logical buffer.
SourcesJudged ==
  \A p \in Addr, n \in 1..MaxSize :
    /\ Block(p, n) \subseteq Foreign => ~Refused(p, n)
    /\ p \in Own => (Refused(p, n) <=> p + n > base + len)

\* Whatever an operation keeps of the buffer keeps its bytes, whether or not
\* the buffer moves, and a successful append adds behind them exactly the bytes
\* its source denoted when it was called, even a source in the buffer itself.
ContentExact ==
  [][/\ \A i \in 0..(len - 1) : i < len' => mem'[base' + i] = mem[base + i]
     /\ \A p \in Addr, n \in 1..MaxSize : Append(p, n) =>
          /\ len' = len + n
          /\ \A i \in 0..(n - 1) : mem'[base' + len + i] = mem[p + i]]_vars

\* No operation of the stream writes to the caller's array.
ForeignUntouched == [][\A a \in Foreign : mem'[a] = mem[a]]_vars
===========================================================================
