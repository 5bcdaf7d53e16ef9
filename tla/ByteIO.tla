-------------------------------- MODULE ByteIO --------------------------------
(***************************************************************************)
(* byte_writer and byte_reader over the application's memory.  The writer  *)
(* has been given a range of it to fill; the reader looks at another, the  *)
(* writer's view(), a subview of the range it had, or any bytes of the     *)
(* application's.  Neither owns nor allocates anything, so the two share   *)
(* memory: the source of a write may lie in the writer's own range, and    *)
(* the destination of a read in the reader's.                              *)
(*                                                                         *)
(* The bytes told apart are 0, 1 and Cont, any byte with its top bit set:  *)
(* no bool, and in a compact integer the sign that another byte follows.   *)
(* What numbers the bytes stand for is the matter of FixedWire and         *)
(* CompactWire.                                                            *)
(***************************************************************************)
EXTENDS Integers, Sequences

CONSTANTS
    Heap,                    \* the number of addresses
    Cont, Junk,              \* a continuation byte; what unwritten memory holds
    MaxWidth,                \* bytes of the widest fixed-width number
    MaxGroups,               \* bytes of the longest compact integer
    Ranges                   \* the <<data, capacity>> a writer may be given

ASSUME ByteIOAssumption ==
    /\ Heap \in Nat \ {0} /\ MaxWidth \in Nat \ {0} /\ MaxGroups \in Nat \ {0}
    /\ Ranges \subseteq {r \in (0..Heap) \X (0..Heap) : r[1] # 0 => r[1] + r[2] <= Heap + 1}
    /\ Cont \notin {0, 1} /\ Junk \notin {0, 1, Cont}

VARIABLES
    mem,                     \* the memory
    wdata, wcap, wpos, wsize,\* byte_writer: data_ (0 for nullptr), capacity_, position_, size_
    rdata, rsize, rpos,      \* byte_reader: data_ (0 for nullptr), size_, position_
    status                   \* what the last call returned, "ok" where it returns none

writer == <<wdata, wcap, wpos, wsize>>
reader == <<rdata, rsize, rpos>>
vars == <<mem, wdata, wcap, wpos, wsize, rdata, rsize, rpos, status>>

Addr == 1..Heap
Byte == {0, 1, Cont}
Block(p, n) == p..(p + n - 1)

\* Memory the program has put something in.
Initialised(p, n) == Block(p, n) \subseteq Addr /\ \A a \in Block(p, n) : mem[a] # Junk

Init ==
    /\ \E r \in Ranges : wdata = r[1] /\ wcap = r[2]
    /\ wpos = 0 /\ wsize = 0
    /\ mem \in [Addr -> Byte \cup {Junk}]
    /\ \A a \in Addr : mem[a] = Junk <=> (wdata # 0 /\ a \in Block(wdata, wcap))
    /\ rdata = 0 /\ rsize \in 0..1 /\ rpos = 0
    /\ status = "ok"

\* Defect: the file cut where the last write ended.
DefectSizeAfter(n) == wpos + n

\* Defect: a cursor anywhere in the memory given.
DefectSeekLimit == wcap

\* Defect: the position of a refused bool left behind it.
DefectPosAfterBool(byte) == rpos + 1

\* Defect: memcpy, which copies forward: where the target begins inside the
\* source, the bytes before it come again and again.
DefectMoved(d, p, n) ==
    [a \in Addr |-> IF a \in Block(d, n)
                    THEN mem[p + (IF d > p THEN (a - d) % (d - p) ELSE a - d)]
                    ELSE mem[a]]

\* Defect: a subview measured from the start of the reader's bytes.
DefectSubview(n) == rdata + rsize - n + 1

----------------------------------------------------------------------------
\* The writer.

WriteRemaining == wcap - wpos
SizeAfter(n) == IF wpos + n > wsize THEN wpos + n ELSE wsize
SeekLimit == wsize

\* memmove: the bytes as they were when it was called.
Moved(d, p, n) ==
    [a \in Addr |-> IF a \in Block(d, n) THEN mem[p + (a - d)] ELSE mem[a]]

\* The bytes s stored from d on.
Stored(d, s) == [a \in Addr |-> IF a \in Block(d, Len(s)) THEN s[a - d + 1] ELSE mem[a]]

WriterFails(error) == status' = error /\ UNCHANGED <<mem, writer, reader>>

Advance(n) ==
    /\ wpos' = wpos + n /\ wsize' = SizeAfter(n)
    /\ status' = "ok" /\ UNCHANGED <<wdata, wcap, reader>>

\* write(value, n) of any scalar, a byte count the type refuses included.
WriteRefused == WriterFails("invalid_size")

WriteScalar(s) ==
    \/ wdata = 0 /\ WriterFails("null_pointer")
    \/ wdata # 0 /\ Len(s) > WriteRemaining /\ WriterFails("insufficient_space")
    \/ wdata # 0 /\ Len(s) <= WriteRemaining /\ mem' = Stored(wdata + wpos, s) /\ Advance(Len(s))

\* The encodings of write_compact: no shorter one denotes the same number.
Codeword(s) ==
    /\ \A k \in 1..(Len(s) - 1) : s[k] = Cont
    /\ s[Len(s)] # Cont /\ (Len(s) > 1 => s[Len(s)] = 1)

Scalars == UNION {[1..n -> Byte] : n \in 1..MaxWidth}
Compacts == {s \in UNION {[1..n -> Byte] : n \in 1..MaxGroups} : Codeword(s)}

\* write_bytes(p, n) from initialised memory; write_compact stages its bytes
\* in an array of its own and ends in write_bytes, which then cannot overlap.
WriteBytes(p, n) ==
    \/ n = 0 /\ WriterFails("ok")
    \/ n # 0 /\ (p = 0 \/ wdata = 0) /\ WriterFails("null_pointer")
    \/ n # 0 /\ p # 0 /\ wdata # 0 /\ n > WriteRemaining /\ WriterFails("insufficient_space")
    \/ /\ n # 0 /\ p # 0 /\ wdata # 0 /\ n <= WriteRemaining
       /\ mem' = Moved(wdata + wpos, p, n) /\ Advance(n)

Source(p, n) == p = 0 \/ (p \in Addr /\ Initialised(p, n))

WriteSeek(p) ==
    /\ p <= SeekLimit /\ wpos' = p /\ status' = "ok"
    /\ UNCHANGED <<mem, wdata, wcap, wsize, reader>>

Clear ==
    /\ wpos' = 0 /\ wsize' = 0 /\ status' = "ok"
    /\ UNCHANGED <<mem, wdata, wcap, reader>>

----------------------------------------------------------------------------
\* The reader.

ReadRemaining == rsize - rpos

ReaderFails(error) == status' = error /\ UNCHANGED <<mem, writer, reader>>

Consume(n) ==
    /\ rpos' = rpos + n /\ status' = "ok" /\ UNCHANGED <<writer, rdata, rsize>>

\* read(value, n) of every scalar but bool.
ReadRefused == ReaderFails("invalid_size")

ReadScalar(n) ==
    \/ rdata = 0 /\ ReaderFails("null_pointer")
    \/ rdata # 0 /\ n > ReadRemaining /\ ReaderFails("insufficient_data")
    \/ rdata # 0 /\ n <= ReadRemaining /\ UNCHANGED mem /\ Consume(n)

\* read(bool): read_uint has moved the position when the value is looked at.
PosAfterBool(byte) == IF byte = Cont THEN rpos ELSE rpos + 1

ReadBool ==
    \/ rdata = 0 /\ ReaderFails("null_pointer")
    \/ rdata # 0 /\ ReadRemaining = 0 /\ ReaderFails("insufficient_data")
    \/ /\ rdata # 0 /\ ReadRemaining # 0
       /\ rpos' = PosAfterBool(mem[rdata + rpos])
       /\ status' = IF mem[rdata + rpos] = Cont THEN "invalid_value" ELSE "ok"
       /\ UNCHANGED <<mem, writer, rdata, rsize>>

\* read_compact for a type of g groups: k is the place of the first byte that
\* ends an integer, if the loop gets to one.
Ends(k) == mem[rdata + rpos + k - 1] # Cont
EndsFirst(k) == Ends(k) /\ \A j \in 1..(k - 1) : ~Ends(j)
Seen == IF MaxGroups < ReadRemaining THEN MaxGroups ELSE ReadRemaining

ReadCompact(g) ==
    \/ rdata = 0 /\ ReaderFails("null_pointer")
    \/ /\ rdata # 0 /\ \A k \in 1..Seen : ~Ends(k)
       /\ ReaderFails(IF Seen < MaxGroups THEN "insufficient_data" ELSE "invalid_size")
    \/ /\ rdata # 0
       /\ \E k \in 1..Seen :
            /\ EndsFirst(k)
            /\ \/ /\ k > 1 /\ mem[rdata + rpos + k - 1] = 0
                  /\ ReaderFails("non_canonical_encoding")
               \/ /\ ~(k > 1 /\ mem[rdata + rpos + k - 1] = 0) /\ k > g
                  /\ ReaderFails("invalid_size")
               \/ /\ ~(k > 1 /\ mem[rdata + rpos + k - 1] = 0) /\ k <= g
                  /\ UNCHANGED mem /\ Consume(k)

\* read_bytes(d, n) into the application's memory, which the writer's is not.
Destination(d, n) ==
    \/ d = 0
    \/ /\ d \in Addr /\ Block(d, n) \subseteq Addr
       /\ Block(d, n) \cap Block(wdata, wcap) = {}

ReadBytes(d, n) ==
    \/ n = 0 /\ ReaderFails("ok")
    \/ n # 0 /\ (d = 0 \/ rdata = 0) /\ ReaderFails("null_pointer")
    \/ n # 0 /\ d # 0 /\ rdata # 0 /\ n > ReadRemaining /\ ReaderFails("insufficient_data")
    \/ /\ n # 0 /\ d # 0 /\ rdata # 0 /\ n <= ReadRemaining
       /\ mem' = Moved(d, rdata + rpos, n) /\ Consume(n)

Subview(n) == IF rdata = 0 THEN 0 ELSE rdata + rpos

\* read_view(n), its result put aside, or opened as the next reader.
ReadView(n, open) ==
    \/ n > ReadRemaining /\ ReaderFails("insufficient_data")
    \/ n <= ReadRemaining /\ n # 0 /\ rdata = 0 /\ ReaderFails("null_pointer")
    \/ /\ n <= ReadRemaining /\ (n = 0 \/ rdata # 0)
       /\ IF open THEN rdata' = Subview(n) /\ rsize' = n /\ rpos' = 0
                  ELSE rpos' = rpos + n /\ UNCHANGED <<rdata, rsize>>
       /\ status' = "ok" /\ UNCHANGED <<mem, writer>>

\* seek, and reset for p = 0.
ReadSeek(p) ==
    /\ p <= rsize /\ rpos' = p /\ status' = "ok"
    /\ UNCHANGED <<mem, writer, rdata, rsize>>

\* byte_reader(writer.view()), and byte_reader(p, n) on the application's bytes.
OpenView ==
    /\ rdata' = wdata /\ rsize' = wsize /\ rpos' = 0 /\ status' = "ok"
    /\ UNCHANGED <<mem, writer>>
OpenBytes(p, n) ==
    /\ Initialised(p, n) /\ rdata' = p /\ rsize' = n /\ rpos' = 0
    /\ status' = "ok" /\ UNCHANGED <<mem, writer>>

Next ==
    \/ WriteRefused \/ ReadRefused
    \/ \E s \in Scalars \cup Compacts : WriteScalar(s)
    \/ \E p \in Addr \cup {0}, n \in 0..Heap : Source(p, n) /\ WriteBytes(p, n)
    \/ \E p \in 0..Heap : WriteSeek(p)
    \/ Clear
    \/ \E n \in 1..MaxWidth : ReadScalar(n)
    \/ ReadBool
    \/ \E g \in 1..MaxGroups : ReadCompact(g)
    \/ \E d \in Addr \cup {0}, n \in 0..Heap : Destination(d, n) /\ ReadBytes(d, n)
    \/ \E n \in 0..Heap, open \in BOOLEAN : ReadView(n, open)
    \/ \E p \in 0..Heap : ReadSeek(p)
    \/ OpenView
    \/ \E p \in Addr, n \in 0..Heap : OpenBytes(p, n)

Spec == Init /\ [][Next]_vars

----------------------------------------------------------------------------
\* Position, size and capacity are in that order, so that remaining() never
\* wraps, and the ranges of both are ranges of the memory.
TypeOK ==
    /\ mem \in [Addr -> Byte \cup {Junk}]
    /\ wdata \in Addr \cup {0} /\ wcap \in 0..Heap
    /\ wsize \in 0..wcap /\ wpos \in 0..wsize
    /\ IF wdata = 0 THEN wsize = 0 ELSE Block(wdata, wcap) \subseteq Addr
    /\ rdata \in 0..(Heap + 1) /\ rsize \in 0..Heap /\ rpos \in 0..rsize
    /\ rdata # 0 => Block(rdata, rsize) \subseteq Addr

\* What the writer shows in view(), and what a reader opened on it, on a
\* subview or on the application's bytes can return, was written by someone:
\* no seek, patch, clear or overlapping copy lets unwritten memory through.
NothingUnwritten ==
    /\ wdata # 0 => \A a \in Block(wdata, wsize) : mem[a] # Junk
    /\ rdata # 0 => \A a \in Block(rdata, rsize) : mem[a] # Junk

\* The n bytes from p on are now also those from d on, and nothing else changed.
Copied(d, p, n) ==
    /\ Block(p, n) \subseteq Addr
    /\ \A a \in Addr : mem'[a] = IF a - d \in 0..(n - 1) THEN mem[p + a - d] ELSE mem[a]

\* A call does its work whole or not at all.  A failing one of either changes
\* neither of them nor the memory, however far it had come.  Bytes are copied
\* as they were when the call was made, whatever addresses source and target
\* share: read_bytes delivers what the reader was at, even over the reader's
\* own bytes, and a write longer than any number, from the writer's own range
\* too, leaves in the file a block that was in memory.
AllOrNothing ==
    [][/\ status' # "ok" => UNCHANGED <<mem, writer, reader>>
       /\ mem' # mem /\ UNCHANGED writer
          => \E d \in Addr : Copied(d, rdata + rpos, rpos' - rpos)
       /\ mem' # mem /\ wpos' > wpos + MaxWidth /\ wpos' > wpos + MaxGroups
          => \E p \in Addr : Copied(wdata + wpos, p, wpos' - wpos)]_vars

\* The writer is a gapless file of at most wcap bytes with one cursor.
File == INSTANCE ByteFile WITH
    limit <- wcap,
    content <- [k \in 1..wsize |-> mem[wdata + k - 1]],
    cursor <- wpos
FileSpec == File!Spec
=============================================================================
