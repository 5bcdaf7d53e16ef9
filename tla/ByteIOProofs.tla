---------------------------- MODULE ByteIOProofs ----------------------------
(***************************************************************************)
(* Proofs about ByteIO: the ranges of writer and reader stay ranges of the *)
(* memory, neither lets unwritten memory through, and the writer is the    *)
(* file of ByteFile, for any memory, any ranges and any widths.            *)
(***************************************************************************)
EXTENDS ByteIO, SequenceTheorems, TLAPS

\* The inductive invariant: the two invariants together.
IInv == TypeOK /\ NothingUnwritten

\* What the writer's file depends on.
SameFile == /\ UNCHANGED writer
            /\ \A k \in 1..wsize : mem'[wdata + k - 1] = mem[wdata + k - 1]

\* A block of more bytes at the same place contains one of fewer.
LEMMA Longer ==
  ASSUME NEW y \in Nat, NEW z \in Nat, NEW w \in Nat, z <= w, NEW a \in y..(y + z - 1)
  PROVE  a \in y..(y + w - 1)
<1>1. a \in Int /\ y <= a /\ a <= y + z - 1
  OBVIOUS
<1> QED BY <1>1

\* A step that changes only the reader, to a range of written memory.
LEMMA ReaderMoves ==
  ASSUME IInv, UNCHANGED <<mem, writer>>,
         rdata' \in 0..(Heap + 1), rsize' \in 0..Heap, rpos' \in 0..rsize',
         rdata' # 0 => /\ Block(rdata', rsize') \subseteq Addr
                       /\ \A a \in Block(rdata', rsize') : mem[a] # Junk
  PROVE  IInv' /\ SameFile
BY ByteIOAssumption DEF IInv, TypeOK, NothingUnwritten, SameFile, writer

\* A step that changes nothing but the status.
LEMMA Failing ==
  ASSUME IInv, UNCHANGED <<mem, writer, reader>>
  PROVE  IInv' /\ SameFile
BY DEF IInv, TypeOK, NothingUnwritten, SameFile, writer, reader

\* A reader that goes on in the bytes it had.
LEMMA ReaderConsumes ==
  ASSUME IInv, UNCHANGED <<mem, writer, rdata, rsize>>, rpos' \in 0..rsize
  PROVE  IInv' /\ SameFile
BY DEF IInv, TypeOK, NothingUnwritten, SameFile, writer

\* A successful write of n bytes, whatever they are.
Wrote(n) ==
  /\ wdata # 0 /\ n <= WriteRemaining
  /\ mem' \in [Addr -> Byte \cup {Junk}]
  /\ \A a \in Block(wdata + wpos, n) : mem'[a] \in Byte
  /\ \A a \in Addr : a \notin Block(wdata + wpos, n) => mem'[a] = mem[a]
  /\ Advance(n)

\* It stays in the range given, leaves no gap, and spoils nothing.
LEMMA WroteKeeps ==
  ASSUME IInv, NEW n \in Nat, n # 0, Wrote(n)
  PROVE  IInv'
<1>1. /\ wdata' = wdata /\ wcap' = wcap /\ wpos' = wpos + n
      /\ wsize' = (IF wpos + n > wsize THEN wpos + n ELSE wsize)
      /\ rdata' = rdata /\ rsize' = rsize /\ rpos' = rpos
  BY DEF Wrote, Advance, SizeAfter, reader
<1>2. n <= wcap - wpos /\ wpos \in Nat /\ wsize \in Nat /\ wcap \in Nat /\ wdata \in Nat
  BY ByteIOAssumption DEF Wrote, WriteRemaining, IInv, TypeOK, Addr
<1>3. wsize' \in 0..wcap /\ wpos' \in 0..wsize' /\ wsize \in 0..wcap /\ wpos \in 0..wsize
  BY <1>1, <1>2 DEF IInv, TypeOK
<1>4. TypeOK'
  BY <1>1, <1>3 DEF IInv, TypeOK, Wrote
<1>5. ASSUME NEW a \in Addr, mem[a] # Junk
      PROVE  mem'[a] # Junk
  BY <1>5, ByteIOAssumption DEF Wrote, Byte
<1>6. Block(wdata, wcap) \subseteq Addr
  BY DEF IInv, TypeOK, Wrote
<1>7. ASSUME NEW a \in Block(wdata, wsize')
      PROVE  mem'[a] # Junk
  <2>0. PICK z \in Nat : z = wsize' /\ z <= wcap
    BY <1>2, <1>3
  <2>1. a \in Addr
    <3>1. a \in wdata..(wdata + z - 1)
      BY <1>7, <2>0 DEF Block
    <3>2. a \in wdata..(wdata + wcap - 1)
      <4>1. PICK y \in Nat, w \in Nat : y = wdata /\ w = wcap
        BY <1>2
      <4>2. a \in y..(y + z - 1) /\ z <= w
        BY <3>1, <2>0, <4>1
      <4>3. a \in y..(y + w - 1)
        BY <4>2, Longer
      <4> QED BY <4>1, <4>3
    <3> QED BY <3>2, <1>6 DEF Block
  <2>2. CASE a \in Block(wdata + wpos, n)
    BY <2>2, ByteIOAssumption DEF Wrote, Byte
  <2>3. CASE a \notin Block(wdata + wpos, n)
    <3>1. a \in Block(wdata, wsize)
      BY <1>1, <1>2, <1>3, <1>7, <2>3 DEF Block
    <3> QED BY <3>1, <2>1, <1>5 DEF IInv, NothingUnwritten, Wrote
  <2> QED BY <2>2, <2>3
<1>8. rdata # 0 => \A a \in Block(rdata, rsize) : mem'[a] # Junk
  BY <1>5 DEF IInv, NothingUnwritten, TypeOK
<1> QED BY <1>1, <1>4, <1>7, <1>8 DEF IInv, NothingUnwritten

LEMMA ScalarWrote ==
  ASSUME IInv, NEW s \in Scalars \cup Compacts, WriteScalar(s), status' = "ok"
  PROVE  Len(s) \in Nat /\ Len(s) # 0 /\ Wrote(Len(s))
<1>1. PICK n \in Nat : n # 0 /\ s \in [1..n -> Byte]
  BY ByteIOAssumption DEF Scalars, Compacts
<1>2. Len(s) = n
  BY <1>1
<1>3. /\ wdata # 0 /\ Len(s) <= WriteRemaining
      /\ mem' = Stored(wdata + wpos, s) /\ Advance(Len(s))
  BY DEF WriteScalar, WriterFails
<1>4. wdata \in Nat /\ wpos \in Nat /\ mem \in [Addr -> Byte \cup {Junk}]
  BY ByteIOAssumption DEF IInv, TypeOK, Addr
<1>5. ASSUME NEW a \in Block(wdata + wpos, n)
      PROVE  s[a - (wdata + wpos) + 1] \in Byte
  BY <1>1, <1>4 DEF Block
<1>6. Block(wdata + wpos, n) \subseteq Addr
  BY <1>1, <1>2, <1>3, ByteIOAssumption DEF IInv, TypeOK, WriteRemaining, Block, Addr
<1> QED
  BY <1>1, <1>2, <1>3, <1>4, <1>5, <1>6 DEF Wrote, Stored

LEMMA BytesWrote ==
  ASSUME IInv, NEW p \in Addr \cup {0}, NEW n \in 0..Heap, n # 0, Source(p, n),
         WriteBytes(p, n), status' = "ok"
  PROVE  Wrote(n)
<1>1. /\ p # 0 /\ wdata # 0 /\ n <= WriteRemaining
      /\ mem' = Moved(wdata + wpos, p, n) /\ Advance(n)
  BY DEF WriteBytes, WriterFails
<1>2. /\ wdata \in Nat /\ wpos \in Nat /\ mem \in [Addr -> Byte \cup {Junk}]
      /\ p \in Nat /\ n \in Nat
  BY ByteIOAssumption DEF IInv, TypeOK, Addr
<1>3. ASSUME NEW a \in Block(wdata + wpos, n)
      PROVE  mem[p + (a - (wdata + wpos))] \in Byte
  <2>1. p + (a - (wdata + wpos)) \in Block(p, n)
    BY <1>2 DEF Block
  <2> QED BY <2>1, <1>1, <1>2 DEF Source, Initialised
<1>4. Block(wdata + wpos, n) \subseteq Addr
  BY <1>1, <1>2, ByteIOAssumption DEF IInv, TypeOK, WriteRemaining, Block, Addr
<1> QED
  BY <1>1, <1>2, <1>3, <1>4 DEF Wrote, Moved

\* Every step keeps the invariant and leaves the file alone, except a
\* successful write and the writer's seek and clear.
FileStep ==
  \/ SameFile
  \/ \E n \in Nat : n # 0 /\ Wrote(n)
  \/ \E p \in 0..Heap : WriteSeek(p)
  \/ Clear

LEMMA WriterSteps ==
  ASSUME IInv,
         \/ WriteRefused
         \/ \E s \in Scalars \cup Compacts : WriteScalar(s)
         \/ \E p \in Addr \cup {0}, n \in 0..Heap : Source(p, n) /\ WriteBytes(p, n)
         \/ \E p \in 0..Heap : WriteSeek(p)
         \/ Clear
  PROVE  IInv' /\ FileStep
<1>1. CASE UNCHANGED <<mem, writer, reader>>
  BY <1>1, Failing DEF FileStep
<1>2. CASE WriteRefused
  BY <1>1, <1>2 DEF WriteRefused, WriterFails
<1>3. ASSUME NEW s \in Scalars \cup Compacts, WriteScalar(s)
      PROVE  IInv' /\ FileStep
  <2>1. CASE status' = "ok"
    <3>1. Len(s) \in Nat /\ Len(s) # 0 /\ Wrote(Len(s))
      BY <1>3, <2>1, ScalarWrote
    <3> QED BY <3>1, WroteKeeps DEF FileStep
  <2>2. CASE status' # "ok"
    BY <1>1, <1>3, <2>2 DEF WriteScalar, WriterFails, Advance
  <2> QED BY <2>1, <2>2
<1>4. ASSUME NEW p \in Addr \cup {0}, NEW n \in 0..Heap, Source(p, n), WriteBytes(p, n)
      PROVE  IInv' /\ FileStep
  <2>1. CASE status' = "ok" /\ n # 0
    <3>1. Wrote(n) /\ n \in Nat
      BY <1>4, <2>1, BytesWrote
    <3> QED BY <2>1, <3>1, WroteKeeps DEF FileStep
  <2>2. CASE ~(status' = "ok" /\ n # 0)
    BY <1>1, <1>4, <2>2 DEF WriteBytes, WriterFails, Advance
  <2> QED BY <2>1, <2>2
<1>5. ASSUME NEW p \in 0..Heap, WriteSeek(p)
      PROVE  IInv' /\ FileStep
  BY <1>5 DEF WriteSeek, SeekLimit, FileStep, IInv, TypeOK, NothingUnwritten, reader
<1>6. CASE Clear
  <2>1. Block(wdata, 0) = {}
    BY ByteIOAssumption DEF Block, IInv, TypeOK, Addr
  <2>2. /\ UNCHANGED <<mem, wdata, wcap, rdata, rsize, rpos>> /\ wpos' = 0 /\ wsize' = 0
    BY <1>6 DEF Clear, reader
  <2>3. TypeOK' /\ NothingUnwritten'
    BY <2>1, <2>2 DEF IInv, TypeOK, NothingUnwritten
  <2> QED BY <1>6, <2>3 DEF IInv, FileStep
<1> QED BY <1>2, <1>3, <1>4, <1>5, <1>6

\* read_bytes into the application's memory, the writer's range apart.
LEMMA BytesRead ==
  ASSUME IInv, NEW d \in Addr \cup {0}, NEW n \in 0..Heap, n # 0, Destination(d, n),
         ReadBytes(d, n), status' = "ok"
  PROVE  IInv' /\ SameFile
<1>1. /\ d # 0 /\ rdata # 0 /\ n <= ReadRemaining
      /\ mem' = Moved(d, rdata + rpos, n) /\ Consume(n)
  BY DEF ReadBytes, ReaderFails
<1>2. /\ rdata \in Nat /\ rpos \in Nat /\ rsize \in Nat /\ d \in Nat /\ n \in Nat
      /\ mem \in [Addr -> Byte \cup {Junk}] /\ wdata \in Nat /\ wsize \in Nat /\ wcap \in Nat
      /\ wsize <= wcap
  BY <1>1, ByteIOAssumption DEF IInv, TypeOK, Addr
<1>3. ASSUME NEW a \in Block(d, n)
      PROVE  mem[rdata + rpos + (a - d)] \in Byte
  <2>1. rdata + rpos + (a - d) \in Block(rdata, rsize)
    BY <1>1, <1>2 DEF Block, ReadRemaining
  <2> QED BY <2>1, <1>1, <1>2 DEF IInv, TypeOK, NothingUnwritten
<1>4. ASSUME NEW a \in Addr
      PROVE  /\ mem'[a] \in Byte \cup {Junk}
             /\ mem[a] # Junk => mem'[a] # Junk
             /\ a \notin Block(d, n) => mem'[a] = mem[a]
  <2>1. mem'[a] = IF a \in Block(d, n) THEN mem[rdata + rpos + (a - d)] ELSE mem[a]
    BY <1>1 DEF Moved
  <2> QED BY <2>1, <1>2, <1>3, ByteIOAssumption DEF Byte
<1>5. /\ UNCHANGED <<wdata, wcap, wpos, wsize, rdata, rsize>> /\ rpos' = rpos + n
      /\ rpos' \in 0..rsize
  BY <1>1, <1>2 DEF Consume, writer, ReadRemaining
<1>6. mem' \in [Addr -> Byte \cup {Junk}]
  <2>1. mem' = [a \in Addr |-> mem'[a]]
    BY <1>1 DEF Moved
  <2> QED BY <2>1, <1>4
<1>7. TypeOK'
  BY <1>5, <1>6 DEF IInv, TypeOK
<1>8. /\ wdata # 0 => Block(wdata, wsize) \subseteq Block(wdata, wcap)
      /\ wdata # 0 => Block(wdata, wcap) \subseteq Addr
      /\ Block(rdata, rsize) \subseteq Addr
  BY <1>1, <1>2 DEF IInv, TypeOK, Block
<1>9. NothingUnwritten'
  BY <1>1, <1>4, <1>5, <1>8 DEF IInv, NothingUnwritten
<1>10. SameFile
  <2>1. ASSUME NEW k \in 1..wsize
        PROVE  mem'[wdata + k - 1] = mem[wdata + k - 1]
    <3>0. wdata # 0
      BY <1>2 DEF IInv, TypeOK
    <3>1. wdata + k - 1 \in Block(wdata, wcap)
      BY <1>2 DEF Block
    <3>2. wdata + k - 1 \notin Block(d, n)
      BY <3>1, <1>1 DEF Destination
    <3> QED BY <3>0, <3>1, <3>2, <1>4, <1>8
  <2> QED BY <1>5, <2>1 DEF SameFile, writer
<1> QED BY <1>7, <1>9, <1>10 DEF IInv

\* read_view, and opening the reader elsewhere.
LEMMA ViewRead ==
  ASSUME IInv, NEW n \in 0..Heap, NEW open \in BOOLEAN, ReadView(n, open)
  PROVE  IInv' /\ SameFile
<1>1. CASE UNCHANGED <<mem, writer, reader>>
  BY <1>1, Failing
<1>2. CASE n <= ReadRemaining /\ (n = 0 \/ rdata # 0) /\ ~open /\ ReadView(n, open)
  BY <1>1, <1>2, ReaderConsumes DEF ReadView, ReaderFails, ReadRemaining, IInv, TypeOK
<1>3. CASE n <= ReadRemaining /\ (n = 0 \/ rdata # 0) /\ open /\ ReadView(n, open)
  <2>1. CASE ReaderFails("null_pointer") \/ ReaderFails("insufficient_data")
    BY <1>1, <2>1 DEF ReaderFails
  <2>2. CASE /\ rdata' = Subview(n) /\ rsize' = n /\ rpos' = 0
             /\ UNCHANGED <<mem, writer>>
    <3>1. CASE rdata = 0
      <4>1. /\ rdata' = 0 /\ rsize' = n /\ rpos' = 0 /\ UNCHANGED <<mem, writer>>
        BY <2>2, <3>1 DEF Subview
      <4>2. rpos' \in 0..rsize' /\ rsize' \in 0..Heap /\ rdata' \in 0..(Heap + 1)
        BY <4>1, ByteIOAssumption
      <4> QED BY <4>1, <4>2, ReaderMoves
    <3>2. CASE rdata # 0
      <4>1. /\ rdata \in Nat /\ rpos \in Nat /\ rsize \in Nat /\ n \in Nat
            /\ n <= rsize - rpos /\ rpos <= rsize
        BY <1>3, ByteIOAssumption DEF IInv, TypeOK, ReadRemaining
      <4>2. Block(rdata + rpos, n) \subseteq Block(rdata, rsize)
        BY <4>1 DEF Block
      <4>3. /\ Block(rdata, rsize) \subseteq Addr
            /\ \A a \in Block(rdata, rsize) : mem[a] # Junk
        BY <3>2 DEF IInv, TypeOK, NothingUnwritten
      <4>4. rdata + rpos \in 0..(Heap + 1)
        <5>1. CASE rsize = 0
          BY <5>1, <4>1 DEF IInv, TypeOK
        <5>2. CASE rsize # 0
          <6>1. rdata + rsize - 1 \in Block(rdata, rsize)
            BY <4>1, <5>2 DEF Block
          <6>2. rdata + rsize - 1 <= Heap
            BY <6>1, <4>3, ByteIOAssumption DEF Addr
          <6> QED BY <6>2, <4>1, ByteIOAssumption
        <5> QED BY <5>1, <5>2
      <4>5. /\ rdata' = rdata + rpos /\ rsize' = n /\ rpos' = 0
            /\ UNCHANGED <<mem, writer>>
        BY <2>2, <3>2 DEF Subview
      <4>6. rpos' \in 0..rsize' /\ rsize' \in 0..Heap /\ rdata' \in 0..(Heap + 1)
        BY <4>1, <4>4, <4>5
      <4>7. /\ Block(rdata', rsize') \subseteq Addr
            /\ \A a \in Block(rdata', rsize') : mem[a] # Junk
        BY <4>2, <4>3, <4>5
      <4> QED BY <4>5, <4>6, <4>7, ReaderMoves
    <3> QED BY <3>1, <3>2
  <2> QED BY <1>3, <2>1, <2>2 DEF ReadView
<1> QED BY <1>1, <1>2, <1>3 DEF ReadView, ReaderFails

LEMMA ReaderSteps ==
  ASSUME IInv,
         \/ ReadRefused
         \/ \E n \in 1..MaxWidth : ReadScalar(n)
         \/ ReadBool
         \/ \E g \in 1..MaxGroups : ReadCompact(g)
         \/ \E d \in Addr \cup {0}, n \in 0..Heap : Destination(d, n) /\ ReadBytes(d, n)
         \/ \E n \in 0..Heap, open \in BOOLEAN : ReadView(n, open)
         \/ \E p \in 0..Heap : ReadSeek(p)
         \/ OpenView
         \/ \E p \in Addr, n \in 0..Heap : OpenBytes(p, n)
  PROVE  IInv' /\ SameFile
<1>1. CASE UNCHANGED <<mem, writer, reader>>
  BY <1>1, Failing
<1>2. CASE ReadRefused
  BY <1>1, <1>2 DEF ReadRefused, ReaderFails
<1>3. ASSUME NEW n \in 1..MaxWidth, ReadScalar(n)
      PROVE  IInv' /\ SameFile
  <2>1. CASE UNCHANGED mem /\ Consume(n) /\ n <= ReadRemaining
    BY <2>1, ReaderConsumes, ByteIOAssumption DEF Consume, ReadRemaining, IInv, TypeOK
  <2> QED BY <1>1, <1>3, <2>1 DEF ReadScalar, ReaderFails
<1>4. CASE ReadBool
  <2>1. CASE /\ ReadRemaining # 0 /\ rpos' = PosAfterBool(mem[rdata + rpos])
             /\ UNCHANGED <<mem, writer, rdata, rsize>>
    <3>1. rpos \in 0..rsize /\ rsize \in Nat /\ rsize # rpos
      BY <2>1, ByteIOAssumption DEF ReadRemaining, IInv, TypeOK
    <3>2. rpos + 1 \in 0..rsize
      BY <3>1
    <3>3. rpos' \in 0..rsize
      BY <2>1, <3>1, <3>2 DEF PosAfterBool
    <3> QED BY <2>1, <3>3, ReaderConsumes
  <2> QED BY <1>1, <1>4, <2>1 DEF ReadBool, ReaderFails
<1>5. ASSUME NEW g \in 1..MaxGroups, ReadCompact(g)
      PROVE  IInv' /\ SameFile
  <2>1. CASE \E k \in 1..Seen : UNCHANGED mem /\ Consume(k)
    <3>1. PICK k \in 1..Seen : UNCHANGED mem /\ Consume(k)
      BY <2>1
    <3>2. k \in Nat /\ k <= rsize - rpos /\ rpos \in 0..rsize /\ rsize \in Nat
      BY <3>1, ByteIOAssumption DEF Seen, ReadRemaining, IInv, TypeOK
    <3>3. rpos + k \in 0..rsize
      BY <3>2
    <3> QED BY <3>1, <3>3, ReaderConsumes DEF Consume
  <2> QED BY <1>1, <1>5, <2>1 DEF ReadCompact, ReaderFails
<1>6. ASSUME NEW d \in Addr \cup {0}, NEW n \in 0..Heap, Destination(d, n), ReadBytes(d, n)
      PROVE  IInv' /\ SameFile
  <2>1. CASE status' = "ok" /\ n # 0
    BY <1>6, <2>1, BytesRead
  <2>2. CASE ~(status' = "ok" /\ n # 0)
    BY <1>1, <1>6, <2>2 DEF ReadBytes, ReaderFails, Consume
  <2> QED BY <2>1, <2>2
<1>7. ASSUME NEW n \in 0..Heap, NEW open \in BOOLEAN, ReadView(n, open)
      PROVE  IInv' /\ SameFile
  BY <1>7, ViewRead
<1>8. ASSUME NEW p \in 0..Heap, ReadSeek(p)
      PROVE  IInv' /\ SameFile
  BY <1>8, ReaderConsumes DEF ReadSeek
<1>9. CASE OpenView
  <2>1. /\ rdata' = wdata /\ rsize' = wsize /\ rpos' = 0 /\ UNCHANGED <<mem, writer>>
    BY <1>9 DEF OpenView
  <2>2. /\ wdata \in 0..(Heap + 1) /\ wsize \in 0..Heap /\ wsize <= wcap
        /\ wsize \in Nat /\ wcap \in Nat /\ wdata \in Nat
    BY ByteIOAssumption DEF IInv, TypeOK, Addr
  <2>3. wdata # 0 => Block(wdata, wsize) \subseteq Addr
    <3>1. Block(wdata, wsize) \subseteq Block(wdata, wcap)
      BY <2>2 DEF Block
    <3> QED BY <3>1 DEF IInv, TypeOK
  <2>4. wdata # 0 => \A a \in Block(wdata, wsize) : mem[a] # Junk
    BY DEF IInv, NothingUnwritten
  <2>5. rpos' \in 0..rsize'
    BY <2>1, <2>2
  <2> QED BY <2>1, <2>2, <2>3, <2>4, <2>5, ReaderMoves
<1>10. ASSUME NEW p \in Addr, NEW n \in 0..Heap, OpenBytes(p, n)
       PROVE  IInv' /\ SameFile
  <2>1. /\ rdata' = p /\ rsize' = n /\ rpos' = 0 /\ UNCHANGED <<mem, writer>>
        /\ Block(p, n) \subseteq Addr /\ \A a \in Block(p, n) : mem[a] # Junk
    BY <1>10 DEF OpenBytes, Initialised
  <2>2. rpos' \in 0..rsize' /\ rdata' \in 0..(Heap + 1)
    BY <2>1, ByteIOAssumption DEF Addr
  <2> QED BY <2>1, <2>2, ReaderMoves
<1> QED BY <1>2, <1>3, <1>4, <1>5, <1>6, <1>7, <1>8, <1>9, <1>10

LEMMA InitIInv == Init => IInv
<1> SUFFICES ASSUME Init PROVE IInv
  OBVIOUS
<1>1. PICK r \in Ranges : wdata = r[1] /\ wcap = r[2]
  BY DEF Init
<1>2. /\ wdata \in 0..Heap /\ wcap \in 0..Heap /\ (wdata # 0 => wdata + wcap <= Heap + 1)
  BY <1>1, ByteIOAssumption
<1>3. wdata # 0 => Block(wdata, wcap) \subseteq Addr
  BY <1>2, ByteIOAssumption DEF Block, Addr
<1>4. /\ wpos = 0 /\ wsize = 0 /\ rdata = 0 /\ rsize \in 0..Heap /\ rpos = 0
      /\ mem \in [Addr -> Byte \cup {Junk}]
  BY ByteIOAssumption DEF Init
<1>5. Block(wdata, 0) = {}
  BY <1>2 DEF Block
<1> QED BY <1>2, <1>3, <1>4, <1>5, ByteIOAssumption DEF IInv, TypeOK, NothingUnwritten, Addr

LEMMA NextSteps ==
  ASSUME IInv, Next
  PROVE  IInv' /\ FileStep
<1>1. CASE \/ WriteRefused
           \/ \E s \in Scalars \cup Compacts : WriteScalar(s)
           \/ \E p \in Addr \cup {0}, n \in 0..Heap : Source(p, n) /\ WriteBytes(p, n)
           \/ \E p \in 0..Heap : WriteSeek(p)
           \/ Clear
  BY <1>1, WriterSteps
<1>2. CASE \/ ReadRefused
           \/ \E n \in 1..MaxWidth : ReadScalar(n)
           \/ ReadBool
           \/ \E g \in 1..MaxGroups : ReadCompact(g)
           \/ \E d \in Addr \cup {0}, n \in 0..Heap : Destination(d, n) /\ ReadBytes(d, n)
           \/ \E n \in 0..Heap, open \in BOOLEAN : ReadView(n, open)
           \/ \E p \in 0..Heap : ReadSeek(p)
           \/ OpenView
           \/ \E p \in Addr, n \in 0..Heap : OpenBytes(p, n)
  BY <1>2, ReaderSteps DEF FileStep
<1> QED BY <1>1, <1>2 DEF Next

\* The inductive invariant is one: position, size, capacity and the memory
\* behind them stay consistent through every call of either.
THEOREM Invariance == Spec => []IInv
<1>1. IInv /\ UNCHANGED vars => IInv'
  BY Failing DEF vars, writer, reader
<1> QED BY InitIInv, NextSteps, <1>1, PTL DEF Spec

\* Types and ranges, for any memory and any range a writer is given.
THEOREM TypeCorrect == Spec => []TypeOK
BY Invariance, PTL DEF IInv

\* No byte that nobody wrote is ever shown by view() or returned by a reader.
THEOREM NothingUnwrittenShows == Spec => []NothingUnwritten
BY Invariance, PTL DEF IInv

\* byte_writer is the bounded, gapless file of ByteFile: a failing write
\* changes nothing, a successful one exactly the bytes behind the cursor.
THEOREM Refinement == Spec => FileSpec
<1>1. Init => File!Init
  <2> SUFFICES ASSUME Init PROVE File!Init
    OBVIOUS
  <2>1. IInv /\ wpos = 0 /\ wsize = 0
    BY InitIInv DEF Init
  <2>2. wcap \in Nat
    BY <2>1, ByteIOAssumption DEF IInv, TypeOK
  <2>3. [k \in 1..wsize |-> mem[wdata + k - 1]] = <<>>
    BY <2>1
  <2> QED BY <2>1, <2>2, <2>3 DEF File!Init
<1>2. ASSUME IInv, SameFile
      PROVE  UNCHANGED File!vars
  BY <1>2 DEF SameFile, writer, File!vars, IInv, TypeOK
<1>3. ASSUME IInv, NEW n \in Nat, n # 0, Wrote(n)
      PROVE  File!Write
  <2>1. /\ wdata # 0 /\ wdata' = wdata /\ wcap' = wcap /\ wpos' = wpos + n
        /\ wsize' = (IF wpos + n > wsize THEN wpos + n ELSE wsize)
        /\ n <= wcap - wpos
    BY <1>3 DEF Wrote, Advance, SizeAfter, WriteRemaining
  <2>2. wdata \in Nat /\ wcap \in Nat /\ wpos \in Nat /\ wsize \in Nat /\ wpos <= wsize
    BY ByteIOAssumption, <1>3 DEF IInv, TypeOK, Addr
  <2> DEFINE old == [k \in 1..wsize |-> mem[wdata + k - 1]]
             new == [k \in 1..wsize' |-> mem'[wdata + k - 1]]
  <2>3. Len(old) = wsize /\ DOMAIN old = 1..wsize
    BY <2>2
  <2>4. wpos' \in (wpos + 1)..wcap
    BY <2>1, <2>2, <1>3
  <2>5. ASSUME NEW k \in 1..wsize'
        PROVE  /\ new[k] \in Byte
               /\ k \in 1..wsize /\ k \notin (wpos + 1)..(wpos + n) => new[k] = old[k]
    <3>1. k \in Nat /\ k # 0 /\ wdata + k - 1 \in Int
      BY <2>1, <2>2
    <3>2. new[k] = mem'[wdata + k - 1]
      OBVIOUS
    <3>3. CASE k \in (wpos + 1)..(wpos + n)
      <4>1. wdata + k - 1 \in Block(wdata + wpos, n)
        BY <3>1, <3>3, <2>2 DEF Block
      <4> QED BY <4>1, <3>2, <3>3, <1>3 DEF Wrote
    <3>4. CASE k \notin (wpos + 1)..(wpos + n)
      <4>1. wdata + k - 1 \notin Block(wdata + wpos, n)
        BY <3>1, <3>4, <2>2, <1>3 DEF Block
      <4>2. k \in 1..wsize
        BY <2>1, <2>2, <3>1, <3>4
      <4>3. wdata + k - 1 \in Block(wdata, wsize) /\ wdata + k - 1 \in Block(wdata, wcap)
        BY <4>2, <2>2, <1>3 DEF Block, IInv, TypeOK
      <4>4. wdata + k - 1 \in Addr
        BY <4>3, <2>1, <1>3 DEF IInv, TypeOK
      <4>5. mem'[wdata + k - 1] = mem[wdata + k - 1]
        BY <4>1, <4>4, <1>3 DEF Wrote
      <4>6. mem[wdata + k - 1] \in Byte
        BY <4>3, <4>4, <2>1, <1>3 DEF IInv, TypeOK, NothingUnwritten
      <4> QED BY <4>2, <4>5, <4>6, <3>2, <3>4
    <3> QED BY <3>3, <3>4
  <2>6. wsize' = IF wpos' > Len(old) THEN wpos' ELSE Len(old)
    BY <2>1, <2>3
  <2>7. new \in [1..wsize' -> Byte]
    BY <2>5
  <2>8. \A k \in 1..wsize : k \notin (wpos + 1)..wpos' => new[k] = old[k]
    <3>1. 1..wsize \subseteq 1..wsize'
      BY <2>1, <2>2
    <3> QED BY <3>1, <2>1, <2>5
  <2> HIDE DEF old, new
  <2>10. /\ wpos' \in (wpos + 1)..wcap
         /\ new \in [1..(IF wpos' > Len(old) THEN wpos' ELSE Len(old)) -> Byte]
         /\ \A k \in 1..Len(old) : k \notin (wpos + 1)..wpos' => new[k] = old[k]
    BY <2>3, <2>4, <2>6, <2>7, <2>8
  <2>11. new = [k \in 1..wsize' |-> mem'[wdata' + k - 1]] /\ UNCHANGED wcap
    BY <2>1 DEF new
  <2> QED BY <2>10, <2>11 DEF old, File!Write
<1>4. ASSUME IInv, NEW p \in 0..Heap, WriteSeek(p)
      PROVE  File!Seek
  <2>1. /\ p <= wsize /\ wpos' = p /\ UNCHANGED <<mem, wdata, wcap, wsize>>
    BY <1>4 DEF WriteSeek, SeekLimit
  <2>2. wsize \in Nat
    BY <1>4, ByteIOAssumption DEF IInv, TypeOK
  <2>3. Len([k \in 1..wsize |-> mem[wdata + k - 1]]) = wsize
    BY <2>2
  <2> QED BY <2>1, <2>2, <2>3 DEF File!Seek
<1>5. ASSUME Clear
      PROVE  File!Clear
  <2>1. wsize' = 0 /\ wpos' = 0 /\ UNCHANGED <<wdata, wcap>>
    BY <1>5 DEF Clear
  <2>2. [k \in 1..wsize' |-> mem'[wdata' + k - 1]] = <<>>
    BY <2>1
  <2> QED BY <2>1, <2>2 DEF File!Clear
<1>6. IInv /\ [Next]_vars => [File!Next]_(File!vars)
  <2> SUFFICES ASSUME IInv, [Next]_vars PROVE [File!Next]_(File!vars)
    OBVIOUS
  <2>1. CASE Next
    <3>1. FileStep
      BY <2>1, NextSteps
    <3> QED BY <3>1, <1>2, <1>3, <1>4, <1>5 DEF FileStep, File!Next
  <2>2. CASE UNCHANGED vars
    <3>1. SameFile
      BY <2>2 DEF SameFile, vars, writer
    <3> QED BY <3>1, <1>2
  <2> QED BY <2>1, <2>2
<1> QED BY <1>1, <1>6, Invariance, PTL DEF Spec, FileSpec, File!Spec

----------------------------------------------------------------------------
Untouched == UNCHANGED <<mem, writer, reader>>

LEMMA FailuresTouchNothing == Next => (status' # "ok" => Untouched)
<1> SUFFICES ASSUME Next, status' # "ok" PROVE Untouched
  OBVIOUS
<1>f. \A error : WriterFails(error) \/ ReaderFails(error) => Untouched
  BY DEF WriterFails, ReaderFails, Untouched
<1>1. CASE WriteRefused \/ ReadRefused
  BY <1>1, <1>f DEF WriteRefused, ReadRefused
<1>2. ASSUME NEW s, WriteScalar(s) PROVE Untouched
  BY <1>2, <1>f DEF WriteScalar, Advance
<1>3. ASSUME NEW p, NEW n, WriteBytes(p, n) PROVE Untouched
  BY <1>3, <1>f DEF WriteBytes, Advance
<1>4. ASSUME NEW n, ReadScalar(n) PROVE Untouched
  BY <1>4, <1>f DEF ReadScalar, Consume
<1>5. CASE ReadBool
  <2>1. CASE rdata # 0 /\ ReadRemaining # 0
    <3>1. /\ rpos' = PosAfterBool(mem[rdata + rpos])
          /\ status' = IF mem[rdata + rpos] = Cont THEN "invalid_value" ELSE "ok"
          /\ UNCHANGED <<mem, writer, rdata, rsize>>
      BY <1>5, <2>1, <1>f DEF ReadBool, ReaderFails
    <3>2. mem[rdata + rpos] = Cont
      BY <3>1
    <3> QED BY <3>1, <3>2 DEF PosAfterBool, Untouched, reader
  <2>2. CASE rdata = 0 \/ ReadRemaining = 0
    BY <1>5, <2>2, <1>f DEF ReadBool
  <2> QED BY <2>1, <2>2
<1>6. ASSUME NEW g, ReadCompact(g) PROVE Untouched
  <2>1. CASE rdata = 0
    BY <1>6, <2>1, <1>f DEF ReadCompact
  <2>2. CASE \E k \in 1..Seen : UNCHANGED mem /\ Consume(k)
    BY <2>2 DEF Consume
  <2> QED BY <1>6, <2>1, <2>2, <1>f DEF ReadCompact
<1>7. ASSUME NEW d, NEW n, ReadBytes(d, n) PROVE Untouched
  BY <1>7, <1>f DEF ReadBytes, Consume
<1>8. ASSUME NEW n, NEW open, ReadView(n, open) PROVE Untouched
  BY <1>8, <1>f DEF ReadView
<1>9. ASSUME NEW p, NEW n, WriteSeek(p) \/ Clear \/ ReadSeek(p) \/ OpenView \/ OpenBytes(p, n)
      PROVE  FALSE
  BY <1>9 DEF WriteSeek, Clear, ReadSeek, OpenView, OpenBytes
<1> QED BY <1>1, <1>2, <1>3, <1>4, <1>5, <1>6, <1>7, <1>8, <1>9 DEF Next

----------------------------------------------------------------------------
\* What AllOrNothing says of a copy.
Exact ==
  /\ mem' # mem /\ UNCHANGED writer
     => \E d \in Addr : Copied(d, rdata + rpos, rpos' - rpos)
  /\ mem' # mem /\ wpos' > wpos + MaxWidth /\ wpos' > wpos + MaxGroups
     => \E p \in Addr : Copied(wdata + wpos, p, wpos' - wpos)

\* memmove from a block of the memory is a copy.
LEMMA MovedIsCopied ==
  ASSUME NEW d \in Nat, NEW p \in Nat, NEW n \in Nat,
         Block(p, n) \subseteq Addr, mem' = Moved(d, p, n)
  PROVE  Copied(d, p, n)
<1>1. ASSUME NEW a \in Addr
      PROVE  mem'[a] = IF a - d \in 0..(n - 1) THEN mem[p + a - d] ELSE mem[a]
  <2>1. a \in Nat /\ p + (a - d) = p + a - d /\ (a \in Block(d, n) <=> a - d \in 0..(n - 1))
    BY ByteIOAssumption DEF Addr, Block
  <2>2. mem'[a] = IF a \in Block(d, n) THEN mem[p + (a - d)] ELSE mem[a]
    BY DEF Moved
  <2> QED BY <2>1, <2>2
<1> QED BY <1>1 DEF Copied

LEMMA WritesAreExact ==
  ASSUME IInv, NEW p \in Addr \cup {0}, NEW n \in 0..Heap, Source(p, n), WriteBytes(p, n)
  PROVE  Exact
<1>1. CASE UNCHANGED mem
  BY <1>1 DEF Exact
<1>2. CASE /\ n # 0 /\ p # 0 /\ wdata # 0 /\ n <= WriteRemaining
           /\ mem' = Moved(wdata + wpos, p, n) /\ Advance(n)
  <2>1. /\ wdata \in Nat /\ wpos \in Nat /\ p \in Addr /\ p \in Nat /\ n \in Nat
        /\ wpos' = wpos + n /\ wpos' - wpos = n /\ wpos' # wpos
    BY <1>2, ByteIOAssumption DEF IInv, TypeOK, Addr, Advance
  <2>2. Block(p, n) \subseteq Addr
    BY <1>2 DEF Source, Initialised
  <2>3. Copied(wdata + wpos, p, n)
    BY <1>2, <2>1, <2>2, MovedIsCopied
  <2> QED BY <2>1, <2>3 DEF Exact, writer
<1> QED BY <1>1, <1>2 DEF WriteBytes, WriterFails

LEMMA ReadsAreExact ==
  ASSUME IInv, NEW d \in Addr \cup {0}, NEW n \in 0..Heap, ReadBytes(d, n)
  PROVE  Exact
<1>1. CASE UNCHANGED mem
  BY <1>1 DEF Exact
<1>2. CASE /\ n # 0 /\ d # 0 /\ rdata # 0 /\ n <= ReadRemaining
           /\ mem' = Moved(d, rdata + rpos, n) /\ Consume(n)
  <2>1. /\ rdata \in Nat /\ rpos \in Nat /\ rsize \in Nat /\ d \in Addr /\ d \in Nat
        /\ n \in Nat /\ n <= rsize - rpos /\ rpos' - rpos = n
        /\ UNCHANGED writer /\ MaxWidth \in Nat /\ wpos \in Nat
    BY <1>2, ByteIOAssumption DEF IInv, TypeOK, Addr, Consume, ReadRemaining
  <2>2. Block(rdata + rpos, n) \subseteq Block(rdata, rsize)
    BY <2>1 DEF Block
  <2>3. Block(rdata + rpos, n) \subseteq Addr
    BY <1>2, <2>2 DEF IInv, TypeOK
  <2>4. Copied(d, rdata + rpos, n)
    BY <1>2, <2>1, <2>3, MovedIsCopied
  <2>5. ~(wpos' > wpos + MaxWidth)
    BY <2>1 DEF writer
  <2> QED BY <2>1, <2>4, <2>5 DEF Exact
<1> QED BY <1>1, <1>2 DEF ReadBytes, ReaderFails

\* No number fills more bytes than the widest of its kind.
LEMMA ScalarsAreShort ==
  ASSUME IInv, NEW s \in Scalars \cup Compacts, WriteScalar(s)
  PROVE  Exact
<1>1. CASE UNCHANGED mem
  BY <1>1 DEF Exact
<1>2. CASE Advance(Len(s))
  <2>1. PICK n \in Nat : n # 0 /\ (n <= MaxWidth \/ n <= MaxGroups) /\ s \in [1..n -> Byte]
    BY ByteIOAssumption DEF Scalars, Compacts
  <2>2. wpos' = wpos + n /\ wpos \in Nat
    BY <1>2, <2>1, ByteIOAssumption DEF Advance, IInv, TypeOK
  <2>3. wpos' # wpos /\ ~(wpos' > wpos + MaxWidth /\ wpos' > wpos + MaxGroups)
    BY <2>1, <2>2, ByteIOAssumption
  <2> QED BY <2>3 DEF Exact, writer
<1> QED BY <1>1, <1>2 DEF WriteScalar, WriterFails

LEMMA StepsAreExact == IInv /\ Next => Exact
<1> SUFFICES ASSUME IInv, Next PROVE Exact
  OBVIOUS
<1>1. CASE UNCHANGED mem
  BY <1>1 DEF Exact
<1>2. CASE \E s \in Scalars \cup Compacts : WriteScalar(s)
  BY <1>2, ScalarsAreShort
<1>3. CASE \E p \in Addr \cup {0}, n \in 0..Heap : Source(p, n) /\ WriteBytes(p, n)
  BY <1>3, WritesAreExact
<1>4. CASE \E d \in Addr \cup {0}, n \in 0..Heap : Destination(d, n) /\ ReadBytes(d, n)
  BY <1>4, ReadsAreExact
<1>5. CASE WriteRefused \/ ReadRefused
  BY <1>1, <1>5 DEF WriteRefused, ReadRefused, WriterFails, ReaderFails
<1>6. ASSUME NEW p, WriteSeek(p) \/ Clear \/ ReadSeek(p) \/ OpenView \/ (\E n : OpenBytes(p, n))
      PROVE  UNCHANGED mem
  BY <1>6 DEF WriteSeek, Clear, ReadSeek, OpenView, OpenBytes
<1>7. ASSUME NEW n, ReadScalar(n) PROVE UNCHANGED mem
  BY <1>7 DEF ReadScalar, ReaderFails
<1>8. CASE ReadBool
  BY <1>1, <1>8 DEF ReadBool, ReaderFails
<1>9. ASSUME NEW g, ReadCompact(g) PROVE UNCHANGED mem
  BY <1>9 DEF ReadCompact, ReaderFails
<1>10. ASSUME NEW n, NEW open, ReadView(n, open) PROVE UNCHANGED mem
  BY <1>10 DEF ReadView, ReaderFails
<1> QED BY <1>1, <1>2, <1>3, <1>4, <1>5, <1>6, <1>7, <1>8, <1>9, <1>10 DEF Next

\* A call of either class that fails has changed neither of them nor a byte of
\* memory, and copies between overlapping ranges lose and repeat nothing, for
\* any memory, any range and any number of bytes.
THEOREM WholeOrNotAtAll == Spec => AllOrNothing
<1>1. IInv /\ [Next]_vars => [(status' # "ok" => Untouched) /\ Exact]_vars
  BY FailuresTouchNothing, StepsAreExact
<1> QED BY <1>1, Invariance, PTL DEF Spec, AllOrNothing, Untouched, Exact
=============================================================================
