------------------------ MODULE StreamBufferProofs ------------------------
(***************************************************************************)
(* Proofs about StreamBuffer, for a heap and a buffer of any size: the     *)
(* buffer keeps to memory of its own, and append adds exactly the bytes    *)
(* its source denoted, wherever the source lies and wherever the buffer    *)
(* goes.                                                                   *)
(***************************************************************************)
EXTENDS StreamBuffer, TLAPS

USE BufferAssumption

Inv == TypeOK /\ BytesOwned

\* What a larger buffer looks like before anything is written behind its len
\* bytes: a block of the stream's own with the same bytes, nothing else touched.
Room(n, b, c, m) == /\ b \in Addr /\ c \in (len + n)..MaxSize
                    /\ Block(b, c) \subseteq Addr
                    /\ Block(b, c) \cap Foreign = {}
                    /\ m \in [Addr -> Byte \cup {Junk}]
                    /\ \A i \in 0..(len - 1) : m[b + i] = mem[base + i]
                    /\ \A a \in Foreign : m[a] = mem[a]

\* The numbers behind the type invariant.
LEMMA Numbers ==
  ASSUME Inv
  PROVE  /\ base \in Nat /\ cap \in Nat /\ len \in Nat /\ len <= cap /\ cap <= MaxSize
         /\ arr \in Nat /\ arrLen \in Nat
         /\ cap > 0 => base > 0 /\ base + cap - 1 <= Heap
BY DEF Inv, TypeOK, BytesOwned, Own, Block, Addr

LEMMA InitInv == Init => Inv
<1> SUFFICES ASSUME Init PROVE Inv
  OBVIOUS
<1>1. PICK content \in [Foreign -> Byte] :
         mem = [a \in Addr |-> IF a \in Foreign THEN content[a] ELSE Junk]
  BY DEF Init
<1>2. /\ base = 0 /\ cap = 0 /\ len = 0 /\ arr \in Addr /\ arr \in Nat
      /\ arrLen \in Nat /\ arr + arrLen <= Heap + 1
  BY DEF Init, Addr
<1>3. Foreign \subseteq Addr
  BY <1>2 DEF Foreign, Block, Addr
<1>4. TypeOK
  BY <1>1, <1>2 DEF TypeOK
<1>5. BytesOwned
  BY <1>1, <1>2, <1>3 DEF BytesOwned, Own, Block
<1> QED BY <1>4, <1>5 DEF Inv

\* Moving to a free block of at least the size needed makes room.
LEMMA Relocation ==
  ASSUME Inv, NEW n \in Nat, NEW c \in (len + n)..MaxSize, NEW b \in FreeFor(c)
  PROVE  Room(n, b, c, Relocated(b))
<1>n. /\ base \in Nat /\ cap \in Nat /\ len \in Nat /\ len <= cap /\ cap <= MaxSize
      /\ cap > 0 => base > 0 /\ base + cap - 1 <= Heap
  BY Numbers
<1>1. /\ b \in Addr /\ b \in Nat /\ c \in Nat /\ Block(b, c) \subseteq Addr
      /\ Block(b, c) \cap Own = {} /\ Block(b, c) \cap Foreign = {}
  BY <1>n DEF FreeFor, Addr
<1>2. Block(b, len) \subseteq Block(b, c)
  BY <1>n, <1>1 DEF Block
<1>3. \A a \in Block(b, len) : base + (a - b) \in Block(base, len)
  BY <1>n, <1>1 DEF Block
<1>4. Block(base, len) \subseteq Addr
  BY <1>n DEF Block, Addr
<1>5. Relocated(b) \in [Addr -> Byte \cup {Junk}]
  <2>1. \A a \in Addr : a \in Block(b, len) => mem[base + (a - b)] \in Byte \cup {Junk}
    BY <1>3, <1>4 DEF Inv, TypeOK
  <2>2. mem \in [Addr -> Byte \cup {Junk}]
    BY DEF Inv, TypeOK
  <2> QED BY <2>1, <2>2 DEF Relocated
<1>6. \A i \in 0..(len - 1) : Relocated(b)[b + i] = mem[base + i]
  <2> TAKE i \in 0..(len - 1)
  <2>1. b + i \in Block(b, len) /\ b + i \in Addr
    BY <1>n, <1>1, <1>2 DEF Block
  <2>2. base + ((b + i) - b) = base + i
    BY <1>n, <1>1
  <2> QED BY <2>1, <2>2 DEF Relocated
<1>7. \A a \in Foreign : Relocated(b)[a] = mem[a]
  BY <1>1, <1>2 DEF Relocated, Inv, BytesOwned
<1> QED BY <1>1, <1>5, <1>6, <1>7 DEF Room

\* Making room: in place, or in a new block.
LEMMA MakesRoom ==
  ASSUME Inv, NEW n \in Nat \ {0}, len + n <= MaxSize,
         NEW c \in Capacities(n), NEW b \in Bases(n, c)
  PROVE  Room(n, b, c, Memory(n, b))
<1>n. /\ base \in Nat /\ cap \in Nat /\ len \in Nat /\ len <= cap /\ cap <= MaxSize
      /\ cap > 0 => base > 0 /\ base + cap - 1 <= Heap
  BY Numbers
<1>1. CASE Fits(n)
  <2>1. b = base /\ c = cap /\ Memory(n, b) = mem /\ cap > 0 /\ len + n <= cap
    BY <1>1, <1>n DEF Capacities, Bases, Memory, Fits
  <2>2. Block(base, cap) \subseteq Addr /\ Block(base, cap) \cap Foreign = {}
    BY <2>1 DEF Inv, BytesOwned, Own
  <2>3. base \in Addr
    BY <1>n, <2>1 DEF Addr
  <2> QED BY <1>n, <2>1, <2>2, <2>3 DEF Room, Inv, TypeOK
<1>2. CASE ~Fits(n)
  <2>1. c \in (len + n)..MaxSize /\ b \in FreeFor(c) /\ Memory(n, b) = Relocated(b)
    BY <1>2 DEF Capacities, Bases, Memory
  <2> QED BY <2>1, Relocation
<1> QED BY <1>1, <1>2

\* A block with room whose bytes are all written is a buffer again.
LEMMA FilledInv ==
  ASSUME Inv, NEW n \in Nat, NEW b, NEW c, NEW m, Room(n, b, c, m),
         base' = b, cap' = c, len' = len + n, UNCHANGED <<arr, arrLen>>,
         mem' \in [Addr -> Byte \cup {Junk}],
         \A a \in Addr \ Block(b + len, n) : mem'[a] = m[a],
         \A a \in Block(b + len, n) : mem'[a] \in Byte
  PROVE  Inv'
<1>n. /\ base \in Nat /\ cap \in Nat /\ len \in Nat /\ len <= cap /\ cap <= MaxSize
      /\ cap > 0 => base > 0 /\ base + cap - 1 <= Heap
  BY Numbers
<1>1. /\ b \in Addr /\ b \in Nat /\ c \in (len + n)..MaxSize /\ c \in Nat
      /\ Block(b, c) \subseteq Addr /\ Block(b, c) \cap Foreign = {}
  BY <1>n DEF Room, Addr
<1>2. Foreign' = Foreign /\ Own' = Block(b, c)
  BY DEF Foreign, Own, Block
<1>3. TypeOK'
  BY <1>n, <1>1 DEF Inv, TypeOK
<1>4. Block(b + len, n) \subseteq Block(b, c)
  BY <1>n, <1>1 DEF Block
<1>5. \A a \in Foreign : mem'[a] \in Byte
  <2> TAKE a \in Foreign
  <2>1. a \in Addr \ Block(b + len, n)
    BY <1>1, <1>4 DEF Inv, BytesOwned
  <2>2. m[a] = mem[a] /\ mem[a] \in Byte
    BY DEF Room, Inv, BytesOwned
  <2> QED BY <2>1, <2>2
<1>6. \A a \in Block(b, len + n) : mem'[a] \in Byte
  <2> TAKE a \in Block(b, len + n)
  <2>1. CASE a \in Block(b + len, n)
    BY <2>1
  <2>2. CASE a \notin Block(b + len, n)
    <3>1. a \in Nat /\ a - b \in 0..(len - 1) /\ b + (a - b) = a
      BY <1>n, <1>1, <2>2 DEF Block
    <3>2. m[a] = mem[base + (a - b)]
      BY <3>1 DEF Room
    <3>3. base + (a - b) \in Block(base, len)
      BY <1>n, <1>1, <3>1 DEF Block
    <3>4. mem[base + (a - b)] \in Byte
      BY <3>3 DEF Inv, BytesOwned
    <3>5. a \in Addr
      BY <1>n, <1>1, <3>1 DEF Block
    <3> QED BY <2>2, <3>2, <3>4, <3>5
  <2> QED BY <2>1, <2>2
<1>7. BytesOwned'
  BY <1>1, <1>2, <1>5, <1>6 DEF BytesOwned, Inv
<1> QED BY <1>3, <1>7 DEF Inv

\* Writing behind the len bytes of a block with room: the bytes before, and
\* the caller's, are those of the block.
LEMMA Untouched ==
  ASSUME Inv, NEW n \in Nat, NEW b, NEW c, NEW m, Room(n, b, c, m),
         NEW w, \A a \in Addr \ Block(b + len, n) : w[a] = m[a]
  PROVE  /\ \A i \in 0..(len - 1) : w[b + i] = mem[base + i]
         /\ \A a \in Foreign : w[a] = mem[a]
<1>n. len \in Nat
  BY Numbers
<1>1. /\ b \in Addr /\ b \in Nat /\ c \in (len + n)..MaxSize
      /\ Block(b, c) \subseteq Addr /\ Block(b, c) \cap Foreign = {}
      /\ Block(b + len, n) \subseteq Block(b, c)
  BY <1>n DEF Room, Addr, Block
<1>2. ASSUME NEW i \in 0..(len - 1) PROVE w[b + i] = mem[base + i]
  <2>1. b + i \in Addr \ Block(b + len, n)
    BY <1>n, <1>1 DEF Block
  <2>2. m[b + i] = mem[base + i]
    BY DEF Room
  <2> QED BY <2>1, <2>2
<1>3. ASSUME NEW a \in Foreign PROVE w[a] = mem[a]
  <2>1. a \in Addr \ Block(b + len, n)
    BY <1>1 DEF Inv, BytesOwned
  <2>2. m[a] = mem[a]
    BY DEF Room
  <2> QED BY <2>1, <2>2
<1> QED BY <1>2, <1>3

\* A source append_bytes accepts lies in the buffer or in the caller's array,
\* and SourceAfter finds it again in the block with room.
LEMMA SourceFollowed ==
  ASSUME Inv, NEW p \in Addr, NEW n \in Nat \ {0}, Passable(p, n), ~Refused(p, n),
         NEW b, NEW c, NEW m, Room(n, b, c, m), NEW i \in 0..(n - 1)
  PROVE  /\ SourceAfter(p, b) + i \in Addr
         /\ m[SourceAfter(p, b) + i] = mem[p + i]
         /\ mem[p + i] \in Byte
<1>n. /\ base \in Nat /\ cap \in Nat /\ len \in Nat /\ len <= cap /\ cap <= MaxSize
      /\ p \in Nat
  BY Numbers DEF Addr
<1>1. /\ b \in Nat /\ c \in (len + n)..MaxSize /\ Block(b, c) \subseteq Addr
  BY DEF Room, Addr
<1>2. CASE InBuffer(p)
  <2>1. p >= base /\ SourceAfter(p, b) = b + (p - base)
    BY <1>2 DEF InBuffer, SourceAfter
  <2>6. ~(n > len - (p - base))
    BY <1>2 DEF Refused
  <2>7. n <= len - (p - base)
    BY <1>n, <2>6
  <2> DEFINE j == (p - base) + i
  <2>2. j \in 0..(len - 1) /\ SourceAfter(p, b) + i = b + j /\ p + i = base + j
    BY <1>n, <1>1, <2>1, <2>7
  <2> HIDE DEF j
  <2>3. m[b + j] = mem[base + j]
    BY <2>2 DEF Room
  <2>4. b + j \in Addr
    BY <1>n, <1>1, <2>2 DEF Block
  <2>5. base + j \in Block(base, len)
    BY <1>n, <2>2 DEF Block
  <2> QED BY <2>2, <2>3, <2>4, <2>5 DEF Inv, BytesOwned
<1>3. CASE ~InBuffer(p)
  <2>1. p \notin Own
    BY <1>3, <1>n DEF Own, Block, InBuffer, Refused, InReserve
  <2>2. p + i \in Foreign
    <3>1. Block(p, n) \subseteq Foreign
      BY <2>1 DEF Passable
    <3>2. p + i \in Block(p, n)
      BY <1>n DEF Block
    <3> QED BY <3>1, <3>2
  <2>3. SourceAfter(p, b) = p
    BY <1>3 DEF SourceAfter
  <2> QED BY <2>2, <2>3 DEF Inv, BytesOwned, Room
<1> QED BY <1>2, <1>3

\* What append does, whatever its source and wherever the buffer goes.
LEMMA AppendEffect ==
  ASSUME Inv, NEW p \in Addr, NEW n \in Nat \ {0}, Append(p, n)
  PROVE  /\ Inv'
         /\ \A i \in 0..(len - 1) : mem'[base' + i] = mem[base + i]
         /\ \A i \in 0..(n - 1) : mem'[base' + len + i] = mem[p + i]
         /\ \A a \in Foreign : mem'[a] = mem[a]
<1> DEFINE b == base'
           c == cap'
           m == Memory(n, b)
           q == SourceAfter(p, b)
<1>n. len \in Nat
  BY Numbers
<1>1. /\ Passable(p, n) /\ ~Refused(p, n) /\ len + n <= MaxSize
      /\ c \in Capacities(n) /\ b \in Bases(n, c)
      /\ mem' = Copied(m, b, q, n)
      /\ len' = len + n /\ UNCHANGED <<arr, arrLen>>
  BY DEF Append
<1>2. Room(n, b, c, m)
  BY <1>1, MakesRoom
<1>3. PICK bb, cc, mm, qq : bb = b /\ cc = c /\ mm = m /\ qq = q
  OBVIOUS
<1> HIDE DEF b, c, m, q
<1>4. /\ Room(n, bb, cc, mm) /\ mem' = Copied(mm, bb, qq, n)
      /\ qq = SourceAfter(p, bb) /\ base' = bb /\ cap' = cc
  BY <1>1, <1>2, <1>3 DEF b, c, q
<1>5. bb \in Nat /\ Block(bb + len, n) \subseteq Addr
  <2>1. /\ bb \in Addr /\ cc \in (len + n)..MaxSize /\ Block(bb, cc) \subseteq Addr
    BY <1>4 DEF Room
  <2>2. bb \in Nat
    BY <2>1 DEF Addr
  <2>3. Block(bb + len, n) \subseteq Block(bb, cc)
    BY <1>n, <2>1, <2>2 DEF Block
  <2> QED BY <2>1, <2>2, <2>3
<1>6. \A a \in Addr \ Block(bb + len, n) : mem'[a] = mm[a]
  BY <1>4 DEF Copied
<1>7. \A i \in 0..(n - 1) : /\ mem'[(bb + len) + i] = mem[p + i]
                            /\ mem[p + i] \in Byte
  <2> TAKE i \in 0..(n - 1)
  <2>1. qq + i \in Addr /\ mm[qq + i] = mem[p + i] /\ mem[p + i] \in Byte
    BY <1>1, <1>4, SourceFollowed
  <2>2. /\ (bb + len) + i \in Block(bb + len, n)
        /\ ((bb + len) + i) - (bb + len) = i
    BY <1>n, <1>5 DEF Block
  <2>3. mem'[(bb + len) + i] = mm[qq + (((bb + len) + i) - (bb + len))]
    BY <1>4, <1>5, <2>2 DEF Copied
  <2> QED BY <2>1, <2>2, <2>3
<1>8. \A a \in Block(bb + len, n) : mem'[a] \in Byte
  <2> TAKE a \in Block(bb + len, n)
  <2>1. a - (bb + len) \in 0..(n - 1) /\ (bb + len) + (a - (bb + len)) = a
    BY <1>n, <1>5 DEF Block
  <2> QED BY <1>7, <2>1
<1>9. mem' \in [Addr -> Byte \cup {Junk}]
  <2>1. mem' = [a \in Addr |-> mem'[a]]
    BY <1>4 DEF Copied
  <2>2. \A a \in Addr : mem'[a] \in Byte \cup {Junk}
    BY <1>4, <1>6, <1>8 DEF Room
  <2> QED BY <2>1, <2>2
<1>10. Inv'
  BY <1>1, <1>4, <1>6, <1>8, <1>9, FilledInv
<1>11. /\ \A i \in 0..(len - 1) : mem'[bb + i] = mem[base + i]
       /\ \A a \in Foreign : mem'[a] = mem[a]
  <2>1. n \in Nat /\ Room(n, bb, cc, mm)
    BY <1>4
  <2> QED BY <2>1, <1>6, Untouched
<1> QED BY <1>4, <1>7, <1>10, <1>11

LEMMA ResizeEffect ==
  ASSUME Inv, NEW k \in Nat, NEW v \in Byte, Resize(k, v)
  PROVE  /\ Inv'
         /\ \A i \in 0..(len - 1) : i < len' => mem'[base' + i] = mem[base + i]
         /\ \A a \in Foreign : mem'[a] = mem[a]
<1>n. len \in Nat /\ cap \in Nat /\ len <= cap /\ base \in Nat
  BY Numbers
<1>1. CASE k <= len
  <2>1. UNCHANGED <<mem, base, cap, arr, arrLen>> /\ len' = k
    BY <1>1 DEF Resize
  <2>2. TypeOK'
    BY <1>1, <1>n, <2>1 DEF Inv, TypeOK
  <2>3. Own' = Own /\ Foreign' = Foreign
    BY <2>1 DEF Own, Foreign
  <2>4. Block(base', len') \subseteq Block(base, len)
    BY <1>1, <1>n, <2>1 DEF Block
  <2>5. BytesOwned'
    BY <2>1, <2>3, <2>4 DEF Inv, BytesOwned
  <2> QED BY <2>1, <2>2, <2>5 DEF Inv
<1>2. CASE ~(k <= len)
  <2> DEFINE b == base'
             c == cap'
             n == k - len
             m == Memory(n, b)
  <2>1. /\ n \in Nat \ {0} /\ len + n = k /\ len + n <= MaxSize
        /\ c \in Capacities(n) /\ b \in Bases(n, c)
        /\ mem' = Padded(m, b, k, v)
        /\ len' = len + n /\ UNCHANGED <<arr, arrLen>>
    BY <1>2, <1>n DEF Resize
  <2>2. Room(n, b, c, m)
    BY <2>1, MakesRoom
  <2>3. PICK bb, cc, mm, nn : bb = b /\ cc = c /\ mm = m /\ nn = n
    OBVIOUS
  <2> HIDE DEF b, c, m, n
  <2>4. /\ Room(nn, bb, cc, mm) /\ mem' = Padded(mm, bb, k, v)
        /\ base' = bb /\ cap' = cc /\ nn \in Nat /\ nn # 0 /\ len + nn = k
        /\ len' = len + nn
    BY <2>1, <2>2, <2>3 DEF b, c
  <2>5. /\ bb \in Addr /\ bb \in Nat
    BY <2>4 DEF Room, Addr
  <2>6. Block(bb + len, nn) = (bb + len)..(bb + k - 1)
    BY <1>n, <2>4, <2>5 DEF Block
  <2>7. \A a \in Addr \ Block(bb + len, nn) : mem'[a] = mm[a]
    BY <2>4, <2>6 DEF Padded
  <2>8. Block(bb + len, nn) \subseteq Addr
    <3>1. cc \in (len + nn)..MaxSize /\ Block(bb, cc) \subseteq Addr
      BY <2>4 DEF Room
    <3>2. Block(bb + len, nn) \subseteq Block(bb, cc)
      BY <1>n, <2>4, <2>5, <3>1 DEF Block
    <3> QED BY <3>1, <3>2
  <2>9. \A a \in Block(bb + len, nn) : mem'[a] \in Byte
    BY <2>4, <2>6, <2>8 DEF Padded
  <2>10. mem' \in [Addr -> Byte \cup {Junk}]
    <3>1. mem' = [a \in Addr |-> mem'[a]]
      BY <2>4 DEF Padded
    <3>2. \A a \in Addr : mem'[a] \in Byte \cup {Junk}
      BY <2>4, <2>7, <2>9 DEF Room
    <3> QED BY <3>1, <3>2
  <2>11. Inv'
    BY <2>1, <2>4, <2>7, <2>9, <2>10, FilledInv
  <2> QED BY <2>4, <2>7, <2>11, Untouched
<1> QED BY <1>1, <1>2

LEMMA ReserveEffect ==
  ASSUME Inv, NEW k \in Nat, Reserve(k)
  PROVE  /\ Inv'
         /\ \A i \in 0..(len - 1) : mem'[base' + i] = mem[base + i]
         /\ \A a \in Foreign : mem'[a] = mem[a]
<1>n. len \in Nat /\ cap \in Nat /\ len <= cap
  BY Numbers
<1>1. PICK b : b = base'
  OBVIOUS
<1>2. /\ k \in (len + 0)..MaxSize /\ b \in FreeFor(k) /\ mem' = Relocated(b)
      /\ base' = b /\ cap' = k /\ len' = len /\ UNCHANGED <<arr, arrLen>>
  BY <1>n, <1>1 DEF Reserve
<1>3. Room(0, b, k, Relocated(b))
  BY <1>2, Relocation
<1>4. b \in Nat /\ Block(b + len, 0) = {} /\ len + 0 = len
  BY <1>n, <1>3 DEF Room, Addr, Block
<1>5. mem' \in [Addr -> Byte \cup {Junk}]
  BY <1>2, <1>3 DEF Room
<1>6. Inv'
  BY <1>2, <1>3, <1>4, <1>5, FilledInv
<1> QED BY <1>2, <1>3, <1>6 DEF Room

LEMMA ClearInv == ASSUME Inv, Clear PROVE Inv'
<1>1. len' = 0 /\ UNCHANGED <<mem, base, cap, arr, arrLen>>
  BY DEF Clear
<1>2. TypeOK'
  BY <1>1 DEF Inv, TypeOK
<1>3. Own' = Own /\ Foreign' = Foreign /\ base \in Nat
  BY <1>1, Numbers DEF Own, Foreign
<1>4. Block(base', len') = {}
  BY <1>1, <1>3 DEF Block
<1> QED BY <1>1, <1>2, <1>3, <1>4 DEF Inv, BytesOwned

LEMMA TakeBufferInv ==
  ASSUME Inv, TakeBuffer
  PROVE  Inv' /\ \A a \in Foreign : mem'[a] = mem[a]
<1>1. /\ base' = 0 /\ cap' = 0 /\ len' = 0 /\ UNCHANGED <<arr, arrLen>>
      /\ mem' = [a \in Addr |-> IF a \in Own THEN Junk ELSE mem[a]]
  BY DEF TakeBuffer
<1>2. \A a \in Foreign : a \in Addr /\ mem'[a] = mem[a]
  BY <1>1 DEF Inv, BytesOwned, TakeBuffer
<1>3. TypeOK'
  BY <1>1 DEF Inv, TypeOK
<1>4. Own' = {} /\ Foreign' = Foreign /\ Block(base', len') = {}
  BY <1>1 DEF Own, Foreign, Block
<1> QED BY <1>1, <1>2, <1>3, <1>4 DEF Inv, BytesOwned

\* What every step does; the properties below are parts of it.
LEMMA StepEffect ==
  ASSUME Inv, [Next]_vars
  PROVE  /\ Inv'
         /\ \A i \in 0..(len - 1) : i < len' => mem'[base' + i] = mem[base + i]
         /\ \A a \in Foreign : mem'[a] = mem[a]
<1>n. len \in Nat /\ MaxSize \in Nat
  BY Numbers
<1>1. ASSUME NEW p \in Addr, NEW n \in 1..MaxSize, Append(p, n)
      PROVE  /\ Inv'
             /\ \A i \in 0..(len - 1) : i < len' => mem'[base' + i] = mem[base + i]
             /\ \A a \in Foreign : mem'[a] = mem[a]
  BY <1>n, <1>1, AppendEffect
<1>2. ASSUME NEW k \in 0..MaxSize, NEW v \in Byte, Resize(k, v)
      PROVE  /\ Inv'
             /\ \A i \in 0..(len - 1) : i < len' => mem'[base' + i] = mem[base + i]
             /\ \A a \in Foreign : mem'[a] = mem[a]
  BY <1>n, <1>2, ResizeEffect
<1>3. ASSUME NEW c \in 1..MaxSize, Reserve(c)
      PROVE  /\ Inv'
             /\ \A i \in 0..(len - 1) : i < len' => mem'[base' + i] = mem[base + i]
             /\ \A a \in Foreign : mem'[a] = mem[a]
  BY <1>n, <1>3, ReserveEffect
<1>4. CASE Clear
  BY <1>n, <1>4, ClearInv DEF Clear
<1>5. CASE TakeBuffer
  BY <1>n, <1>5, TakeBufferInv DEF TakeBuffer
<1>6. CASE UNCHANGED vars
  BY <1>6 DEF vars, Inv, TypeOK, BytesOwned, Own, Foreign
<1> QED BY <1>1, <1>2, <1>3, <1>4, <1>5, <1>6 DEF Next

\* TypeOK and BytesOwned are inductive together: the block of the buffer and
\* the array of the caller (byte_stream.hpp, buf_) lie inside the heap and
\* apart from each other in every reachable state.
THEOREM Invariance == Spec => []Inv
<1>1. Inv /\ [Next]_vars => Inv'
  BY StepEffect
<1> QED BY InitInv, <1>1, PTL DEF Spec

\* The size of the buffer never exceeds its capacity, nor that max_size().
THEOREM TypeCorrect == Spec => []TypeOK
<1>1. Inv => TypeOK
  BY DEF Inv
<1> QED BY <1>1, Invariance, PTL

\* The stream owns the bytes it holds: they lie in a block that nobody else
\* has, and none of them is what a freed or fresh block contains.
THEOREM BufferOwnsItsBytes == Spec => []BytesOwned
<1>1. Inv => BytesOwned
  BY DEF Inv
<1> QED BY <1>1, Invariance, PTL

\* The address tests of append_bytes judge every source right.
THEOREM SourcesAreJudged == Spec => []SourcesJudged
<1>1. ASSUME Inv PROVE SourcesJudged
  <2>n. /\ base \in Nat /\ cap \in Nat /\ len \in Nat /\ len <= cap /\ cap <= MaxSize
        /\ cap > 0 => base > 0 /\ base + cap - 1 <= Heap
    BY <1>1, Numbers
  <2> SUFFICES ASSUME NEW p \in Addr, NEW n \in 1..MaxSize
               PROVE  /\ Block(p, n) \subseteq Foreign => ~Refused(p, n)
                      /\ p \in Own => (Refused(p, n) <=> p + n > base + len)
    BY DEF SourcesJudged
  <2>1. p \in Nat /\ n \in Nat /\ n > 0
    BY DEF Addr
  <2>2. ASSUME Block(p, n) \subseteq Foreign PROVE ~Refused(p, n)
    <3>1. p \in Foreign
      BY <2>1, <2>2 DEF Block
    <3>2. p \notin Own
      BY <1>1, <3>1 DEF Inv, BytesOwned
    <3>3. ~(p >= base /\ p < base + cap)
      BY <2>n, <2>1, <3>2 DEF Own, Block
    <3>4. ~InBuffer(p)
      BY <3>3 DEF InBuffer
    <3>5. ~InReserve(p)
      BY <2>n, <2>1, <3>3 DEF InReserve
    <3> QED BY <3>4, <3>5 DEF Refused
  <2>3. ASSUME p \in Own PROVE Refused(p, n) <=> p + n > base + len
    <3>1. p >= base /\ p < base + cap /\ cap # 0
      BY <2>n, <2>1, <2>3 DEF Own, Block
    <3>2. CASE p <= base + len
      <4>1. InBuffer(p) /\ ~InReserve(p)
        BY <2>n, <2>1, <3>1, <3>2 DEF InBuffer, InReserve
      <4>2. n > len - (p - base) <=> p + n > base + len
        BY <2>n, <2>1
      <4> QED BY <4>1, <4>2 DEF Refused
    <3>3. CASE p > base + len
      <4>1. InReserve(p)
        BY <3>1, <3>3 DEF InReserve
      <4>2. p + n > base + len
        BY <2>n, <2>1, <3>3
      <4> QED BY <4>1, <4>2 DEF Refused
    <3> QED BY <2>n, <2>1, <3>2, <3>3
  <2> QED BY <2>2, <2>3
<1> QED BY <1>1, Invariance, PTL

\* No operation writes to memory that is not the stream's.
THEOREM ForeignIsUntouched == Spec => ForeignUntouched
<1> DEFINE Same == \A a \in Foreign : mem'[a] = mem[a]
<1>1. ASSUME Inv, [Next]_vars PROVE [Same]_vars
  BY <1>1, StepEffect
<1> HIDE DEF Same
<1>2. Spec => [][Same]_vars
  BY <1>1, Invariance, PTL DEF Spec
<1> QED BY <1>2 DEF Same, ForeignUntouched

\* The buffer's content is what the calls made it, for every heap: kept bytes
\* survive every relocation and an append adds what its source denoted,
\* whatever the source overlaps.
THEOREM ContentIsExact == Spec => ContentExact
<1> DEFINE Exact == /\ \A i \in 0..(len - 1) : i < len' => mem'[base' + i] = mem[base + i]
                    /\ \A p \in Addr, n \in 1..MaxSize : Append(p, n) =>
                         /\ len' = len + n
                         /\ \A i \in 0..(n - 1) : mem'[base' + len + i] = mem[p + i]
<1>1. ASSUME Inv, [Next]_vars PROVE [Exact]_vars
  <2>1. \A i \in 0..(len - 1) : i < len' => mem'[base' + i] = mem[base + i]
    BY <1>1, StepEffect
  <2>2. ASSUME NEW p \in Addr, NEW n \in 1..MaxSize, Append(p, n)
        PROVE  len' = len + n /\ \A i \in 0..(n - 1) : mem'[base' + len + i] = mem[p + i]
    <3>1. n \in Nat \ {0}
      OBVIOUS
    <3>2. len' = len + n
      BY <2>2 DEF Append
    <3> QED BY <1>1, <2>2, <3>1, <3>2, AppendEffect
  <2> QED BY <2>1, <2>2
<1> HIDE DEF Exact
<1>2. Spec => [][Exact]_vars
  BY <1>1, Invariance, PTL DEF Spec
<1> QED BY <1>2 DEF Exact, ContentExact
===========================================================================
