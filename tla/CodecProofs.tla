---------------------------- MODULE CodecProofs ----------------------------
(***************************************************************************)
(* Proofs about the codecs, for every universe of types, however deep the  *)
(* types are nested, and for streams and containers of every length.       *)
(***************************************************************************)
EXTENDS Codec, WellFoundedInduction, TLAPS

----------------------------------------------------------------------------
(* Induction.                                                              *)

\* A set of naturals that is not empty has a least element.
LEMMA LeastElement ==
  ASSUME NEW T \in SUBSET Nat, T # {}
  PROVE  \E x \in T : \A y \in T : x <= y
<1>1. PICK x \in T : \A y \in T : ~(<<y, x>> \in OpToRel(<, Nat))
  BY NatLessThanWellFounded, WFMin, Zenon
<1>2. \A y \in T : x <= y
  <2> SUFFICES ASSUME NEW y \in T PROVE x <= y
    OBVIOUS
  <2>1. ~(y < x)
    BY <1>1 DEF OpToRel
  <2> QED BY <2>1
<1> QED BY <1>2

\* What holds at 0 and from each number to the next holds up to N.
LEMMA Upwards ==
  ASSUME NEW N \in Nat, NEW T, 0 \in T, \A k \in 0..(N - 1) : k \in T => k + 1 \in T
  PROVE  \A k \in 0..N : k \in T
<1> SUFFICES ASSUME (0..N) \ T # {} PROVE FALSE
  OBVIOUS
<1>1. PICK x \in (0..N) \ T : \A y \in (0..N) \ T : x <= y
  <2>1. (0..N) \ T \in SUBSET Nat
    OBVIOUS
  <2> QED BY <2>1, LeastElement
<1>2. x # 0 /\ x - 1 \in 0..N /\ x - 1 \in 0..(N - 1)
  BY <1>1
<1>3. x - 1 \in T
  BY <1>1, <1>2
<1>4. (x - 1) + 1 = x
  BY <1>1
<1> QED BY <1>1, <1>2, <1>3, <1>4

----------------------------------------------------------------------------
(* The codecs, each made of those of its parts.                            *)

\* What CodecOf puts together.
LEMMA Parts ==
  ASSUME NEW t, NEW cs, NEW c, c = CodecOf(t, cs)
  PROVE  /\ c.fresh = Fresh(t, cs) /\ c.values = Values(t, cs) /\ c.whole = Whole(t, cs)
         /\ c.plain = {v \in c.values : Default \in Fits(t, cs, v, Default)}
         /\ \A v \in c.values : \A n \in Nat :
                /\ c.write[v][n] = Write(t, cs, v, n)
                /\ c.fits[v][n] = Fits(t, cs, v, n)
                /\ c.kept[v][n] = Kept(t, cs, v, n)
         /\ \A v \in c.values : \A s \in Seq(Bytes) : \A p \in Nat : \A n \in Nat :
                c.read[v][s][p][n] = Read(t, cs, v, s, p, n)
<1>1. /\ c.fresh = Fresh(t, cs) /\ c.values = Values(t, cs) /\ c.whole = Whole(t, cs)
      /\ c.plain = {v \in c.values : Default \in Fits(t, cs, v, Default)}
  BY DEF CodecOf
<1>2. ASSUME NEW v \in c.values, NEW n \in Nat
      PROVE  /\ c.write[v][n] = Write(t, cs, v, n)
             /\ c.fits[v][n] = Fits(t, cs, v, n)
             /\ c.kept[v][n] = Kept(t, cs, v, n)
  BY DEF CodecOf
<1>3. ASSUME NEW v \in c.values, NEW s \in Seq(Bytes), NEW p \in Nat, NEW n \in Nat
      PROVE  c.read[v][s][p][n] = Read(t, cs, v, s, p, n)
  BY DEF CodecOf
<1> QED BY <1>1, <1>2, <1>3

\* The types that are declared.
Universe == {Declared[i] : i \in DOMAIN Declared}

\* The codecs of the parts of t, as the table has them.
PartsOf(t) == [i \in 1..Len(t.of) |-> Codec[t.of[i]]]

\* The types, as the assumption has them.
LEMMA Declarations ==
  /\ Declared \in Seq(Universe) /\ Len(Declared) \in Nat
  /\ DOMAIN Declared = 1..Len(Declared) /\ Types \subseteq Universe
<1>1. Declared \in Seq(Universe) /\ Types \subseteq Universe
  BY CodecAssumption, Zenon DEF Universe
<1> QED BY <1>1

\* The bounds, as the assumption has them.
LEMMA Numbers ==
  /\ Group \in Nat /\ Group > 1 /\ Default \in Nat /\ Counts \subseteq 0..Default
  /\ MaxCount \in Nat /\ MaxLen \in Nat
BY CodecAssumption, Zenon

\* The parts of a type are declared before it.
LEMMA Before ==
  ASSUME NEW k \in 1..Len(Declared)
  PROVE  /\ Declared[k] \in Universe /\ WellFormed(Declared[k])
         /\ Declared[k].of \in Seq(Universe) /\ Len(Declared[k].of) \in Nat
         /\ \A i \in 1..Len(Declared[k].of) :
                \E j \in 1..(k - 1) : Declared[k].of[i] = Declared[j]
<1>1. k \in DOMAIN Declared
  BY Declarations
<1>2. Declared[k].of \in Seq({Declared[j] : j \in 1..(k - 1)}) /\ WellFormed(Declared[k])
  BY <1>1, CodecAssumption, Zenon
<1>3. {Declared[j] : j \in 1..(k - 1)} \subseteq Universe
  BY Declarations DEF Universe
<1>4. Declared[k] \in Universe
  BY <1>1 DEF Universe
<1> DEFINE of == Declared[k].of
<1>5. Len(of) \in Nat /\ \A i \in 1..Len(of) : of[i] \in {Declared[j] : j \in 1..(k - 1)}
  BY <1>2
<1>6. of \in Seq(Universe)
  BY <1>2, <1>3
<1> QED BY <1>2, <1>4, <1>5, <1>6

\* The table of codecs, one type after the other.
LEMMA TableIs ==
  /\ Table[0] = <<>>
  /\ \A n \in 0..(Len(Declared) - 1) :
        Table[n + 1] = [u \in DOMAIN Table[n] \cup {Declared[n + 1]} |->
                           IF u \in DOMAIN Table[n] THEN Table[n][u]
                           ELSE CodecOf(Declared[n + 1],
                                        [i \in 1..Len(Declared[n + 1].of) |->
                                            Table[n][Declared[n + 1].of[i]]])]
<1> DEFINE N == Len(Declared)
<1> DEFINE Step(k, known) ==
             [u \in DOMAIN known \cup {Declared[k]} |->
                 IF u \in DOMAIN known THEN known[u]
                 ELSE CodecOf(Declared[k],
                              [i \in 1..Len(Declared[k].of) |-> known[Declared[k].of[i]]])]
<1>1. N \in Nat
  BY Declarations
<1>2. Table = CHOOSE f : f = [k \in 0..N |-> IF k = 0 THEN <<>> ELSE Step(k, f[k - 1])]
  BY DEF Table
<1> HIDE DEF Step, N
<1> DEFINE Exists(n) == \E f : f = [k \in 0..n |-> IF k = 0 THEN <<>> ELSE Step(k, f[k - 1])]
<1> DEFINE T == {n \in Nat : Exists(n)}
<1>3. 0 \in T
  <2>1. [k \in 0..0 |-> <<>>] = [k \in 0..0 |-> IF k = 0 THEN <<>> ELSE Step(k, [j \in 0..0 |-> <<>>][k - 1])]
    OBVIOUS
  <2> QED BY <2>1
<1>4. ASSUME NEW n \in T PROVE n + 1 \in T
  <2>1. PICK f : f = [k \in 0..n |-> IF k = 0 THEN <<>> ELSE Step(k, f[k - 1])]
    BY <1>4
  <2> DEFINE h == [k \in 0..(n + 1) |-> IF k = n + 1 THEN Step(k, f[n]) ELSE f[k]]
  <2>2. ASSUME NEW k \in 0..(n + 1)
        PROVE  h[k] = IF k = 0 THEN <<>> ELSE Step(k, h[k - 1])
    <3>1. CASE k = n + 1
      BY <3>1
    <3>2. CASE k # n + 1
      BY <2>1, <3>2
    <3> QED BY <3>1, <3>2
  <2>3. h = [k \in 0..(n + 1) |-> IF k = 0 THEN <<>> ELSE Step(k, h[k - 1])]
    <3> HIDE DEF h
    <3>1. h = [k \in 0..(n + 1) |-> h[k]]
      BY DEF h
    <3> QED BY <2>2, <3>1
  <2> HIDE DEF h
  <2>4. Exists(n + 1)
    BY <2>3
  <2> HIDE DEF Exists
  <2> QED BY <1>4, <2>4
<1>5. N \in T
  <2> HIDE DEF T
  <2> QED BY <1>1, <1>3, <1>4, Upwards
<1>6. Table = [k \in 0..N |-> IF k = 0 THEN <<>> ELSE Step(k, Table[k - 1])]
  BY <1>2, <1>5
<1>7. Table[0] = <<>>
  BY <1>1, <1>6
<1>8. ASSUME NEW n \in 0..(N - 1) PROVE Table[n + 1] = Step(n + 1, Table[n])
  <2>1. n + 1 \in 0..N /\ n + 1 # 0 /\ (n + 1) - 1 = n
    BY <1>1
  <2> QED BY <1>6, <2>1
<1> QED BY <1>7, <1>8, Zenon DEF Step, N
\* The codecs of the first k types stay as they are.
LEMMA TableGrows ==
  ASSUME NEW k \in 0..Len(Declared)
  PROVE  /\ DOMAIN Table[k] = {Declared[i] : i \in 1..k}
         /\ \A t \in DOMAIN Table[k] :
                /\ \A i \in 1..Len(t.of) : t.of[i] \in DOMAIN Table[k]
                /\ Table[k][t] = CodecOf(t, [i \in 1..Len(t.of) |-> Table[k][t.of[i]]])
<1> DEFINE P(n) ==
             /\ DOMAIN Table[n] = {Declared[i] : i \in 1..n}
             /\ \A t \in DOMAIN Table[n] :
                    /\ \A i \in 1..Len(t.of) : t.of[i] \in DOMAIN Table[n]
                    /\ Table[n][t] = CodecOf(t, [i \in 1..Len(t.of) |-> Table[n][t.of[i]]])
<1> DEFINE T == {n \in Nat : P(n)}
<1>1. 0 \in T
  <2>1. Table[0] = <<>>
    BY TableIs, Zenon
  <2>2. DOMAIN Table[0] = {} /\ {Declared[i] : i \in 1..0} = {}
    BY <2>1
  <2> QED BY <2>2
<1>2. ASSUME NEW n \in 0..(Len(Declared) - 1), n \in T PROVE n + 1 \in T
  <2> DEFINE new == Declared[n + 1]
  <2> DEFINE old == Table[n]
  <2> DEFINE both == Table[n + 1]
  <2>1. n + 1 \in 1..Len(Declared) /\ (n + 1) - 1 = n /\ n + 1 \in Nat
    BY Declarations
  <2>2. both = [u \in DOMAIN old \cup {new} |->
                   IF u \in DOMAIN old THEN old[u]
                   ELSE CodecOf(new, [i \in 1..Len(new.of) |-> old[new.of[i]]])]
    BY <2>1, TableIs, Zenon
  <2>3. DOMAIN old = {Declared[i] : i \in 1..n}
    BY <1>2
  <2>4. DOMAIN both = {Declared[i] : i \in 1..(n + 1)}
    <3>1. 1..(n + 1) = 1..n \cup {n + 1}
      BY <2>1
    <3> QED BY <2>2, <2>3, <3>1, Zenon
  <2>5. ASSUME NEW t \in DOMAIN both
        PROVE  /\ \A i \in 1..Len(t.of) : t.of[i] \in DOMAIN old
               /\ both[t] = CodecOf(t, [i \in 1..Len(t.of) |-> old[t.of[i]]])
    <3>1. CASE t \in DOMAIN old
      BY <1>2, <2>2, <3>1, Zenon
    <3>2. CASE t \notin DOMAIN old
      <4>1. t = new
        BY <2>2, <3>2, Zenon
      <4>2. \A i \in 1..Len(t.of) : t.of[i] \in DOMAIN old
        <5>1. \A i \in 1..Len(new.of) : \E j \in 1..((n + 1) - 1) : new.of[i] = Declared[j]
          BY <2>1, Before
        <5> QED BY <2>1, <2>3, <4>1, <5>1, Zenon
      <4> DEFINE args(u) == [i \in 1..Len(u.of) |-> old[u.of[i]]]
      <4>3. both[new] = CodecOf(new, args(new))
        BY <2>2, <3>2, <4>1, Zenon
      <4>4. both[t] = CodecOf(t, args(t))
        <5> HIDE DEF args, new, old, both
        <5> QED BY <4>1, <4>3
      <4> QED BY <4>2, <4>4
    <3> QED BY <3>1, <3>2
  <2>6. ASSUME NEW t \in DOMAIN both
        PROVE  [i \in 1..Len(t.of) |-> old[t.of[i]]] = [i \in 1..Len(t.of) |-> both[t.of[i]]]
    BY <2>2, <2>5, Zenon
  <2>7. P(n + 1)
    <3> HIDE DEF old, both, new
    <3>1. DOMAIN old \subseteq DOMAIN both
      BY <2>2
    <3>2. ASSUME NEW t \in DOMAIN both
          PROVE  /\ \A i \in 1..Len(t.of) : t.of[i] \in DOMAIN both
                 /\ both[t] = CodecOf(t, [i \in 1..Len(t.of) |-> both[t.of[i]]])
      BY <2>5, <2>6, <3>1
    <3> QED BY <2>4, <3>2 DEF both
  <2> QED BY <2>1, <2>7
<1> HIDE DEF T
<1>3. Len(Declared) \in Nat
  BY Declarations
<1>4. k \in T
  BY <1>1, <1>2, <1>3, Upwards
<1> QED BY <1>4 DEF T

\* The codec of a type is made of those of its parts.
LEMMA Unfold ==
  ASSUME NEW t \in Universe
  PROVE  /\ Codec[t] = CodecOf(t, PartsOf(t))
         /\ WellFormed(t) /\ t.of \in Seq(Universe) /\ Len(t.of) \in Nat
<1>1. PICK k \in 1..Len(Declared) : t = Declared[k]
  BY Declarations DEF Universe
<1>2. Len(Declared) \in 0..Len(Declared)
  BY Declarations
<1>3. t \in DOMAIN Codec
  BY <1>1, <1>2, TableGrows DEF Codec
<1>4. Codec[t] = CodecOf(t, PartsOf(t))
  BY <1>2, <1>3, TableGrows DEF Codec, PartsOf
<1> QED BY <1>1, <1>4, Before

\* What a type has when its parts have it, all types have.
LEMMA AllTypes ==
  ASSUME NEW T,
         \A t \in Universe : (\A i \in 1..Len(t.of) : t.of[i] \in T) => t \in T
  PROVE  Universe \subseteq T
<1> DEFINE U == {k \in 1..Len(Declared) : Declared[k] \notin T}
<1> SUFFICES ASSUME U # {} PROVE FALSE
  BY Declarations DEF Universe
<1>1. PICK k \in U : \A j \in U : k <= j
  <2>1. U \in SUBSET Nat
    BY Declarations
  <2> HIDE DEF U
  <2> QED BY <2>1, LeastElement
<1>2. ASSUME NEW i \in 1..Len(Declared[k].of) PROVE Declared[k].of[i] \in T
  <2>1. PICK j \in 1..(k - 1) : Declared[k].of[i] = Declared[j]
    BY Before
  <2>2. j \in 1..Len(Declared) /\ j < k
    BY Declarations
  <2>3. j \notin U
    BY <1>1, <2>2
  <2> QED BY <2>1, <2>2, <2>3
<1>3. Declared[k] \in Universe
  BY Before
<1> QED BY <1>2, <1>3

----------------------------------------------------------------------------
(* The loops, each as the outcomes of its first rounds.                    *)

\* The rounds of the loops: each takes the outcome x of the one before.
MembersStep(cs, k, x) == {Append(v, w) : v \in x, w \in cs[k].values}
WriteStep(cs, vs, ns, k, x) == Then(x, cs[k].write[vs[k]][ns[k]])
ReadStep(cs, ns, s, k, x) ==
    LET r == cs[k].read[x.v[k]][s][x.pos][ns[k]]
    IN  IF x.err # "ok" THEN x ELSE [r EXCEPT !.v = [x.v EXCEPT ![k] = r.v]]
NumberStep(s, q, k, x) == (s[q - k + 1] % Group) + Group * x
PushStep(c, s, x) ==
    LET elem == c.read[c.fresh][s][x.pos][Default]
    IN  IF x.err # "ok" THEN x
        ELSE IF elem.err # "ok" THEN [elem EXCEPT !.v = x.v]
        ELSE IF Len(x.v) = MaxCount THEN Failed("bad_alloc", x.v, elem.pos)
        ELSE Done(Append(x.v, elem.v), elem.pos)

\* The sets of the sequences of the first values.
LEMMA MembersLoop ==
  ASSUME NEW cs, Len(cs) \in Nat
  PROVE  \E f : /\ Members(cs) = f[Len(cs)] /\ f[0] = {<<>>}
                /\ \A k \in 1..(Len(cs)) : f[k] = MembersStep(cs, k, f[k - 1])
<1> DEFINE start == {<<>>}
<1> DEFINE last_ == Len(cs)
<1> DEFINE Step(k, x) == MembersStep(cs, k, x)
<1> DEFINE Defines(n, f) == f = [k \in 0..n |-> IF k = 0 THEN start ELSE Step(k, f[k - 1])]
<1> DEFINE Exists(n) == \E f : Defines(n, f)
<1>1. Members(cs) = (CHOOSE f : Defines(last_, f))[last_]
  BY DEF Members, MembersStep
<1> HIDE DEF start
<1> DEFINE T == {n \in Nat : Exists(n)}
<1>2. 0 \in T
  <2>1. Defines(0, [k \in 0..0 |-> start])
    OBVIOUS
  <2> HIDE DEF Defines
  <2> QED BY <2>1
<1>3. ASSUME NEW n \in T PROVE n + 1 \in T
  <2>1. PICK f : Defines(n, f)
    BY <1>3
  <2> DEFINE h == [k \in 0..(n + 1) |-> IF k = n + 1 THEN Step(k, f[n]) ELSE f[k]]
  <2>2. ASSUME NEW k \in 0..(n + 1) PROVE h[k] = IF k = 0 THEN start ELSE Step(k, h[k - 1])
    <3> HIDE DEF Step
    <3>1. CASE k = n + 1
      BY <3>1
    <3>2. CASE k # n + 1
      BY <2>1, <3>2
    <3> QED BY <3>1, <3>2
  <2>3. Defines(n + 1, h)
    <3> HIDE DEF h, Step
    <3>1. h = [k \in 0..(n + 1) |-> h[k]]
      BY DEF h
    <3> QED BY <2>2, <3>1
  <2>4. Exists(n + 1)
    <3> HIDE DEF h, Defines
    <3> QED BY <2>3
  <2> HIDE DEF Exists
  <2> QED BY <1>3, <2>4
<1> HIDE DEF Step
<1>4. Exists(last_)
  <2> HIDE DEF Exists, T
  <2>1. \A k \in 0..last_ : k \in T
    BY <1>2, <1>3, Upwards
  <2> QED BY <2>1 DEF T
<1>5. PICK f : Defines(last_, f) /\ Members(cs) = f[last_]
  <2> HIDE DEF Defines, last_
  <2> QED BY <1>1, <1>4
<1>6. f[0] = start
  BY <1>5
<1>7. ASSUME NEW k \in 1..last_ PROVE f[k] = Step(k, f[k - 1])
  BY <1>5
<1>8. \A k \in 1..last_ : f[k] = MembersStep(cs, k, f[k - 1])
  BY <1>7 DEF Step
<1> QED BY <1>5, <1>6, <1>8 DEF start

\* What the first of them write.
LEMMA WriteLoop ==
  ASSUME NEW cs, NEW vs, NEW ns, Len(cs) \in Nat
  PROVE  \E f : /\ WriteAll(cs, vs, ns) = f[Len(cs)] /\ f[0] = Wrote(<<>>)
                /\ \A k \in 1..(Len(cs)) : f[k] = WriteStep(cs, vs, ns, k, f[k - 1])
<1> DEFINE last_ == Len(cs)
<1> DEFINE Step(k, x) == WriteStep(cs, vs, ns, k, x)
<1> DEFINE Defines(n, f) == f = [k \in 0..n |-> IF k = 0 THEN Wrote(<<>>) ELSE Step(k, f[k - 1])]
<1> DEFINE Exists(n) == \E f : Defines(n, f)
<1>1. WriteAll(cs, vs, ns) = (CHOOSE f : Defines(last_, f))[last_]
  BY DEF WriteAll, WriteStep
<1> DEFINE T == {n \in Nat : Exists(n)}
<1>2. 0 \in T
  <2>1. Defines(0, [k \in 0..0 |-> Wrote(<<>>)])
    OBVIOUS
  <2> HIDE DEF Defines
  <2> QED BY <2>1
<1>3. ASSUME NEW n \in T PROVE n + 1 \in T
  <2>1. PICK f : Defines(n, f)
    BY <1>3
  <2> DEFINE h == [k \in 0..(n + 1) |-> IF k = n + 1 THEN Step(k, f[n]) ELSE f[k]]
  <2>2. ASSUME NEW k \in 0..(n + 1) PROVE h[k] = IF k = 0 THEN Wrote(<<>>) ELSE Step(k, h[k - 1])
    <3> HIDE DEF Step
    <3>1. CASE k = n + 1
      BY <3>1
    <3>2. CASE k # n + 1
      BY <2>1, <3>2
    <3> QED BY <3>1, <3>2
  <2>3. Defines(n + 1, h)
    <3> HIDE DEF h, Step
    <3>1. h = [k \in 0..(n + 1) |-> h[k]]
      BY DEF h
    <3> QED BY <2>2, <3>1
  <2>4. Exists(n + 1)
    <3> HIDE DEF h, Defines
    <3> QED BY <2>3
  <2> HIDE DEF Exists
  <2> QED BY <1>3, <2>4
<1> HIDE DEF Step
<1>4. Exists(last_)
  <2> HIDE DEF Exists, T
  <2>1. \A k \in 0..last_ : k \in T
    BY <1>2, <1>3, Upwards
  <2> QED BY <2>1 DEF T
<1>5. PICK f : Defines(last_, f) /\ WriteAll(cs, vs, ns) = f[last_]
  <2> HIDE DEF Defines, last_
  <2> QED BY <1>1, <1>4
<1>6. f[0] = Wrote(<<>>)
  BY <1>5
<1>7. ASSUME NEW k \in 1..last_ PROVE f[k] = Step(k, f[k - 1])
  BY <1>5
<1>8. \A k \in 1..last_ : f[k] = WriteStep(cs, vs, ns, k, f[k - 1])
  BY <1>7 DEF Step
<1> QED BY <1>5, <1>6, <1>8

\* What the first of them read.
LEMMA ReadLoop ==
  ASSUME NEW cs, NEW vs, NEW ns, NEW s, NEW p, Len(cs) \in Nat
  PROVE  \E f : /\ ReadAll(cs, vs, ns, s, p) = f[Len(cs)] /\ f[0] = Done(vs, p)
                /\ \A k \in 1..(Len(cs)) : f[k] = ReadStep(cs, ns, s, k, f[k - 1])
<1> DEFINE last_ == Len(cs)
<1> DEFINE Step(k, x) == ReadStep(cs, ns, s, k, x)
<1> DEFINE Defines(n, f) == f = [k \in 0..n |-> IF k = 0 THEN Done(vs, p) ELSE Step(k, f[k - 1])]
<1> DEFINE Exists(n) == \E f : Defines(n, f)
<1>1. ReadAll(cs, vs, ns, s, p) = (CHOOSE f : Defines(last_, f))[last_]
  BY DEF ReadAll, ReadStep
<1> DEFINE T == {n \in Nat : Exists(n)}
<1>2. 0 \in T
  <2>1. Defines(0, [k \in 0..0 |-> Done(vs, p)])
    OBVIOUS
  <2> HIDE DEF Defines
  <2> QED BY <2>1
<1>3. ASSUME NEW n \in T PROVE n + 1 \in T
  <2>1. PICK f : Defines(n, f)
    BY <1>3
  <2> DEFINE h == [k \in 0..(n + 1) |-> IF k = n + 1 THEN Step(k, f[n]) ELSE f[k]]
  <2>2. ASSUME NEW k \in 0..(n + 1) PROVE h[k] = IF k = 0 THEN Done(vs, p) ELSE Step(k, h[k - 1])
    <3> HIDE DEF Step
    <3>1. CASE k = n + 1
      BY <3>1
    <3>2. CASE k # n + 1
      BY <2>1, <3>2
    <3> QED BY <3>1, <3>2
  <2>3. Defines(n + 1, h)
    <3> HIDE DEF h, Step
    <3>1. h = [k \in 0..(n + 1) |-> h[k]]
      BY DEF h
    <3> QED BY <2>2, <3>1
  <2>4. Exists(n + 1)
    <3> HIDE DEF h, Defines
    <3> QED BY <2>3
  <2> HIDE DEF Exists
  <2> QED BY <1>3, <2>4
<1> HIDE DEF Step
<1>4. Exists(last_)
  <2> HIDE DEF Exists, T
  <2>1. \A k \in 0..last_ : k \in T
    BY <1>2, <1>3, Upwards
  <2> QED BY <2>1 DEF T
<1>5. PICK f : Defines(last_, f) /\ ReadAll(cs, vs, ns, s, p) = f[last_]
  <2> HIDE DEF Defines, last_
  <2> QED BY <1>1, <1>4
<1>6. f[0] = Done(vs, p)
  BY <1>5
<1>7. ASSUME NEW k \in 1..last_ PROVE f[k] = Step(k, f[k - 1])
  BY <1>5
<1>8. \A k \in 1..last_ : f[k] = ReadStep(cs, ns, s, k, f[k - 1])
  BY <1>7 DEF Step
<1> QED BY <1>5, <1>6, <1>8

\* What the first rounds push back.
LEMMA PushLoop ==
  ASSUME NEW c, NEW s, NEW p, NEW count, count \in Nat
  PROVE  \E f : /\ PushBack(c, s, p, count) = f[count] /\ f[0] = Done(<<>>, p)
                /\ \A k \in 1..count : f[k] = PushStep(c, s, f[k - 1])
<1> DEFINE last_ == count
<1> DEFINE Step(k, x) == PushStep(c, s, x)
<1> DEFINE Defines(n, f) == f = [k \in 0..n |-> IF k = 0 THEN Done(<<>>, p) ELSE Step(k, f[k - 1])]
<1> DEFINE Exists(n) == \E f : Defines(n, f)
<1>1. PushBack(c, s, p, count) = (CHOOSE f : Defines(last_, f))[last_]
  BY DEF PushBack, PushStep
<1> DEFINE T == {n \in Nat : Exists(n)}
<1>2. 0 \in T
  <2>1. Defines(0, [k \in 0..0 |-> Done(<<>>, p)])
    OBVIOUS
  <2> HIDE DEF Defines
  <2> QED BY <2>1
<1>3. ASSUME NEW n \in T PROVE n + 1 \in T
  <2>1. PICK f : Defines(n, f)
    BY <1>3
  <2> DEFINE h == [k \in 0..(n + 1) |-> IF k = n + 1 THEN Step(k, f[n]) ELSE f[k]]
  <2>2. ASSUME NEW k \in 0..(n + 1) PROVE h[k] = IF k = 0 THEN Done(<<>>, p) ELSE Step(k, h[k - 1])
    <3> HIDE DEF Step
    <3>1. CASE k = n + 1
      BY <3>1
    <3>2. CASE k # n + 1
      BY <2>1, <3>2
    <3> QED BY <3>1, <3>2
  <2>3. Defines(n + 1, h)
    <3> HIDE DEF h, Step
    <3>1. h = [k \in 0..(n + 1) |-> h[k]]
      BY DEF h
    <3> QED BY <2>2, <3>1
  <2>4. Exists(n + 1)
    <3> HIDE DEF h, Defines
    <3> QED BY <2>3
  <2> HIDE DEF Exists
  <2> QED BY <1>3, <2>4
<1> HIDE DEF Step
<1>4. Exists(last_)
  <2> HIDE DEF Exists, T
  <2>1. \A k \in 0..last_ : k \in T
    BY <1>2, <1>3, Upwards
  <2> QED BY <2>1 DEF T
<1>5. PICK f : Defines(last_, f) /\ PushBack(c, s, p, count) = f[last_]
  <2> HIDE DEF Defines, last_
  <2> QED BY <1>1, <1>4
<1>6. f[0] = Done(<<>>, p)
  BY <1>5
<1>7. ASSUME NEW k \in 1..last_ PROVE f[k] = Step(k, f[k - 1])
  BY <1>5
<1>8. \A k \in 1..last_ : f[k] = PushStep(c, s, f[k - 1])
  BY <1>7 DEF Step
<1> QED BY <1>5, <1>6, <1>8

\* The groups of a compact integer, from the last.
LEMMA NumberLoop ==
  ASSUME NEW s, NEW p \in Nat, NEW q \in Nat, p <= q
  PROVE  \E f : /\ Number(s, p, q) = f[q - p] /\ f[0] = 0
                /\ \A k \in 1..(q - p) : f[k] = NumberStep(s, q, k, f[k - 1])
<1> DEFINE last_ == q - p
<1> DEFINE Step(k, x) == NumberStep(s, q, k, x)
<1> DEFINE Defines(n, f) == f = [k \in 0..n |-> IF k = 0 THEN 0 ELSE Step(k, f[k - 1])]
<1> DEFINE Exists(n) == \E f : Defines(n, f)
<1>1. Number(s, p, q) = (CHOOSE f : Defines(last_, f))[last_]
  BY DEF Number, NumberStep
<1> DEFINE T == {n \in Nat : Exists(n)}
<1>2. 0 \in T
  <2>1. Defines(0, [k \in 0..0 |-> 0])
    OBVIOUS
  <2> HIDE DEF Defines
  <2> QED BY <2>1
<1>3. ASSUME NEW n \in T PROVE n + 1 \in T
  <2>1. PICK f : Defines(n, f)
    BY <1>3
  <2> DEFINE h == [k \in 0..(n + 1) |-> IF k = n + 1 THEN Step(k, f[n]) ELSE f[k]]
  <2>2. ASSUME NEW k \in 0..(n + 1) PROVE h[k] = IF k = 0 THEN 0 ELSE Step(k, h[k - 1])
    <3> HIDE DEF Step
    <3>1. CASE k = n + 1
      BY <3>1
    <3>2. CASE k # n + 1
      BY <2>1, <3>2
    <3> QED BY <3>1, <3>2
  <2>3. Defines(n + 1, h)
    <3> HIDE DEF h, Step
    <3>1. h = [k \in 0..(n + 1) |-> h[k]]
      BY DEF h
    <3> QED BY <2>2, <3>1
  <2>4. Exists(n + 1)
    <3> HIDE DEF h, Defines
    <3> QED BY <2>3
  <2> HIDE DEF Exists
  <2> QED BY <1>3, <2>4
<1> HIDE DEF Step
<1>4. Exists(last_)
  <2> HIDE DEF Exists, T
  <2>1. \A k \in 0..last_ : k \in T
    BY <1>2, <1>3, Upwards
  <2> QED BY <2>1 DEF T
<1>5. PICK f : Defines(last_, f) /\ Number(s, p, q) = f[last_]
  <2> HIDE DEF Defines, last_
  <2> QED BY <1>1, <1>4
<1>6. f[0] = 0
  BY <1>5
<1>7. ASSUME NEW k \in 1..last_ PROVE f[k] = Step(k, f[k - 1])
  BY <1>5
<1>8. \A k \in 1..last_ : f[k] = NumberStep(s, q, k, f[k - 1])
  BY <1>7 DEF Step
<1> QED BY <1>5, <1>6, <1>8

\* Quotient and remainder are determined by the division they solve.
LEMMA DivideOnce ==
  ASSUME NEW v \in Nat, NEW d \in Nat \ {0}, NEW q \in Int, NEW r \in 0..(d - 1), v = d * q + r
  PROVE  v \div d = q /\ v % d = r
<1>1. v = d * (v \div d) + (v % d) /\ v \div d \in Int /\ v % d \in 0..(d - 1)
  OBVIOUS
<1>2. PICK a \in Int, b \in 0..(d - 1) : a = v \div d /\ b = v % d
  BY <1>1
<1>3. d * (a - q) = r - b
  BY <1>1, <1>2
<1>4. PICK e \in Int : e = a - q
  OBVIOUS
<1>5. d * e < d /\ d * e > -d
  BY <1>3, <1>4
<1>6. e = 0
  <2>1. CASE e >= 1
    <3>1. d * e >= d
      BY <2>1
    <3> QED BY <1>5, <3>1
  <2>2. CASE e <= -1
    <3>1. d * e <= -d
      BY <2>2
    <3> QED BY <1>5, <3>1
  <2> QED BY <2>1, <2>2
<1> QED BY <1>2, <1>3, <1>4, <1>6

\* What is left of a number without its first group.
LEMMA Quotient ==
  ASSUME NEW v \in Nat
  PROVE  /\ v % Group \in 0..(Group - 1) /\ v \div Group \in Nat
         /\ v = Group * (v \div Group) + (v % Group)
         /\ v >= Group => v \div Group < v /\ v \div Group >= 1
<1>1. Group \in Nat /\ Group > 1
  BY Numbers
<1>2. v = Group * (v \div Group) + (v % Group) /\ v % Group \in 0..(Group - 1)
      /\ v \div Group \in Int
  BY <1>1
<1>3. PICK q \in Int, r \in 0..(Group - 1) : q = v \div Group /\ r = v % Group
  BY <1>2
<1>4. v = Group * q + r
  BY <1>2, <1>3
<1>5. q >= 0
  <2>1. CASE q <= -1
    <3>1. Group * q <= -Group
      BY <1>1, <2>1
    <3> QED BY <1>1, <1>4, <3>1
  <2> QED BY <2>1
<1>6. ASSUME v >= Group PROVE q >= 1 /\ q < v
  <2>1. q >= 1
    <3>1. CASE q = 0
      BY <1>1, <1>4, <1>6, <3>1
    <3> QED BY <1>5, <3>1
  <2>2. Group * q >= 2 * q
    BY <1>1, <2>1
  <2> QED BY <1>1, <1>4, <2>1, <2>2
<1> QED BY <1>2, <1>3, <1>5, <1>6

\* One round of write_compact_uint.
LEMMA WriteCompactIs ==
  ASSUME NEW v \in Nat
  PROVE  WriteCompact[v] = IF v < Group THEN <<v>>
                           ELSE <<(v % Group) + Group>> \o WriteCompact[v \div Group]
<1> DEFINE Step(u, x) == IF u < Group THEN <<u>> ELSE <<(u % Group) + Group>> \o x
<1> DEFINE Defines(S, f) == f = [u \in S |-> Step(u, f[u \div Group])]
<1>1. WriteCompact = CHOOSE f : Defines(Nat, f)
  BY DEF WriteCompact
<1> DEFINE Ends1(u) == u < Group
<1>2. \A u \in Nat : \A x, y : Ends1(u) => Step(u, x) = Step(u, y)
  OBVIOUS
<1>3. \A u \in Nat : ~Ends1(u) => u \div Group \in Nat /\ u \div Group < u
  <2>1. Group \in Nat
    BY Numbers
  <2> QED BY <2>1, Quotient
<1> HIDE DEF Step, Ends1
<1> DEFINE Begin(n, f) == Defines(0..n, f)
<1> DEFINE Exists(n) == \E f : Begin(n, f)
<1> DEFINE T == {n \in Nat : Exists(n)}
<1>4. 0 \in T
  <2> DEFINE f == [u \in 0..0 |-> Step(u, <<>>)]
  <2>1. ASSUME NEW u \in 0..0 PROVE f[u] = Step(u, f[u \div Group])
    <3>1. Ends1(u)
      BY <1>3
    <3> QED BY <1>2, <3>1
  <2>2. f = [u \in 0..0 |-> f[u]]
    OBVIOUS
  <2>3. Begin(0, f)
    <3> HIDE DEF f
    <3> QED BY <2>1, <2>2
  <2> HIDE DEF Begin, f
  <2> QED BY <2>3
<1>5. ASSUME NEW n \in T PROVE n + 1 \in T
  <2>1. PICK f : Begin(n, f)
    BY <1>5
  <2> DEFINE h == [u \in 0..(n + 1) |-> IF u = n + 1 THEN Step(u, f[u \div Group]) ELSE f[u]]
  <2>2. ASSUME NEW u \in 0..(n + 1) PROVE h[u] = Step(u, h[u \div Group])
    <3>1. h[u] = Step(u, f[u \div Group])
      BY <2>1
    <3>2. CASE Ends1(u)
      BY <1>2, <3>1, <3>2
    <3>3. CASE ~Ends1(u)
      <4>1. PICK w : w = u \div Group
        OBVIOUS
      <4>2. w \in 0..(n + 1) /\ w # n + 1
        BY <1>3, <3>3, <4>1
      <4>3. h[w] = f[w]
        BY <4>2
      <4> HIDE DEF h
      <4> QED BY <3>1, <4>1, <4>3
    <3> QED BY <3>2, <3>3
  <2>3. h = [u \in 0..(n + 1) |-> h[u]]
    OBVIOUS
  <2>4. Begin(n + 1, h)
    <3> HIDE DEF h
    <3> QED BY <2>2, <2>3
  <2> HIDE DEF Begin, h
  <2> QED BY <1>5, <2>4
<1>6. \A n \in Nat : Exists(n)
  <2> SUFFICES ASSUME NEW n \in Nat PROVE Exists(n)
    OBVIOUS
  <2> HIDE DEF T, Exists
  <2>1. \A k \in 0..n : k \in T
    BY <1>4, <1>5, Upwards
  <2> QED BY <2>1 DEF T
<1>7. ASSUME NEW m \in Nat, NEW n \in Nat, NEW f, NEW g, Begin(m, f), Begin(n, g)
      PROVE  \A u \in Nat : u <= m /\ u <= n => f[u] = g[u]
  <2> DEFINE D == {u \in Nat : u <= m /\ u <= n /\ f[u] # g[u]}
  <2> SUFFICES ASSUME D # {} PROVE FALSE
    OBVIOUS
  <2>1. PICK u \in D : \A x \in D : u <= x
    <3>1. D \in SUBSET Nat
      OBVIOUS
    <3> HIDE DEF D
    <3> QED BY <3>1, LeastElement
  <2>2. u \in 0..m /\ u \in 0..n
    OBVIOUS
  <2>3. f[u] = Step(u, f[u \div Group]) /\ g[u] = Step(u, g[u \div Group])
    BY <1>7, <2>2
  <2>4. CASE Ends1(u)
    BY <1>2, <2>3, <2>4
  <2>5. CASE ~Ends1(u)
    <3>1. PICK w \in Nat : w = u \div Group /\ w < u
      BY <1>3, <2>5
    <3>2. w \notin D
      BY <2>1, <3>1
    <3>3. f[w] = g[w]
      BY <2>2, <3>1, <3>2
    <3> QED BY <2>3, <3>1, <3>3
  <2> QED BY <2>4, <2>5
<1> DEFINE F == [n \in Nat |-> (CHOOSE f : Begin(n, f))[n]]
<1>8. ASSUME NEW n \in Nat PROVE \E f : Begin(n, f) /\ F[n] = f[n]
  <2> HIDE DEF Begin
  <2>1. Begin(n, CHOOSE f : Begin(n, f))
    BY <1>6
  <2> QED BY <2>1
<1>9. ASSUME NEW n \in Nat PROVE F[n] = Step(n, F[n \div Group])
  <2> HIDE DEF F
  <2>1. PICK f : Begin(n, f) /\ F[n] = f[n]
    BY <1>8
  <2>2. F[n] = Step(n, f[n \div Group])
    BY <2>1
  <2>3. CASE Ends1(n)
    BY <1>2, <2>2, <2>3
  <2>4. CASE ~Ends1(n)
    <3>1. PICK w \in Nat : w = n \div Group /\ w < n
      BY <1>3, <2>4
    <3>2. PICK g : Begin(w, g) /\ F[w] = g[w]
      BY <1>8, <3>1
    <3>3. f[w] = g[w]
      <4> HIDE DEF Begin
      <4> QED BY <1>7, <2>1, <3>1, <3>2
    <3> QED BY <2>2, <3>1, <3>2, <3>3
  <2> QED BY <2>3, <2>4
<1>10. Defines(Nat, F)
  <2>1. F = [n \in Nat |-> F[n]]
    OBVIOUS
  <2> HIDE DEF F
  <2> QED BY <1>9, <2>1
<1>11. Defines(Nat, WriteCompact)
  <2> HIDE DEF Defines
  <2> QED BY <1>1, <1>10
<1>12. WriteCompact[v] = Step(v, WriteCompact[v \div Group])
  BY <1>11
<1> QED BY <1>12 DEF Step

----------------------------------------------------------------------------
(* Sequences.                                                              *)

\* A byte and what follows it.
LEMMA Prefixed ==
  ASSUME NEW S, NEW a \in S, NEW w \in Seq(S)
  PROVE  /\ <<a>> \o w \in Seq(S) /\ Len(<<a>> \o w) = Len(w) + 1 /\ (<<a>> \o w)[1] = a
         /\ \A i \in 1..Len(w) : (<<a>> \o w)[i + 1] = w[i]
OBVIOUS

\* What is appended follows what was there.
LEMMA Joined ==
  ASSUME NEW S, NEW v \in Seq(S), NEW w \in Seq(S)
  PROVE  /\ v \o w \in Seq(S) /\ Len(v \o w) = Len(v) + Len(w)
         /\ \A i \in 1..Len(v) : (v \o w)[i] = v[i]
         /\ \A i \in 1..Len(w) : (v \o w)[Len(v) + i] = w[i]
OBVIOUS

\* Sequences with the same elements are the same.
LEMMA SameSequence ==
  ASSUME NEW S, NEW R, NEW v \in Seq(S), NEW w \in Seq(R), Len(v) = Len(w),
         \A i \in 1..Len(v) : v[i] = w[i]
  PROVE  v = w
OBVIOUS

\* A stretch of a sequence.
LEMMA Stretch ==
  ASSUME NEW S, NEW s \in Seq(S), NEW p \in Nat, NEW q \in Nat, p <= q, q <= Len(s)
  PROVE  /\ SubSeq(s, p + 1, q) \in Seq(S) /\ Len(SubSeq(s, p + 1, q)) = q - p
         /\ \A i \in 1..(q - p) : SubSeq(s, p + 1, q)[i] = s[p + i]
OBVIOUS

\* Two stretches that meet.
LEMMA StretchesMeet ==
  ASSUME NEW S, NEW s \in Seq(S), NEW p \in Nat, NEW q \in Nat, NEW r \in Nat,
         p <= q, q <= r, r <= Len(s)
  PROVE  SubSeq(s, p + 1, q) \o SubSeq(s, q + 1, r) = SubSeq(s, p + 1, r)
<1>1. PICK a, b, c : a = SubSeq(s, p + 1, q) /\ b = SubSeq(s, q + 1, r) /\ c = SubSeq(s, p + 1, r)
  OBVIOUS
<1>2. a \in Seq(S) /\ Len(a) = q - p /\ \A i \in 1..(q - p) : a[i] = s[p + i]
  BY <1>1
<1>3. b \in Seq(S) /\ Len(b) = r - q /\ \A i \in 1..(r - q) : b[i] = s[q + i]
  BY <1>1
<1>4. c \in Seq(S) /\ Len(c) = r - p /\ \A i \in 1..(r - p) : c[i] = s[p + i]
  BY <1>1
<1>5. PICK d : d = a \o b
  OBVIOUS
<1>6. /\ d \in Seq(S) /\ Len(d) = r - p
      /\ \A i \in 1..(q - p) : d[i] = a[i]
      /\ \A i \in 1..(r - q) : d[(q - p) + i] = b[i]
  BY <1>2, <1>3, <1>5, SMTT(30)
<1>7. ASSUME NEW i \in 1..(r - p) PROVE d[i] = c[i]
  <2>1. CASE i <= q - p
    BY <1>2, <1>4, <1>6, <2>1
  <2>2. CASE i > q - p
    <3>1. PICK j \in 1..(r - q) : i = (q - p) + j
      <4>1. i - (q - p) \in 1..(r - q) /\ i = (q - p) + (i - (q - p))
        BY <2>2
      <4> QED BY <4>1
    <3>2. q + j = p + i
      BY <3>1
    <3> QED BY <1>3, <1>4, <1>6, <3>1, <3>2
  <2> QED BY <2>1, <2>2
<1>8. d = c
  BY <1>4, <1>6, <1>7
<1> QED BY <1>1, <1>5, <1>8

----------------------------------------------------------------------------
(* Compact integers.                                                       *)

\* A number and that of its groups but the first.
LEMMA NumberIs ==
  ASSUME NEW s \in Seq(Bytes), NEW p \in Nat, NEW q \in Nat, p <= q, q <= Len(s)
  PROVE  /\ Number(s, p, q) \in Nat /\ (p = q => Number(s, p, q) = 0)
         /\ p < q => Number(s, p, q) = (s[p + 1] % Group) + Group * Number(s, p + 1, q)
<1>1. q - p \in Nat
  OBVIOUS
<1>2. PICK f : /\ Number(s, p, q) = f[q - p] /\ f[0] = 0
               /\ \A k \in 1..(q - p) : f[k] = NumberStep(s, q, k, f[k - 1])
  BY NumberLoop
<1>3. ASSUME NEW j \in 1..Len(s) PROVE s[j] % Group \in Nat
  <2>1. s[j] \in Nat /\ Group \in Nat /\ Group > 1
    BY Numbers DEF Bytes
  <2> QED BY <2>1
<1> DEFINE T == {k \in 0..(q - p) : f[k] \in Nat}
<1>4. ASSUME NEW k \in 0..(q - p - 1), k \in T PROVE k + 1 \in T
  <2>1. k + 1 \in 1..(q - p) /\ (k + 1) - 1 = k /\ q - (k + 1) + 1 \in 1..Len(s) /\ f[k] \in Nat
    BY <1>4
  <2>2. f[k + 1] = (s[q - (k + 1) + 1] % Group) + Group * f[k]
    BY <1>2, <2>1 DEF NumberStep
  <2>3. Group * f[k] \in Nat
    BY <2>1, Numbers
  <2> QED BY <1>3, <2>1, <2>2, <2>3
<1>5. ASSUME NEW k \in 0..(q - p) PROVE f[k] \in Nat
  <2>1. 0 \in T
    BY <1>2
  <2> HIDE DEF T
  <2>2. k \in T
    BY <1>1, <1>4, <2>1, Upwards
  <2> QED BY <2>2 DEF T
<1>6. ASSUME p < q PROVE Number(s, p, q) = (s[p + 1] % Group) + Group * Number(s, p + 1, q)
  <2>1. p + 1 \in Nat /\ p + 1 <= q
    BY <1>6
  <2>2. PICK g : /\ Number(s, p + 1, q) = g[q - (p + 1)] /\ g[0] = 0
                 /\ \A k \in 1..(q - (p + 1)) : g[k] = NumberStep(s, q, k, g[k - 1])
    BY <2>1, NumberLoop
  <2> DEFINE U == {k \in 0..(q - p - 1) : f[k] = g[k]}
  <2>3. ASSUME NEW k \in 0..((q - p - 1) - 1), k \in U PROVE k + 1 \in U
    <3>1. k + 1 \in 1..(q - p) /\ (k + 1) - 1 = k /\ k + 1 \in 1..(q - (p + 1)) /\ f[k] = g[k]
      BY <2>3
    <3> QED BY <1>2, <2>2, <3>1
  <2>4. q - p - 1 \in U
    <3>1. 0 \in U /\ q - p - 1 \in Nat
      BY <1>2, <1>6, <2>2
    <3> HIDE DEF U
    <3>2. \A k \in 0..(q - p - 1) : k \in U
      BY <2>3, <3>1, Upwards
    <3> QED BY <3>1, <3>2
  <2>5. q - p \in 1..(q - p) /\ q - (q - p) + 1 = p + 1 /\ (q - p) - 1 = q - (p + 1)
        /\ q - p - 1 = q - (p + 1)
    BY <1>6
  <2>6. f[q - p] = (s[p + 1] % Group) + Group * f[q - (p + 1)]
    <3>1. f[q - p] = NumberStep(s, q, q - p, f[(q - p) - 1])
      BY <1>2, <2>5
    <3> QED BY <2>5, <3>1 DEF NumberStep
  <2> QED BY <1>2, <2>2, <2>4, <2>5, <2>6
<1>7. p = q => Number(s, p, q) = 0
  BY <1>2
<1>8. q - p \in 0..(q - p)
  OBVIOUS
<1> QED BY <1>2, <1>5, <1>6, <1>7, <1>8

\* The groups of a number: all but the last announce another, and the last
\* is not empty unless it is alone.
LEMMA Groups ==
  ASSUME NEW v \in Nat
  PROVE  LET w == WriteCompact[v]
         IN  /\ w \in Seq(Bytes) /\ Len(w) \in Nat \ {0} /\ w[Len(w)] < Group
             /\ \A i \in 1..(Len(w) - 1) : w[i] >= Group
             /\ Len(w) > 1 => w[Len(w)] # 0
             /\ v > 0 => w[Len(w)] # 0
<1> DEFINE P(x) == /\ WriteCompact[x] \in Seq(Bytes) /\ Len(WriteCompact[x]) \in Nat \ {0}
                   /\ WriteCompact[x][Len(WriteCompact[x])] < Group
                   /\ \A i \in 1..(Len(WriteCompact[x]) - 1) : WriteCompact[x][i] >= Group
                   /\ Len(WriteCompact[x]) > 1 => WriteCompact[x][Len(WriteCompact[x])] # 0
                   /\ x > 0 => WriteCompact[x][Len(WriteCompact[x])] # 0
<1> DEFINE T == {x \in Nat : ~P(x)}
<1> SUFFICES ASSUME T # {} PROVE FALSE
  OBVIOUS
<1>1. PICK x \in T : \A y \in T : x <= y
  <2>1. T \in SUBSET Nat
    OBVIOUS
  <2> HIDE DEF T
  <2> QED BY <2>1, LeastElement
<1>2. x \in Nat /\ Group \in Nat /\ Group > 1
  BY Numbers
<1>3. CASE x < Group
  <2>1. WriteCompact[x] = <<x>>
    BY <1>2, <1>3, WriteCompactIs
  <2>2. x \in Bytes
    BY <1>2, <1>3 DEF Bytes
  <2>3. P(x)
    BY <1>2, <1>3, <2>1, <2>2
  <2> QED BY <2>3
<1>4. CASE x >= Group
  <2>1. PICK y \in Nat : y = x \div Group /\ y < x /\ y >= 1
    BY <1>2, <1>4, Quotient
  <2>2. PICK a \in Bytes : a = (x % Group) + Group /\ a >= Group
    <3>1. PICK m \in 0..(Group - 1) : m = x % Group
      BY <1>2, Quotient
    <3>2. m + Group \in Bytes /\ m + Group >= Group
      BY <1>2 DEF Bytes
    <3> QED BY <3>1, <3>2
  <2>3. P(y)
    BY <1>1, <2>1
  <2>4. PICK w \in Seq(Bytes) : w = WriteCompact[y]
    BY <2>3
  <2>5. WriteCompact[x] = <<a>> \o w
    <3>1. ~(x < Group)
      BY <1>2, <1>4
    <3> QED BY <1>2, <2>1, <2>2, <2>4, <3>1, WriteCompactIs
  <2>6. /\ <<a>> \o w \in Seq(Bytes) /\ Len(<<a>> \o w) = Len(w) + 1 /\ (<<a>> \o w)[1] = a
        /\ \A i \in 1..Len(w) : (<<a>> \o w)[i + 1] = w[i]
    BY Prefixed
  <2>7. PICK z : z = <<a>> \o w
    OBVIOUS
  <2>8. Len(w) \in Nat \ {0} /\ w[Len(w)] < Group /\ w[Len(w)] # 0
        /\ \A i \in 1..(Len(w) - 1) : w[i] >= Group
    BY <2>1, <2>3, <2>4
  <2>9. ASSUME NEW i \in 1..(Len(z) - 1) PROVE z[i] >= Group
    <3>1. CASE i = 1
      BY <2>2, <2>6, <2>7, <3>1
    <3>2. CASE i # 1
      <4>1. PICK j \in 1..(Len(w) - 1) : i = j + 1
        <5>1. i - 1 \in 1..(Len(w) - 1) /\ i = (i - 1) + 1
          BY <2>6, <2>7, <2>8, <3>2
        <5> QED BY <5>1
      <4>2. j \in 1..Len(w)
        BY <2>8
      <4> QED BY <2>6, <2>7, <2>8, <4>1, <4>2
    <3> QED BY <3>1, <3>2
  <2>10. Len(z) = Len(w) + 1 /\ z[Len(z)] = w[Len(w)] /\ z \in Seq(Bytes)
    BY <2>6, <2>7, <2>8
  <2>11. P(x)
    <3>1. z = WriteCompact[x]
      BY <2>5, <2>7
    <3> QED BY <2>8, <2>9, <2>10, <3>1
  <2> QED BY <2>11
<1> QED BY <1>2, <1>3, <1>4

\* The bytes of b stand in s behind p, or as many of them as s has left.
Stands(b, s, p) == Len(b) <= Len(s) - p /\ \A i \in 1..Len(b) : s[p + i] = b[i]
Cut(b, s, p) == Len(s) - p < Len(b) /\ \A i \in 1..(Len(s) - p) : s[p + i] = b[i]

\* The number that its groups denote.
LEMMA NumberBack ==
  ASSUME NEW v \in Nat, NEW s \in Seq(Bytes), NEW p \in 0..Len(s), Stands(WriteCompact[v], s, p)
  PROVE  Number(s, p, p + Len(WriteCompact[v])) = v
<1> DEFINE P(x) == \A o \in 0..Len(s) :
             Stands(WriteCompact[x], s, o) => Number(s, o, o + Len(WriteCompact[x])) = x
<1> DEFINE T == {x \in Nat : ~P(x)}
<1> SUFFICES ASSUME T # {} PROVE FALSE
  OBVIOUS
<1>1. PICK x \in T : \A y \in T : x <= y
  <2>1. T \in SUBSET Nat
    OBVIOUS
  <2> HIDE DEF T
  <2> QED BY <2>1, LeastElement
<1>4. ~P(x) /\ \A y \in Nat : y < x => P(y)
  <2> HIDE DEF P
  <2> QED BY <1>1
<1> HIDE DEF T, P
<1>2. x \in Nat /\ Group \in Nat /\ Group > 1
  BY <1>1, Numbers DEF T
<1>3. ASSUME NEW o \in 0..Len(s), Stands(WriteCompact[x], s, o)
      PROVE  Number(s, o, o + Len(WriteCompact[x])) = x
  <2>1. CASE x < Group
    <3>1. WriteCompact[x] = <<x>>
      BY <1>2, <2>1, WriteCompactIs
    <3>2. s[o + 1] = x /\ o + 1 <= Len(s)
      <4>1. Stands(<<x>>, s, o)
        BY <1>3, <3>1
      <4> QED BY <4>1 DEF Stands
    <3>3. Number(s, o, o + 1) = (s[o + 1] % Group) + Group * Number(s, o + 1, o + 1)
      BY <3>2, NumberIs
    <3>4. Number(s, o + 1, o + 1) = 0
      <4>1. o + 1 \in Nat /\ o + 1 <= o + 1
        OBVIOUS
      <4> QED BY <3>2, <4>1, NumberIs
    <3>5. x % Group = x
      BY <1>2, <2>1
    <3>6. Len(WriteCompact[x]) = 1
      BY <3>1
    <3> QED BY <1>2, <3>2, <3>3, <3>4, <3>5, <3>6
  <2>2. CASE x >= Group
    <3>1. PICK y \in Nat, m \in 0..(Group - 1) :
              y = x \div Group /\ m = x % Group /\ x = Group * y + m /\ y < x
      BY <1>2, <2>2, Quotient
    <3>2. PICK w \in Seq(Bytes) : w = WriteCompact[y]
      BY <3>1, Groups
    <3>3. PICK a \in Bytes : a = m + Group
      <4>1. m + Group \in Bytes
        BY <1>2 DEF Bytes
      <4> QED BY <4>1
    <3>4. WriteCompact[x] = <<a>> \o w
      <4>1. ~(x < Group)
        BY <1>2, <2>2
      <4> QED BY <1>2, <3>1, <3>2, <3>3, <4>1, WriteCompactIs
    <3>5. PICK z : z = <<a>> \o w
      OBVIOUS
    <3>6. Len(z) = Len(w) + 1 /\ z[1] = a /\ \A i \in 1..Len(w) : z[i + 1] = w[i]
      BY <3>5, Prefixed
    <3>7. Stands(z, s, o)
      BY <1>3, <3>4, <3>5
    <3>8. s[o + 1] = a /\ o + 1 + Len(w) <= Len(s) /\ Len(w) \in Nat
      BY <3>6, <3>7 DEF Stands
    <3>9. Stands(w, s, o + 1)
      <4>1. ASSUME NEW i \in 1..Len(w) PROVE s[o + 1 + i] = w[i]
        <5>1. i + 1 \in 1..Len(z) /\ o + 1 + i = o + (i + 1)
          BY <3>6, <3>8
        <5> QED BY <3>6, <3>7, <5>1 DEF Stands
      <4> QED BY <3>8, <4>1 DEF Stands
    <3>10. Number(s, o + 1, o + 1 + Len(w)) = y
      <4>1. P(y)
        BY <1>4, <3>1
      <4>2. o + 1 \in 0..Len(s)
        BY <3>8
      <4> QED BY <3>2, <3>9, <4>1, <4>2 DEF P
    <3>11. a % Group = m
      <4>1. PICK d \in Nat \ {0} : d = Group
        BY <1>2
      <4>2. PICK e \in 0..(d - 1) : e = m
        BY <4>1
      <4>3. d + e = d * 1 + e /\ d + e \in Nat
        BY <4>1
      <4>4. (d + e) % d = e
        <5>1. PICK u \in Nat, i \in Int : u = d + e /\ i = 1 /\ u = d * i + e
          BY <4>3
        <5>2. u % d = e
          BY <5>1, DivideOnce
        <5> QED BY <5>1, <5>2
      <4>5. a = d + e
        BY <3>3, <4>1, <4>2
      <4> QED BY <4>1, <4>2, <4>4, <4>5
    <3>12. Number(s, o, o + 1 + Len(w)) = (s[o + 1] % Group) + Group * Number(s, o + 1, o + 1 + Len(w))
      <4>1. o + 1 + Len(w) \in Nat /\ o < o + 1 + Len(w) /\ o \in Nat
        BY <3>8
      <4> QED BY <3>8, <4>1, NumberIs
    <3>13. Number(s, o, o + 1 + Len(w)) = x
      <4>1. Number(s, o, o + 1 + Len(w)) = m + Group * y
        BY <3>8, <3>10, <3>11, <3>12
      <4>2. m + Group * y = Group * y + m
        <5>1. Group * y \in Int /\ m \in Int
          BY <1>2
        <5> QED BY <5>1
      <4> QED BY <3>1, <4>1, <4>2
    <3>14. o + Len(WriteCompact[x]) = o + 1 + Len(w)
      BY <3>4, <3>5, <3>6, <3>8
    <3> QED BY <3>13, <3>14
  <2> QED BY <1>2, <2>1, <2>2
<1>5. P(x)
  BY <1>3 DEF P
<1> QED BY <1>4, <1>5

\* The first place where a compact integer may end.
LEMMA EndOfIs ==
  ASSUME NEW s \in Seq(Bytes), NEW p \in 0..Len(s), Ends(s, p) # {}
  PROVE  EndOf(s, p) \in Ends(s, p) /\ \A r \in Ends(s, p) : EndOf(s, p) <= r
<1>1. Ends(s, p) \in SUBSET Nat
  BY DEF Ends
<1>2. \E q \in Ends(s, p) : \A r \in Ends(s, p) : q <= r
  BY <1>1, LeastElement
<1> QED BY <1>2 DEF EndOf

\* What read_compact_uint ends with.
CompactErrors == {"ok", "insufficient_data", "non_canonical_encoding", "invalid_size"}

\* It returns a uint32_t and stands inside the data.
LEMMA CompactTyped ==
  ASSUME NEW s \in Seq(Bytes), NEW p \in 0..Len(s)
  PROVE  ReadCompact(s, p) \in [err : CompactErrors, v : 0..Default, pos : p..Len(s)]
<1>1. Default \in Nat
  BY Numbers
<1>2. p \in p..Len(s) /\ 0 \in 0..Default
  BY <1>1
<1>3. CASE Ends(s, p) = {}
  BY <1>2, <1>3 DEF ReadCompact, Failed, CompactErrors
<1>4. CASE Ends(s, p) # {}
  <2>1. PICK q : q = EndOf(s, p)
    OBVIOUS
  <2>2. q \in (p + 1)..Len(s)
    BY <1>4, <2>1, EndOfIs DEF Ends
  <2>3. Number(s, p, q) \in Nat
    <3>1. p \in Nat /\ q \in Nat /\ p <= q /\ q <= Len(s)
      BY <2>2
    <3> QED BY <3>1, NumberIs
  <2>4. CASE q > p + 1 /\ s[q] = 0
    BY <1>2, <1>4, <2>1, <2>4 DEF ReadCompact, Failed, CompactErrors
  <2>5. CASE ~(q > p + 1 /\ s[q] = 0) /\ Number(s, p, q) > Default
    BY <1>2, <1>4, <2>1, <2>5 DEF ReadCompact, Failed, CompactErrors
  <2>6. CASE ~(q > p + 1 /\ s[q] = 0) /\ ~(Number(s, p, q) > Default)
    <3>1. Number(s, p, q) \in 0..Default /\ q \in p..Len(s)
      BY <1>1, <2>2, <2>3, <2>6
    <3> QED BY <1>4, <2>1, <2>6, <3>1 DEF ReadCompact, Done, CompactErrors
  <2> QED BY <2>4, <2>5, <2>6
<1> QED BY <1>3, <1>4

\* What was written of a number is read back, wherever it stands.
LEMMA CompactReturns ==
  ASSUME NEW v \in 0..Default, NEW s \in Seq(Bytes), NEW p \in 0..Len(s),
         Stands(WriteCompact[v], s, p)
  PROVE  ReadCompact(s, p) = Done(v, p + Len(WriteCompact[v]))
<1>1. v \in Nat /\ Default \in Nat
  BY Numbers
<1>2. PICK w \in Seq(Bytes) :
          /\ w = WriteCompact[v] /\ Len(w) \in Nat \ {0} /\ w[Len(w)] < Group
          /\ \A i \in 1..(Len(w) - 1) : w[i] >= Group
          /\ Len(w) > 1 => w[Len(w)] # 0
  BY <1>1, Groups
<1>3. PICK q \in Nat : q = p + Len(w)
  BY <1>2
<1>4. q \in (p + 1)..Len(s) /\ s[q] = w[Len(w)]
  BY <1>2, <1>3 DEF Stands
<1>5. q \in Ends(s, p)
  BY <1>2, <1>4 DEF Ends
<1>6. ASSUME NEW r \in Ends(s, p) PROVE q <= r
  <2> SUFFICES ASSUME r < q PROVE FALSE
    BY <1>3 DEF Ends
  <2>1. r \in (p + 1)..Len(s) /\ s[r] < Group
    BY DEF Ends
  <2>2. PICK i \in 1..(Len(w) - 1) : r = p + i
    <3>1. r - p \in 1..(Len(w) - 1) /\ r = p + (r - p)
      BY <1>2, <1>3, <2>1
    <3> QED BY <3>1
  <2>3. s[r] = w[i] /\ w[i] >= Group
    BY <1>2, <2>2 DEF Stands
  <2>4. Group \in Nat /\ s[r] \in Nat
    BY <2>1, Numbers DEF Bytes
  <2> QED BY <2>1, <2>3, <2>4
<1>7. EndOf(s, p) = q
  <2>1. EndOf(s, p) \in Ends(s, p) /\ \A r \in Ends(s, p) : EndOf(s, p) <= r
    BY <1>5, EndOfIs
  <2>2. EndOf(s, p) <= q /\ q <= EndOf(s, p) /\ EndOf(s, p) \in Int
    BY <1>5, <1>6, <2>1 DEF Ends
  <2> QED BY <1>3, <2>2
<1>8. Number(s, p, q) = v
  BY <1>1, <1>2, <1>3, NumberBack
<1>9. ~(q > p + 1 /\ s[q] = 0)
  BY <1>2, <1>3, <1>4
<1>10. ~(v > Default)
  BY <1>1
<1> QED BY <1>2, <1>3, <1>5, <1>7, <1>8, <1>9, <1>10 DEF ReadCompact

\* A number cut short is waited for.
LEMMA CompactWaits ==
  ASSUME NEW v \in Nat, NEW s \in Seq(Bytes), NEW p \in 0..Len(s), Cut(WriteCompact[v], s, p)
  PROVE  ReadCompact(s, p).err = "insufficient_data"
<1>1. PICK w \in Seq(Bytes) :
          /\ w = WriteCompact[v] /\ \A i \in 1..(Len(w) - 1) : w[i] >= Group
  BY Groups
<1>2. Ends(s, p) = {}
  <2> SUFFICES ASSUME NEW r \in Ends(s, p) PROVE FALSE
    OBVIOUS
  <2>1. r \in (p + 1)..Len(s) /\ s[r] < Group
    BY DEF Ends
  <2>2. PICK i \in 1..(Len(s) - p) : r = p + i
    <3>1. r - p \in 1..(Len(s) - p) /\ r = p + (r - p)
      BY <2>1
    <3> QED BY <3>1
  <2>3. s[r] = w[i] /\ Len(s) - p < Len(w)
    BY <1>1, <2>2 DEF Cut
  <2>4. i \in 1..(Len(w) - 1)
    BY <2>3
  <2>5. Group \in Nat /\ s[r] \in Nat
    BY <2>1, Numbers DEF Bytes
  <2> QED BY <1>1, <2>1, <2>3, <2>4, <2>5
<1> QED BY <1>2 DEF ReadCompact, Failed

\* Groups as they are written are those of the number they denote.
LEMMA CompactWritten ==
  ASSUME NEW s \in Seq(Bytes), NEW p \in Nat, NEW q \in (p + 1)..Len(s), s[q] < Group,
         \A i \in (p + 1)..(q - 1) : s[i] >= Group, q > p + 1 => s[q] # 0
  PROVE  WriteCompact[Number(s, p, q)] = SubSeq(s, p + 1, q)
<1> DEFINE Q(o) == o < q /\ (\A i \in (o + 1)..(q - 1) : s[i] >= Group) /\ (q > o + 1 => s[q] # 0)
<1> DEFINE R(o) == /\ Number(s, o, q) \in Nat
                   /\ s[q] # 0 => Number(s, o, q) >= 1
                   /\ WriteCompact[Number(s, o, q)] = SubSeq(s, o + 1, q)
<1> DEFINE T == {k \in Nat : \A o \in Nat : q - o = k /\ Q(o) => R(o)}
<1>1. Group \in Nat /\ Group > 1 /\ q \in Nat
  BY Numbers
<1>2. 0 \in T
  BY <1>1
<1>3. ASSUME NEW k \in 0..(q - 1), k \in T PROVE k + 1 \in T
  <2> SUFFICES ASSUME NEW o \in Nat, q - o = k + 1, Q(o) PROVE R(o)
    OBVIOUS
  <2>1. o + 1 \in Nat /\ o + 1 <= q /\ q <= Len(s) /\ o < q /\ q - (o + 1) = k
    BY <1>1
  <2>2. s[o + 1] \in 0..(2 * Group - 1) /\ s[q] \in 0..(Group - 1)
    <3>1. o + 1 \in 1..Len(s) /\ q \in 1..Len(s)
      BY <2>1
    <3>2. s[o + 1] \in Bytes /\ s[q] \in Bytes
      BY <3>1
    <3> HIDE DEF Q, R, T
    <3> QED BY <1>1, <3>2 DEF Bytes
  <2>3. PICK x \in Nat, r \in Nat :
            /\ x = Number(s, o + 1, q) /\ r = Number(s, o, q)
            /\ r = (s[o + 1] % Group) + Group * x
            /\ (o + 1 = q => x = 0)
    <3>1. Number(s, o + 1, q) \in Nat /\ (o + 1 = q => Number(s, o + 1, q) = 0)
      BY <1>1, <2>1, NumberIs
    <3>2. /\ Number(s, o, q) \in Nat
          /\ Number(s, o, q) = (s[o + 1] % Group) + Group * Number(s, o + 1, q)
      <4>1. o <= q
        BY <2>1
      <4> QED BY <1>1, <2>1, <4>1, NumberIs
    <3> QED BY <3>1, <3>2
  <2>4. CASE o + 1 = q
    <3> HIDE DEF Q, R, T
    <3>1. s[o + 1] % Group = s[q] /\ r = s[q]
      <4>1. PICK u \in 0..(Group - 1) : u = s[q]
        BY <2>2
      <4>2. u % Group = u /\ Group * x = 0
        BY <1>1, <2>3, <2>4
      <4> QED BY <1>1, <2>3, <2>4, <4>1, <4>2
    <3>2. WriteCompact[r] = <<s[q]>>
      BY <1>1, <2>3, <3>1, WriteCompactIs
    <3>3. SubSeq(s, o + 1, q) = <<s[q]>>
      <4>1. PICK b \in Bytes : b = s[q]
        BY <1>1, <2>1
      <4>2. PICK w : w = SubSeq(s, o + 1, q)
        OBVIOUS
      <4>3. w \in Seq(Bytes) /\ Len(w) = q - o /\ \A i \in 1..(q - o) : w[i] = s[o + i]
        BY <1>1, <2>1, <4>2, Stretch, SMTT(30)
      <4>4. Len(w) = 1 /\ w[1] = b
        BY <2>4, <4>1, <4>3
      <4>5. w = <<b>>
        BY <4>3, <4>4
      <4> QED BY <4>1, <4>2, <4>5
    <3>4. s[q] # 0 => r >= 1
      BY <1>1, <2>2, <3>1
    <3> QED BY <2>3, <3>2, <3>3, <3>4 DEF R
  <2>5. CASE o + 1 < q
    <3>1. Q(o + 1)
      <4>1. q > (o + 1) + 1 => s[q] # 0
        BY <2>5
      <4>2. \A i \in ((o + 1) + 1)..(q - 1) : s[i] >= Group
        BY <1>1
      <4> QED BY <2>5, <4>1, <4>2
    <3>2. R(o + 1)
      <4> HIDE DEF Q, R
      <4> QED BY <1>3, <2>1, <3>1
    <3>3. s[q] # 0 /\ s[o + 1] >= Group
      BY <1>1, <2>5
    <3>4. x >= 1 /\ WriteCompact[x] = SubSeq(s, (o + 1) + 1, q)
      BY <2>3, <3>2, <3>3
    <3>5. PICK a \in Group..(2 * Group - 1) : a = s[o + 1]
      <4> HIDE DEF Q, R, T
      <4> QED BY <1>1, <2>2, <3>3
    <3>6. PICK m \in 0..(Group - 1) : m = a - Group
      BY <1>1
    <3>7. a % Group = m
      <4>1. PICK d \in Nat \ {0}, i \in Int : d = Group /\ i = 1 /\ a = d * i + m
        BY <1>1, <3>6
      <4>2. a \in Nat /\ m \in 0..(d - 1)
        BY <1>1, <4>1
      <4>3. a % d = m
        BY <4>1, <4>2, DivideOnce
      <4> QED BY <4>1, <4>3
    <3>8. r = Group * x + m
      <4>1. r = m + Group * x
        BY <2>3, <3>5, <3>7
      <4>2. Group * x \in Nat
        BY <1>1
      <4> QED BY <4>1, <4>2
    <3>9. r \div Group = x /\ r % Group = m
      <4>1. Group \in Nat \ {0} /\ x \in Int
        BY <1>1
      <4> QED BY <3>8, <4>1, DivideOnce
    <3>10. r >= Group
      <4>1. Group * x >= Group
        BY <1>1, <3>4
      <4>2. Group * x \in Nat
        BY <1>1
      <4> QED BY <1>1, <3>8, <4>1, <4>2
    <3>11. WriteCompact[r] = <<a>> \o SubSeq(s, (o + 1) + 1, q)
      <4>1. WriteCompact[r] = <<(r % Group) + Group>> \o WriteCompact[r \div Group]
        <5>1. ~(r < Group)
          BY <1>1, <3>10
        <5> QED BY <5>1, WriteCompactIs
      <4>2. (r % Group) + Group = a
        BY <1>1, <3>6, <3>9
      <4> QED BY <3>4, <3>9, <4>1, <4>2
    <3>12. <<a>> = SubSeq(s, o + 1, o + 1)
      BY <2>1, <3>5
    <3>13. SubSeq(s, o + 1, o + 1) \o SubSeq(s, (o + 1) + 1, q) = SubSeq(s, o + 1, q)
      <4>1. o <= o + 1
        OBVIOUS
      <4> QED BY <1>1, <2>1, <4>1, StretchesMeet
    <3>14. r >= 1
      BY <1>1, <3>10
    <3> QED BY <2>3, <3>11, <3>12, <3>13, <3>14
  <2> QED BY <2>1, <2>4, <2>5
<1> HIDE DEF T
<1>4. q - p \in T
  <2>1. \A k \in 0..q : k \in T
    BY <1>1, <1>2, <1>3, Upwards
  <2> QED BY <1>1, <2>1
<1>5. R(p)
  <2>1. Q(p)
    OBVIOUS
  <2> HIDE DEF Q, R
  <2> QED BY <1>4, <2>1 DEF T
<1> QED BY <1>5

\* A number that is read was written.
LEMMA CompactCanonical ==
  ASSUME NEW s \in Seq(Bytes), NEW p \in 0..Len(s), ReadCompact(s, p).err = "ok"
  PROVE  WriteCompact[ReadCompact(s, p).v] = SubSeq(s, p + 1, ReadCompact(s, p).pos)
<1>1. Ends(s, p) # {}
  BY DEF ReadCompact, Failed
<1>2. PICK q : q = EndOf(s, p)
  OBVIOUS
<1>3. q \in Ends(s, p) /\ \A r \in Ends(s, p) : q <= r
  BY <1>1, <1>2, EndOfIs
<1>4. p \in Nat /\ q \in (p + 1)..Len(s) /\ s[q] < Group
  BY <1>3 DEF Ends
<1>5. ASSUME NEW i \in (p + 1)..(q - 1) PROVE s[i] >= Group
  <2>1. i \in (p + 1)..Len(s) /\ i < q
    BY <1>4
  <2>2. ~(s[i] < Group)
    BY <1>3, <1>4, <2>1 DEF Ends
  <2>3. s[i] \in Nat /\ Group \in Nat
    BY <2>1, Numbers DEF Bytes
  <2> QED BY <2>2, <2>3
<1>6. ~(q > p + 1 /\ s[q] = 0)
  BY <1>1, <1>2 DEF ReadCompact, Failed
<1>7. ReadCompact(s, p) = Done(Number(s, p, q), q)
  BY <1>1, <1>2, <1>6 DEF ReadCompact, Failed
<1>8. WriteCompact[Number(s, p, q)] = SubSeq(s, p + 1, q)
  BY <1>4, <1>5, <1>6, CompactWritten
<1> QED BY <1>7, <1>8 DEF Done

----------------------------------------------------------------------------
(* Types and their parts.                                                  *)

\* c is the codec of t, cs are those of its parts.
Made(t, cs, c) ==
    /\ WellFormed(t)
    /\ Len(cs) \in Nat /\ Len(cs) = Len(t.of)
    /\ c.fresh = Fresh(t, cs) /\ c.values = Values(t, cs) /\ c.whole = Whole(t, cs)
    /\ c.plain = {v \in c.values : Default \in Fits(t, cs, v, Default)}
    /\ \A v \in c.values : \A n \in Nat :
           /\ c.write[v][n] = Write(t, cs, v, n)
           /\ c.fits[v][n] = Fits(t, cs, v, n)
           /\ c.kept[v][n] = Kept(t, cs, v, n)
    /\ \A v \in c.values : \A s \in Seq(Bytes) : \A p \in Nat : \A n \in Nat :
           c.read[v][s][p][n] = Read(t, cs, v, s, p, n)

\* The codec of every declared type is made of those of its parts.
LEMMA AllMade ==
  ASSUME NEW t \in Universe
  PROVE  /\ Made(t, PartsOf(t), Codec[t]) /\ Len(t.of) \in Nat
         /\ \A i \in 1..Len(t.of) : t.of[i] \in Universe /\ PartsOf(t)[i] = Codec[t.of[i]]
<1>1. /\ Codec[t] = CodecOf(t, PartsOf(t))
      /\ WellFormed(t) /\ t.of \in Seq(Universe) /\ Len(t.of) \in Nat
  BY Unfold
<1>2. Len(PartsOf(t)) = Len(t.of) /\ \A i \in 1..Len(t.of) : PartsOf(t)[i] = Codec[t.of[i]]
  BY <1>1 DEF PartsOf
<1>3. \A i \in 1..Len(t.of) : t.of[i] \in Universe
  BY <1>1
<1>4. Made(t, PartsOf(t), Codec[t])
  <2>1. PICK cs, c : cs = PartsOf(t) /\ c = Codec[t] /\ c = CodecOf(t, cs)
    BY <1>1
  <2>2. /\ c.fresh = Fresh(t, cs) /\ c.values = Values(t, cs) /\ c.whole = Whole(t, cs)
        /\ c.plain = {v \in c.values : Default \in Fits(t, cs, v, Default)}
        /\ \A v \in c.values : \A n \in Nat :
               /\ c.write[v][n] = Write(t, cs, v, n)
               /\ c.fits[v][n] = Fits(t, cs, v, n)
               /\ c.kept[v][n] = Kept(t, cs, v, n)
        /\ \A v \in c.values : \A s \in Seq(Bytes) : \A p \in Nat : \A n \in Nat :
               c.read[v][s][p][n] = Read(t, cs, v, s, p, n)
    BY <2>1, Parts
  <2>3. Len(cs) \in Nat /\ Len(cs) = Len(t.of)
    BY <1>1, <1>2, <2>1
  <2>4. Made(t, cs, c)
    BY <1>1, <2>2, <2>3 DEF Made
  <2> QED BY <2>1, <2>4
<1> QED BY <1>1, <1>2, <1>3, <1>4

\* The rows of values, one of each part.
LEMMA MembersAre ==
  ASSUME NEW cs, Len(cs) \in Nat, NEW V, \A i \in 1..Len(cs) : cs[i].values \subseteq V
  PROVE  Members(cs) = {v \in [1..Len(cs) -> V] : \A i \in 1..Len(cs) : v[i] \in cs[i].values}
<1> DEFINE Rows(k) == {v \in [1..k -> V] : \A i \in 1..k : v[i] \in cs[i].values}
<1> DEFINE N == Len(cs)
<1>1. PICK f : /\ Members(cs) = f[N] /\ f[0] = {<<>>}
               /\ \A k \in 1..N : f[k] = MembersStep(cs, k, f[k - 1])
  BY MembersLoop
<1> DEFINE T == {k \in Nat : f[k] = Rows(k)}
<1>2. 0 \in T
  <2>1. <<>> \in Rows(0)
    OBVIOUS
  <2>2. \A v \in Rows(0) : v = <<>>
    OBVIOUS
  <2> QED BY <1>1, <2>1, <2>2
<1>3. ASSUME NEW k \in 0..(N - 1), k \in T PROVE k + 1 \in T
  <2>1. k + 1 \in 1..N /\ (k + 1) - 1 = k /\ k \in Nat
    OBVIOUS
  <2>2. f[k + 1] = {Append(v, w) : v \in Rows(k), w \in cs[k + 1].values}
    <3>1. f[k] = Rows(k)
      BY <1>3
    <3>2. f[k + 1] = MembersStep(cs, k + 1, f[k])
      BY <1>1, <2>1
    <3> HIDE DEF Rows
    <3> QED BY <3>1, <3>2 DEF MembersStep
  <2>3. ASSUME NEW v \in Rows(k), NEW w \in cs[k + 1].values
        PROVE  Append(v, w) \in Rows(k + 1)
    <3>1. v \in Seq(V) /\ Len(v) = k /\ w \in V
      BY <2>1
    <3>2. PICK a : a = Append(v, w)
      OBVIOUS
    <3>3. a \in Seq(V) /\ Len(a) = k + 1 /\ a[k + 1] = w /\ \A i \in 1..k : a[i] = v[i]
      BY <3>1, <3>2
    <3>4. a \in [1..(k + 1) -> V]
      BY <3>3
    <3>5. \A i \in 1..(k + 1) : a[i] \in cs[i].values
      BY <2>1, <3>3
    <3> QED BY <3>2, <3>4, <3>5
  <2>4. ASSUME NEW v \in Rows(k + 1)
        PROVE  \E u \in Rows(k), w \in cs[k + 1].values : v = Append(u, w)
    <3>1. PICK u : u = [i \in 1..k |-> v[i]]
      OBVIOUS
    <3>2. u \in [1..k -> V] /\ \A i \in 1..k : u[i] = v[i]
      BY <2>1, <3>1
    <3>3. u \in Rows(k)
      BY <2>1, <3>2
    <3>4. v[k + 1] \in cs[k + 1].values /\ v[k + 1] \in V
      BY <2>1
    <3>5. v = Append(u, v[k + 1])
      <4>1. PICK w \in V : w = v[k + 1]
        BY <3>4
      <4>2. u \in Seq(V) /\ Len(u) = k
        BY <2>1, <3>2
      <4>3. PICK a : a = Append(u, w)
        OBVIOUS
      <4>4. a \in Seq(V) /\ Len(a) = k + 1 /\ a[k + 1] = w /\ \A i \in 1..k : a[i] = u[i]
        BY <4>2, <4>3
      <4>5. v \in Seq(V) /\ Len(v) = k + 1
        BY <2>1
      <4>6. \A i \in 1..(k + 1) : v[i] = a[i]
        BY <2>1, <3>2, <4>1, <4>4
      <4>7. v = a
        <5> HIDE DEF Rows
        <5> QED BY <4>4, <4>5, <4>6, SameSequence
      <4> QED BY <4>1, <4>3, <4>7
    <3> HIDE DEF Rows
    <3> QED BY <3>3, <3>4, <3>5
  <2>5. f[k + 1] = Rows(k + 1)
    <3> HIDE DEF Rows, T
    <3>1. ASSUME NEW v \in f[k + 1] PROVE v \in Rows(k + 1)
      <4>1. PICK u \in Rows(k), w \in cs[k + 1].values : v = Append(u, w)
        BY <2>2
      <4> QED BY <2>3, <4>1
    <3>2. \A v \in Rows(k + 1) : v \in f[k + 1]
      BY <2>2, <2>4
    <3> QED BY <3>1, <3>2
  <2> HIDE DEF Rows
  <2> QED BY <2>1, <2>5
<1>4. N \in T
  <2> HIDE DEF T
  <2>1. \A k \in 0..N : k \in T
    BY <1>2, <1>3, Upwards
  <2> QED BY <2>1
<1> QED BY <1>1, <1>4

\* The same element k times.
LEMMA SameIs ==
  ASSUME NEW x, NEW k \in Nat
  PROVE  Len(Same(x, k)) = k /\ \A i \in 1..k : Same(x, k)[i] = x
BY DEF Same

----------------------------------------------------------------------------
(* Types are kept.                                                         *)

\* What a write ends with.
Written == [err : Errc, bytes : Seq(Bytes)]

\* A codec writes bytes and reads values of its type, and stands inside the data.
Typed(c) ==
    /\ c.fresh \in c.values
    /\ \A v \in c.values : \A n \in Nat : c.write[v][n] \in Written
    /\ \A v \in c.values : \A s \in Seq(Bytes) : \A p \in 0..Len(s) : \A n \in Nat :
           c.read[v][s][p][n] \in [err : Errors, v : c.values, pos : p..Len(s)]

\* Outcomes of writes.
LEMMA WroteTyped ==
  /\ \A b \in Seq(Bytes) : Wrote(b) \in Written
  /\ \A e \in Errc : Refused(e) \in Written
BY DEF Wrote, Refused, Written, Errc

\* One write after another is a write.
LEMMA ThenTyped ==
  ASSUME NEW first \in Written, NEW second \in Written
  PROVE  Then(first, second) \in Written
BY DEF Then, Written

\* Parts written one after the other, part by part.
LEMMA WriteRounds ==
  ASSUME NEW cs, NEW vs, NEW ns, Len(cs) \in Nat,
         \A i \in 1..Len(cs) : Typed(cs[i]) /\ vs[i] \in cs[i].values /\ ns[i] \in Nat
  PROVE  \E f : /\ WriteAll(cs, vs, ns) = f[Len(cs)] /\ f[0] = Wrote(<<>>)
                /\ \A k \in 0..Len(cs) : f[k] \in Written
                /\ \A k \in 1..Len(cs) : /\ f[k] = Then(f[k - 1], cs[k].write[vs[k]][ns[k]])
                                         /\ cs[k].write[vs[k]][ns[k]] \in Written
<1> DEFINE N == Len(cs)
<1>1. PICK f : /\ WriteAll(cs, vs, ns) = f[N] /\ f[0] = Wrote(<<>>)
               /\ \A k \in 1..N : f[k] = WriteStep(cs, vs, ns, k, f[k - 1])
  BY WriteLoop
<1> DEFINE T == {k \in Nat : f[k] \in Written}
<1>2. 0 \in T
  <2>1. <<>> \in Seq(Bytes)
    OBVIOUS
  <2> QED BY <1>1, <2>1, WroteTyped
<1>3. \A k \in 1..N : cs[k].write[vs[k]][ns[k]] \in Written
  BY DEF Typed
<1>4. ASSUME NEW k \in 0..(N - 1), k \in T PROVE k + 1 \in T
  <2>1. k + 1 \in 1..N /\ (k + 1) - 1 = k /\ f[k] \in Written
    BY <1>4
  <2>2. f[k + 1] \in Written
    BY <1>1, <1>3, <2>1, ThenTyped DEF WriteStep
  <2> QED BY <2>1, <2>2
<1> HIDE DEF T
<1>5. \A k \in 0..N : k \in T
  BY <1>2, <1>4, Upwards
<1>6. \A k \in 1..N : f[k] = Then(f[k - 1], cs[k].write[vs[k]][ns[k]])
  BY <1>1 DEF WriteStep
<1>7. \A k \in 0..N : f[k] \in Written
  BY <1>5 DEF T
<1> QED BY <1>1, <1>3, <1>6, <1>7

\* Parts written one after the other are a write.
LEMMA WriteAllTyped ==
  ASSUME NEW cs, NEW vs, NEW ns, Len(cs) \in Nat,
         \A i \in 1..Len(cs) : Typed(cs[i]) /\ vs[i] \in cs[i].values /\ ns[i] \in Nat
  PROVE  WriteAll(cs, vs, ns) \in Written
<1>1. PICK f : /\ WriteAll(cs, vs, ns) = f[Len(cs)]
               /\ \A k \in 0..Len(cs) : f[k] \in Written
  BY WriteRounds
<1> QED BY <1>1

\* Objects of a row are read in place, those behind the row left alone.
Rounds(cs, ns, M, V, vs, s, p, g) ==
    /\ Len(cs) \in Nat /\ M \in Nat /\ Len(cs) <= M /\ g[0] = Done(vs, p)
    /\ \A k \in 0..Len(cs) :
           /\ g[k] \in [err : Errors, v : [1..M -> V], pos : p..Len(s)]
           /\ \A i \in 1..Len(cs) : g[k].v[i] \in cs[i].values
           /\ \A i \in (k + 1)..M : g[k].v[i] = vs[i]
    /\ \A k \in 1..Len(cs) :
           LET x == g[k - 1]
               e == cs[k].read[x.v[k]][s][x.pos][ns[k]]
           IN  /\ e \in [err : Errors, v : cs[k].values, pos : x.pos..Len(s)]
               /\ x.err # "ok" => g[k] = x
               /\ x.err = "ok" =>
                      /\ g[k].err = e.err /\ g[k].pos = e.pos /\ g[k].v[k] = e.v
                      /\ \A i \in 1..M : i # k => g[k].v[i] = x.v[i]

\* Parts read one after the other, part by part.
LEMMA ReadRounds ==
  ASSUME NEW cs, NEW ns, Len(cs) \in Nat, NEW V, NEW M \in Nat, Len(cs) <= M,
         NEW vs \in [1..M -> V], NEW s \in Seq(Bytes), NEW p \in 0..Len(s),
         \A i \in 1..Len(cs) :
             Typed(cs[i]) /\ vs[i] \in cs[i].values /\ cs[i].values \subseteq V /\ ns[i] \in Nat
  PROVE  \E g : ReadAll(cs, vs, ns, s, p) = g[Len(cs)] /\ Rounds(cs, ns, M, V, vs, s, p, g)
<1> DEFINE N == Len(cs)
<1> DEFINE Results == [err : Errors, v : [1..M -> V], pos : p..Len(s)]
<1>1. PICK g : /\ ReadAll(cs, vs, ns, s, p) = g[N] /\ g[0] = Done(vs, p)
               /\ \A k \in 1..N : g[k] = ReadStep(cs, ns, s, k, g[k - 1])
  <2>1. \A p_ : \E g : /\ ReadAll(cs, vs, ns, s, p_) = g[Len(cs)] /\ g[0] = Done(vs, p_)
               /\ \A k \in 1..Len(cs) : g[k] = ReadStep(cs, ns, s, k, g[k - 1])
    BY ReadLoop
  <2> QED BY <2>1
<1> DEFINE P(k, x) == /\ x \in Results
                      /\ \A i \in 1..N : x.v[i] \in cs[i].values
                      /\ \A i \in (k + 1)..M : x.v[i] = vs[i]
<1> DEFINE Elem(k, x) == cs[k].read[x.v[k]][s][x.pos][ns[k]]
<1> DEFINE From(k, x, y) ==
               LET e == Elem(k, x)
               IN  /\ e \in [err : Errors, v : cs[k].values, pos : x.pos..Len(s)]
                   /\ x.err # "ok" => y = x
                   /\ x.err = "ok" =>
                          /\ y.err = e.err /\ y.pos = e.pos /\ y.v[k] = e.v
                          /\ \A i \in 1..M : i # k => y.v[i] = x.v[i]
<1> DEFINE T == {k \in Nat : P(k, g[k])}
<1>2. 0 \in T
  <2>1. Done(vs, p) \in Results
    BY DEF Done, Errors, Errc
  <2>2. Done(vs, p).v = vs
    BY DEF Done
  <2> HIDE DEF Results
  <2> QED BY <1>1, <2>1, <2>2
<1>3. ASSUME NEW k \in 0..(N - 1), P(k, g[k])
      PROVE  P(k + 1, g[k + 1]) /\ From(k + 1, g[k], g[k + 1])
  <2>1. k + 1 \in 1..N /\ (k + 1) - 1 = k /\ k + 1 \in 1..M
    OBVIOUS
  <2>2. PICK x : x = g[k] /\ P(k, x)
    BY <1>3
  <2>3. PICK r : r = Elem(k + 1, x)
    OBVIOUS
  <2>4. g[k + 1] = IF x.err # "ok" THEN x ELSE [r EXCEPT !.v = [x.v EXCEPT ![k + 1] = r.v]]
    BY <1>1, <2>1, <2>2, <2>3, Zenon DEF ReadStep
  <2>5. x.pos \in 0..Len(s) /\ x.pos \in p..Len(s) /\ x.v \in [1..M -> V]
    BY <2>2
  <2>6. r \in [err : Errors, v : cs[k + 1].values, pos : x.pos..Len(s)]
    <3> HIDE DEF P
    <3>1. x.v[k + 1] \in cs[k + 1].values
      BY <2>1, <2>2 DEF P
    <3> QED BY <2>1, <2>3, <2>5, <3>1, Zenon DEF Typed
  <2>7. CASE x.err # "ok"
    <3>1. P(k + 1, x)
      <4>1. \A i \in ((k + 1) + 1)..M : i \in (k + 1)..M
        OBVIOUS
      <4> HIDE DEF Results
      <4> QED BY <2>2, <4>1
    <3>2. From(k + 1, x, x)
      <4> HIDE DEF P, Elem
      <4> QED BY <2>3, <2>6, <2>7
    <3> HIDE DEF P, From
    <3> QED BY <2>2, <2>4, <2>7, <3>1, <3>2
  <2>8. CASE x.err = "ok"
    <3>1. PICK y : y = [x.v EXCEPT ![k + 1] = r.v]
      OBVIOUS
    <3>2. r.v \in cs[k + 1].values /\ r.v \in V /\ r.pos \in p..Len(s) /\ r.err \in Errors
      BY <2>1, <2>5, <2>6
    <3>3. /\ y \in [1..M -> V] /\ y[k + 1] = r.v
          /\ \A i \in 1..M : i # k + 1 => y[i] = x.v[i]
      BY <2>1, <2>5, <3>1, <3>2
    <3>4. PICK z : z = [r EXCEPT !.v = y]
      OBVIOUS
    <3>5. z \in Results /\ z.v = y /\ z.err = r.err /\ z.pos = r.pos
      BY <2>6, <3>2, <3>3, <3>4
    <3>6. \A i \in 1..N : z.v[i] \in cs[i].values
      BY <2>2, <3>2, <3>3, <3>5
    <3>7. \A i \in ((k + 1) + 1)..M : z.v[i] = vs[i]
      <4>1. ASSUME NEW i \in ((k + 1) + 1)..M PROVE z.v[i] = vs[i]
        <5>1. i # k + 1 /\ i \in 1..M /\ i \in (k + 1)..M
          BY <2>1
        <5> HIDE DEF Results
        <5> QED BY <2>2, <3>3, <3>5, <5>1
      <4> QED BY <4>1
    <3>8. g[k + 1] = z
      BY <2>4, <2>8, <3>1, <3>4
    <3>9. P(k + 1, z)
      <4> HIDE DEF Results
      <4> QED BY <3>5, <3>6, <3>7
    <3>10. From(k + 1, x, z)
      <4> HIDE DEF P, Elem, Results
      <4> QED BY <2>3, <2>6, <2>8, <3>3, <3>5
    <3> HIDE DEF P, From
    <3> QED BY <2>2, <3>8, <3>9, <3>10
  <2> QED BY <2>7, <2>8, Zenon
<1>4. \A k \in 0..N : P(k, g[k])
  <2> HIDE DEF P, From
  <2>1. ASSUME NEW k \in 0..(N - 1), k \in T PROVE k + 1 \in T
    BY <1>3, <2>1
  <2> HIDE DEF T
  <2>2. \A k \in 0..N : k \in T
    BY <1>2, <2>1, Upwards
  <2> QED BY <2>2 DEF T
<1>5. ASSUME NEW k \in 1..N PROVE From(k, g[k - 1], g[k])
  <2>1. k - 1 \in 0..(N - 1) /\ k - 1 \in 0..N /\ (k - 1) + 1 = k
    OBVIOUS
  <2> HIDE DEF P, From
  <2>2. From((k - 1) + 1, g[k - 1], g[(k - 1) + 1])
    BY <1>3, <1>4, <2>1
  <2> QED BY <2>1, <2>2
<1>6. Rounds(cs, ns, M, V, vs, s, p, g)
  BY <1>1, <1>4, <1>5, Zenon DEF Rounds
<1> QED BY <1>1, <1>6

\* Parts read in place keep their types, and those not read are kept.
LEMMA ReadAllTyped ==
  ASSUME NEW cs, NEW ns, Len(cs) \in Nat, NEW V, NEW M \in Nat, Len(cs) <= M,
         NEW vs \in [1..M -> V], NEW s \in Seq(Bytes), NEW p \in 0..Len(s),
         \A i \in 1..Len(cs) :
             Typed(cs[i]) /\ vs[i] \in cs[i].values /\ cs[i].values \subseteq V /\ ns[i] \in Nat
  PROVE  LET r == ReadAll(cs, vs, ns, s, p)
         IN  /\ r \in [err : Errors, v : [1..M -> V], pos : p..Len(s)]
             /\ \A i \in 1..Len(cs) : r.v[i] \in cs[i].values
             /\ \A i \in (Len(cs) + 1)..M : r.v[i] = vs[i]
<1>1. PICK g : ReadAll(cs, vs, ns, s, p) = g[Len(cs)] /\ Rounds(cs, ns, M, V, vs, s, p, g)
  BY ReadRounds
<1>2. Len(cs) \in 0..Len(cs)
  OBVIOUS
<1> QED BY <1>1, <1>2, ZenonT(30) DEF Rounds

\* After a success all rounds were.
AllOk(N, g) == \A k \in 0..N : g[k].err = "ok" /\ \A i \in 1..k : g[k].v[i] = g[N].v[i]

\* If the last round succeeded they all did, and none touches the parts before its own.
LEMMA RoundsOk ==
  ASSUME NEW cs, NEW ns, NEW V, NEW M, NEW vs, NEW s, NEW p, NEW g,
         Rounds(cs, ns, M, V, vs, s, p, g), g[Len(cs)].err = "ok"
  PROVE  AllOk(Len(cs), g)
<1>0. Len(cs) \in Nat /\ M \in Nat /\ Len(cs) <= M
  BY Zenon DEF Rounds
<1> DEFINE N == Len(cs)
<1> DEFINE T == {j \in Nat : g[N - j].err = "ok" /\ \A i \in 1..(N - j) : g[N - j].v[i] = g[N].v[i]}
<1>1. 0 \in T
  <2>1. N - 0 = N
    BY <1>0
  <2> QED BY <2>1
<1>2. ASSUME NEW j \in 0..(N - 1), j \in T PROVE j + 1 \in T
  <2>1. PICK m \in 1..N : m = N - j
    BY <1>0
  <2>2. N - (j + 1) = m - 1 /\ j + 1 \in Nat
    BY <1>0, <2>1
  <2>3. g[m].err = "ok" /\ \A i \in 1..m : g[m].v[i] = g[N].v[i]
    BY <1>2, <2>1
  <2>4. /\ g[m - 1].err # "ok" => g[m] = g[m - 1]
        /\ g[m - 1].err = "ok" => \A i \in 1..M : i # m => g[m].v[i] = g[m - 1].v[i]
    BY <2>1, Zenon DEF Rounds
  <2>5. g[m - 1].err = "ok"
    BY <2>3, <2>4
  <2>6. ASSUME NEW i \in 1..(m - 1) PROVE g[m - 1].v[i] = g[N].v[i]
    <3>1. i \in 1..M /\ i # m /\ i \in 1..m
      BY <1>0, <2>1
    <3> QED BY <2>3, <2>4, <2>5, <3>1
  <2> QED BY <2>2, <2>5, <2>6
<1> HIDE DEF T
<1>3. \A j \in 0..N : j \in T
  BY <1>0, <1>1, <1>2, Upwards
<1>4. ASSUME NEW k \in 0..N PROVE g[k].err = "ok" /\ \A i \in 1..k : g[k].v[i] = g[N].v[i]
  <2>1. N - k \in 0..N /\ N - (N - k) = k
    BY <1>0
  <2> QED BY <1>3, <2>1 DEF T
<1> QED BY <1>4 DEF AllOk

\* The sequences of up to n elements.
LEMMA UpToIs ==
  ASSUME NEW S, NEW n \in Nat
  PROVE  UpTo(S, n) = {v \in Seq(S) : Len(v) <= n}
<1>1. ASSUME NEW v \in UpTo(S, n) PROVE v \in Seq(S) /\ Len(v) <= n
  <2>1. PICK k \in 0..n : v \in [1..k -> S]
    BY DEF UpTo
  <2> QED BY <2>1
<1>2. ASSUME NEW v \in Seq(S), Len(v) <= n PROVE v \in UpTo(S, n)
  <2>1. Len(v) \in 0..n /\ v \in [1..Len(v) -> S]
    BY <1>2
  <2> QED BY <2>1, Zenon DEF UpTo
<1> QED BY <1>1, <1>2

\* Those of one element at most.
LEMMA UpToOne ==
  ASSUME NEW S
  PROVE  /\ <<>> \in UpTo(S, 1) /\ \A w \in S : <<w>> \in UpTo(S, 1)
         /\ \A v \in UpTo(S, 1) : v # <<>> => v[1] \in S /\ v = <<v[1]>>
         /\ \A v \in UpTo(S, 1) : Len(v) \in {0, 1} /\ (Len(v) = 0 <=> v = <<>>)
<1>1. UpTo(S, 1) = {v \in Seq(S) : Len(v) <= 1}
  BY UpToIs
<1>2. <<>> \in UpTo(S, 1) /\ \A w \in S : <<w>> \in UpTo(S, 1)
  <2>1. <<>> \in Seq(S) /\ Len(<<>>) = 0
    OBVIOUS
  <2>2. ASSUME NEW w \in S PROVE <<w>> \in Seq(S) /\ Len(<<w>>) = 1
    OBVIOUS
  <2>3. \A v : v \in Seq(S) /\ Len(v) <= 1 => v \in UpTo(S, 1)
    BY <1>1
  <2>4. Len(<<>>) <= 1 /\ \A w \in S : Len(<<w>>) <= 1
    BY <2>1, <2>2
  <2> QED BY <2>1, <2>2, <2>3, <2>4
<1>3. ASSUME NEW v \in UpTo(S, 1)
      PROVE  Len(v) \in {0, 1} /\ (Len(v) = 0 <=> v = <<>>)
  <2>1. v \in Seq(S) /\ Len(v) <= 1
    BY <1>1
  <2>2. Len(v) \in {0, 1}
    <3>1. PICK n : n = Len(v)
      OBVIOUS
    <3>2. n \in Nat /\ n <= 1
      BY <2>1, <3>1
    <3> QED BY <3>1, <3>2
  <2>3. Len(v) = 0 => v = <<>>
    BY <2>1
  <2> QED BY <2>2, <2>3
<1>4. ASSUME NEW v \in UpTo(S, 1), v # <<>> PROVE v[1] \in S /\ v = <<v[1]>>
  <2>1. v \in Seq(S) /\ Len(v) = 1
    BY <1>1, <1>3, <1>4
  <2>2. PICK w \in S : w = v[1]
    BY <2>1
  <2>3. v = <<w>>
    BY <2>1, <2>2
  <2> QED BY <2>2, <2>3
<1> QED BY <1>2, <1>3, <1>4

\* A codec keeps types if its functions do.
LEMMA TypedIf ==
  ASSUME NEW t, NEW cs, NEW c, Made(t, cs, c),
         Fresh(t, cs) \in Values(t, cs),
         \A v \in Values(t, cs) : \A n \in Nat : Write(t, cs, v, n) \in Written,
         \A v \in Values(t, cs) : \A s \in Seq(Bytes) : \A p \in 0..Len(s) : \A n \in Nat :
             Read(t, cs, v, s, p, n) \in [err : Errors, v : Values(t, cs), pos : p..Len(s)]
  PROVE  Typed(c)
<1>1. /\ c.fresh = Fresh(t, cs) /\ c.values = Values(t, cs)
      /\ \A v \in c.values : \A n \in Nat : c.write[v][n] = Write(t, cs, v, n)
      /\ \A v \in c.values : \A s \in Seq(Bytes) : \A p \in Nat : \A n \in Nat :
             c.read[v][s][p][n] = Read(t, cs, v, s, p, n)
  BY DEF Made
<1>2. c.fresh \in c.values
  BY <1>1
<1>3. ASSUME NEW v \in c.values, NEW n \in Nat PROVE c.write[v][n] \in Written
  BY <1>1
<1>4. ASSUME NEW v \in c.values, NEW s \in Seq(Bytes), NEW p \in 0..Len(s), NEW n \in Nat
      PROVE  c.read[v][s][p][n] \in [err : Errors, v : c.values, pos : p..Len(s)]
  <2>1. v \in Values(t, cs) /\ p \in Nat
    BY <1>1
  <2>2. c.read[v][s][p][n] = Read(t, cs, v, s, p, n)
    BY <1>1, <2>1
  <2>3. Read(t, cs, v, s, p, n) \in [err : Errors, v : Values(t, cs), pos : p..Len(s)]
    BY <2>1
  <2> QED BY <1>1, <2>2, <2>3
<1> QED BY <1>2, <1>3, <1>4 DEF Typed

\* A byte is read into a byte.
LEMMA ByteTyped ==
  ASSUME NEW v \in Bytes, NEW s \in Seq(Bytes), NEW p \in 0..Len(s), NEW n \in Nat
  PROVE  ReadByte(v, s, p, n) \in [err : Errors, v : Bytes, pos : p..Len(s)]
<1>1. CASE n \notin {Default, 1}
  BY <1>1 DEF ReadByte, Failed, Errors, Errc
<1>2. CASE n \in {Default, 1} /\ p >= Len(s)
  BY <1>2 DEF ReadByte, Failed, Errors, Errc
<1>3. CASE n \in {Default, 1} /\ p < Len(s)
  <2>1. s[p + 1] \in Bytes /\ p + 1 \in p..Len(s)
    BY <1>3
  <2>2. ReadByte(v, s, p, n) = Done(s[p + 1], p + 1)
    BY <1>3 DEF ReadByte
  <2> QED BY <2>1, <2>2 DEF Done, Errors, Errc
<1> QED BY <1>1, <1>2, <1>3

\* A bool is read into a bool.
LEMMA BoolTyped ==
  ASSUME NEW v \in {0, 1}, NEW s \in Seq(Bytes), NEW p \in 0..Len(s), NEW n \in Nat
  PROVE  ReadBool(v, s, p, n) \in [err : Errors, v : {0, 1}, pos : p..Len(s)]
<1>1. v \in Bytes
  BY Numbers DEF Bytes
<1>2. PICK r : r = ReadByte(v, s, p, n)
  OBVIOUS
<1>3. r \in [err : Errors, v : Bytes, pos : p..Len(s)]
  BY <1>1, <1>2, ByteTyped
<1>4. r.err # "ok" => r.v = v
  BY <1>2 DEF ReadByte, Done, Failed
<1>5. ReadBool(v, s, p, n) = IF r.err = "ok" /\ r.v > 1 THEN Failed("invalid_value", v, p) ELSE r
  BY <1>2 DEF ReadBool
<1>6. CASE r.err = "ok" /\ r.v > 1
  BY <1>5, <1>6 DEF Failed, Errors, Errc
<1>7. CASE ~(r.err = "ok" /\ r.v > 1)
  <2>1. r.v \in {0, 1}
    <3>1. r.err = "ok" => r.v \in {0, 1}
      BY <1>3, <1>7, Numbers DEF Bytes
    <3> QED BY <1>4, <3>1
  <2> QED BY <1>3, <1>5, <1>7, <2>1
<1> QED BY <1>6, <1>7

\* Bytes, bools and the unit type.
LEMMA ScalarTyped ==
  ASSUME NEW t, NEW cs, NEW c, Made(t, cs, c), t.k \in {"byte", "bool", "unit"}
  PROVE  Typed(c)
<1>1. 0 \in Bytes /\ 1 \in Bytes
  BY Numbers DEF Bytes
<1>2. Fresh(t, cs) = 0
  BY DEF Fresh
<1>3. Values(t, cs) \subseteq Bytes /\ 0 \in Values(t, cs)
  BY <1>1 DEF Values
<1>4. ASSUME NEW v \in Values(t, cs), NEW n \in Nat PROVE Write(t, cs, v, n) \in Written
  <2>1. <<v>> \in Seq(Bytes) /\ <<>> \in Seq(Bytes)
    BY <1>3
  <2>2. Wrote(<<v>>) \in Written /\ Wrote(<<>>) \in Written /\ Refused("invalid_size") \in Written
    BY <2>1, WroteTyped DEF Errc
  <2> QED BY <2>2 DEF Write, WriteScalar
<1>5. ASSUME NEW v \in Values(t, cs), NEW s \in Seq(Bytes), NEW p \in 0..Len(s), NEW n \in Nat
      PROVE  Read(t, cs, v, s, p, n) \in [err : Errors, v : Values(t, cs), pos : p..Len(s)]
  <2>1. CASE t.k = "byte"
    <3>1. Values(t, cs) = Bytes /\ Read(t, cs, v, s, p, n) = ReadByte(v, s, p, n)
      BY <2>1 DEF Values, Read
    <3> QED BY <3>1, ByteTyped
  <2>2. CASE t.k = "bool"
    <3>1. Values(t, cs) = {0, 1} /\ Read(t, cs, v, s, p, n) = ReadBool(v, s, p, n)
      BY <2>2 DEF Values, Read
    <3>2. ReadBool(v, s, p, n) \in [err : Errors, v : {0, 1}, pos : p..Len(s)]
      BY <3>1, BoolTyped
    <3> QED BY <3>1, <3>2
  <2>3. CASE t.k = "unit"
    <3>1. Read(t, cs, v, s, p, n) = Done(v, p)
      BY <2>3 DEF Read
    <3>2. p \in p..Len(s)
      OBVIOUS
    <3> QED BY <3>1, <3>2 DEF Done, Errors, Errc
  <2> QED BY <2>1, <2>2, <2>3
<1> QED BY <1>2, <1>3, <1>4, <1>5, TypedIf

\* Optionals.
LEMMA OptionalTyped ==
  ASSUME NEW t, NEW cs, NEW c, Made(t, cs, c), t.k = "optional", Typed(cs[1])
  PROVE  Typed(c)
<1>1. PICK d : d = cs[1]
  OBVIOUS
<1>2. PICK S : S = UpTo(d.values, 1)
  OBVIOUS
<1>3. Values(t, cs) = S /\ Fresh(t, cs) = <<>>
  BY <1>1, <1>2 DEF Values, Fresh
<1>4. /\ <<>> \in S /\ \A w \in d.values : <<w>> \in S
      /\ \A v \in S : v # <<>> => v[1] \in d.values /\ v = <<v[1]>>
  BY <1>2, UpToOne
<1>5. ASSUME NEW v \in S, NEW n \in Nat PROVE Write(t, cs, v, n) \in Written
  <2>1. Write(t, cs, v, n) = IF v = <<>> THEN Wrote(<<0>>) ELSE Then(Wrote(<<1>>), d.write[v[1]][n])
    BY <1>1 DEF Write, WriteOptional
  <2>2. <<0>> \in Seq(Bytes) /\ <<1>> \in Seq(Bytes)
    BY Numbers DEF Bytes
  <2>3. Wrote(<<0>>) \in Written /\ Wrote(<<1>>) \in Written
    BY <2>2, WroteTyped
  <2>4. v # <<>> => d.write[v[1]][n] \in Written
    BY <1>1, <1>4 DEF Typed
  <2> QED BY <2>1, <2>3, <2>4, ThenTyped
<1>6. ASSUME NEW v \in S, NEW s \in Seq(Bytes), NEW p \in 0..Len(s), NEW n \in Nat
      PROVE  Read(t, cs, v, s, p, n) \in [err : Errors, v : S, pos : p..Len(s)]
  <2>1. PICK flag : flag = ReadBool(0, s, p, Default)
    OBVIOUS
  <2>2. flag \in [err : Errors, v : {0, 1}, pos : p..Len(s)]
    BY <2>1, BoolTyped, Numbers
  <2>3. PICK r : r = d.read[d.fresh][s][flag.pos][n]
    OBVIOUS
  <2>4. flag.pos \in p..Len(s) /\ flag.pos \in 0..Len(s) /\ flag.err \in Errors /\ p \in p..Len(s)
    BY <2>2
  <2>5. r \in [err : Errors, v : d.values, pos : flag.pos..Len(s)]
    BY <1>1, <2>3, <2>4 DEF Typed
  <2>6. r.err \in Errors /\ r.v \in d.values /\ r.pos \in p..Len(s)
        /\ r = [err |-> r.err, v |-> r.v, pos |-> r.pos]
    BY <2>4, <2>5
  <2>7. Read(t, cs, v, s, p, n) = IF flag.err # "ok" THEN Failed(flag.err, v, p)
                                  ELSE IF flag.v = 0 THEN Done(<<>>, flag.pos)
                                  ELSE [r EXCEPT !.v = <<@>>]
    BY <1>1, <2>1, <2>3 DEF Read, ReadOptional
  <2>8. [r EXCEPT !.v = <<@>>] = [err |-> r.err, v |-> <<r.v>>, pos |-> r.pos]
    BY <2>6
  <2>9. CASE flag.err # "ok"
    BY <2>4, <2>7, <2>9 DEF Failed
  <2>10. CASE flag.err = "ok" /\ flag.v = 0
    BY <1>4, <2>4, <2>7, <2>10 DEF Done
  <2>11. CASE flag.err = "ok" /\ flag.v # 0
    BY <1>4, <2>6, <2>7, <2>8, <2>11
  <2> QED BY <2>9, <2>10, <2>11
<1> QED BY <1>3, <1>4, <1>5, <1>6, TypedIf

\* Smart pointers.
LEMMA PtrTyped ==
  ASSUME NEW t, NEW cs, NEW c, Made(t, cs, c), t.k = "ptr", Typed(cs[1])
  PROVE  Typed(c)
<1>1. PICK d : d = cs[1]
  OBVIOUS
<1>2. PICK S : S = UpTo(d.values, 1)
  OBVIOUS
<1>3. Values(t, cs) = S /\ Fresh(t, cs) = <<>>
  BY <1>1, <1>2 DEF Values, Fresh
<1>4. /\ <<>> \in S /\ \A w \in d.values : <<w>> \in S
      /\ \A v \in S : v # <<>> => v[1] \in d.values /\ v = <<v[1]>>
  BY <1>2, UpToOne
<1>5. ASSUME NEW v \in S, NEW n \in Nat PROVE Write(t, cs, v, n) \in Written
  <2>1. Write(t, cs, v, n) = IF v = <<>> THEN Refused("null_pointer") ELSE d.write[v[1]][n]
    BY <1>1 DEF Write, WritePtr
  <2>2. Refused("null_pointer") \in Written
    BY WroteTyped DEF Errc
  <2>3. v # <<>> => d.write[v[1]][n] \in Written
    BY <1>1, <1>4 DEF Typed
  <2> QED BY <2>1, <2>2, <2>3
<1>6. ASSUME NEW v \in S, NEW s \in Seq(Bytes), NEW p \in 0..Len(s), NEW n \in Nat
      PROVE  Read(t, cs, v, s, p, n) \in [err : Errors, v : S, pos : p..Len(s)]
  <2>1. PICK r : r = d.read[d.fresh][s][p][n]
    OBVIOUS
  <2>2. r \in [err : Errors, v : d.values, pos : p..Len(s)]
    BY <1>1, <2>1 DEF Typed
  <2>3. r.err \in Errors /\ r.v \in d.values /\ r.pos \in p..Len(s)
        /\ r = [err |-> r.err, v |-> r.v, pos |-> r.pos]
    BY <2>2
  <2>4. Read(t, cs, v, s, p, n) = [r EXCEPT !.v = IF r.err = "ok" THEN <<@>> ELSE v]
    BY <1>1, <2>1 DEF Read, ReadPtr
  <2>5. Read(t, cs, v, s, p, n) =
            [err |-> r.err, v |-> IF r.err = "ok" THEN <<r.v>> ELSE v, pos |-> r.pos]
    BY <2>3, <2>4
  <2> QED BY <1>4, <2>3, <2>5
<1> QED BY <1>3, <1>4, <1>5, <1>6, TypedIf

\* Tuples and structs: their parts one after the other.
LEMMA RowIs ==
  ASSUME NEW t, NEW cs, NEW c, Made(t, cs, c), t.k \in {"tuple", "struct"}
  PROVE  /\ \A i \in 1..Len(cs) : PartCounts(t, cs)[i] \in Nat
         /\ \A v, n : Write(t, cs, v, n) = WriteAll(cs, v, PartCounts(t, cs))
         /\ \A v, s, p, n : Read(t, cs, v, s, p, n) = ReadAll(cs, v, PartCounts(t, cs), s, p)
         /\ Values(t, cs) = Members(cs) /\ Fresh(t, cs) = [i \in 1..Len(cs) |-> cs[i].fresh]
<1>1. /\ t.k = "struct" => t.ns \in Seq(0..Default) /\ Len(t.ns) = Len(cs)
      /\ Len(cs) \in Nat /\ Default \in Nat
  BY Numbers DEF Made, WellFormed
<1>2. Values(t, cs) = Members(cs) /\ Fresh(t, cs) = [i \in 1..Len(cs) |-> cs[i].fresh]
  BY DEF Values, Fresh
<1>3. CASE t.k = "struct"
  <2>1. PartCounts(t, cs) = t.ns
    BY <1>3 DEF PartCounts
  <2>2. ASSUME NEW i \in 1..Len(cs) PROVE t.ns[i] \in Nat
    <3>1. t.ns[i] \in 0..Default
      BY <1>1, <1>3
    <3> QED BY <1>1, <3>1
  <2>3. \A v, n : Write(t, cs, v, n) = WriteAll(cs, v, t.ns)
    BY <1>3 DEF Write, WriteStruct, to_byte_stream
  <2>4. \A v, s, p, n : Read(t, cs, v, s, p, n) = ReadAll(cs, v, t.ns, s, p)
    BY <1>3 DEF Read, ReadStruct, from_byte_stream
  <2> QED BY <1>2, <2>1, <2>2, <2>3, <2>4
<1>4. CASE t.k = "tuple"
  <2>1. PartCounts(t, cs) = Defaults(cs)
    BY <1>4 DEF PartCounts
  <2>2. \A i \in 1..Len(cs) : Defaults(cs)[i] \in Nat
    BY <1>1, SameIs DEF Defaults
  <2>3. \A v, n : Write(t, cs, v, n) = WriteAll(cs, v, Defaults(cs))
    BY <1>4 DEF Write, WriteTuple
  <2>4. \A v, s, p, n : Read(t, cs, v, s, p, n) = ReadAll(cs, v, Defaults(cs), s, p)
    BY <1>4 DEF Read, ReadTuple
  <2> QED BY <1>2, <2>1, <2>2, <2>3, <2>4
<1> QED BY <1>3, <1>4

\* Tuples and structs.
LEMMA RowTyped ==
  ASSUME NEW t, NEW cs, NEW c, Made(t, cs, c), t.k \in {"tuple", "struct"},
         \A i \in 1..Len(cs) : Typed(cs[i])
  PROVE  Typed(c)
<1>1. PICK N \in Nat : N = Len(cs)
  BY DEF Made
<1>2. PICK V : V = UNION {cs[i].values : i \in 1..N}
  OBVIOUS
<1>3. \A i \in 1..N : cs[i].values \subseteq V
  BY <1>2
<1>4. PICK ns : ns = PartCounts(t, cs)
  OBVIOUS
<1>5. /\ \A i \in 1..N : ns[i] \in Nat
      /\ \A v, n : Write(t, cs, v, n) = WriteAll(cs, v, ns)
      /\ \A v, s, p, n : Read(t, cs, v, s, p, n) = ReadAll(cs, v, ns, s, p)
      /\ Values(t, cs) = Members(cs) /\ Fresh(t, cs) = [i \in 1..N |-> cs[i].fresh]
  BY <1>1, <1>4, RowIs
<1>6. Values(t, cs) = {v \in [1..N -> V] : \A i \in 1..N : v[i] \in cs[i].values}
  BY <1>1, <1>3, <1>5, MembersAre
<1>7. Fresh(t, cs) \in Values(t, cs)
  <2>1. \A i \in 1..N : cs[i].fresh \in cs[i].values /\ cs[i].fresh \in V
    BY <1>1, <1>3 DEF Typed
  <2> QED BY <1>5, <1>6, <2>1
<1>8. ASSUME NEW v \in Values(t, cs), NEW n \in Nat PROVE Write(t, cs, v, n) \in Written
  <2>1. \A i \in 1..Len(cs) : Typed(cs[i]) /\ v[i] \in cs[i].values /\ ns[i] \in Nat
    BY <1>1, <1>5, <1>6
  <2>2. WriteAll(cs, v, ns) \in Written
    BY <1>1, <2>1, WriteAllTyped
  <2> QED BY <1>5, <2>2
<1>9. ASSUME NEW v \in Values(t, cs), NEW s \in Seq(Bytes), NEW p \in 0..Len(s), NEW n \in Nat
      PROVE  Read(t, cs, v, s, p, n) \in [err : Errors, v : Values(t, cs), pos : p..Len(s)]
  <2>1. v \in [1..N -> V] /\ Len(cs) \in Nat /\ Len(cs) <= N
    BY <1>1, <1>6
  <2>2. \A i \in 1..Len(cs) :
            Typed(cs[i]) /\ v[i] \in cs[i].values /\ cs[i].values \subseteq V /\ ns[i] \in Nat
    BY <1>1, <1>3, <1>5, <1>6
  <2>3. PICK r : r = ReadAll(cs, v, ns, s, p)
    OBVIOUS
  <2>4. /\ r \in [err : Errors, v : [1..N -> V], pos : p..Len(s)]
        /\ \A i \in 1..Len(cs) : r.v[i] \in cs[i].values
    BY <2>1, <2>2, <2>3, ReadAllTyped
  <2>5. r.v \in Values(t, cs)
    BY <1>1, <1>6, <2>4
  <2>6. r \in [err : Errors, v : Values(t, cs), pos : p..Len(s)]
    BY <2>4, <2>5
  <2> QED BY <1>5, <2>3, <2>6
<1> QED BY <1>7, <1>8, <1>9, TypedIf

\* What an array is written and read with.
LEMMA ArrayIs ==
  ASSUME NEW t, NEW cs, NEW c, Made(t, cs, c), t.k = "array"
  PROVE  /\ t.extent \in Nat /\ Len(cs) = 1 /\ Len(t.of) = 1
         /\ Values(t, cs) = [1..t.extent -> cs[1].values]
         /\ Fresh(t, cs) = [i \in 1..t.extent |-> cs[1].fresh]
         /\ \A n \in Nat : ArrayCount(t, n) \in Nat
         /\ \A v, n : Write(t, cs, v, n) = WriteArray(t, cs, v, n)
         /\ \A v, s, p, n : Read(t, cs, v, s, p, n) = ReadArray(t, cs, v, s, p, n)
<1>1. t.extent \in Nat /\ Len(cs) = 1 /\ Len(t.of) = 1
  BY DEF Made, WellFormed
<1>2. \A v, n : Write(t, cs, v, n) = WriteArray(t, cs, v, n)
  BY DEF Write
<1>3. \A v, s, p, n : Read(t, cs, v, s, p, n) = ReadArray(t, cs, v, s, p, n)
  BY DEF Read
<1>4. /\ Values(t, cs) = [1..t.extent -> cs[1].values]
      /\ Fresh(t, cs) = [i \in 1..t.extent |-> cs[1].fresh]
  BY DEF Values, Fresh
<1> QED BY <1>1, <1>2, <1>3, <1>4 DEF ArrayCount

\* The error and the object of a read that is judged beforehand.
LEMMA FailedTyped ==
  ASSUME NEW V, NEW v \in V, NEW s \in Seq(Bytes), NEW p \in 0..Len(s), NEW e \in Errors
  PROVE  Failed(e, v, p) \in [err : Errors, v : V, pos : p..Len(s)]
<1>1. p \in p..Len(s)
  OBVIOUS
<1> QED BY <1>1 DEF Failed

\* Arrays.
LEMMA ArrayTyped ==
  ASSUME NEW t, NEW cs, NEW c, Made(t, cs, c), t.k = "array", Typed(cs[1])
  PROVE  Typed(c)
<1>1. /\ t.extent \in Nat /\ Len(cs) = 1
      /\ Values(t, cs) = [1..t.extent -> cs[1].values]
      /\ Fresh(t, cs) = [i \in 1..t.extent |-> cs[1].fresh]
      /\ \A n \in Nat : ArrayCount(t, n) \in Nat
      /\ \A v, n : Write(t, cs, v, n) = WriteArray(t, cs, v, n)
      /\ \A v, s, p, n : Read(t, cs, v, s, p, n) = ReadArray(t, cs, v, s, p, n)
  BY ArrayIs
<1>2. Fresh(t, cs) \in Values(t, cs)
  BY <1>1 DEF Typed
<1>8. PICK M \in Nat : M = t.extent
  BY <1>1
<1>6. PICK d, V : M = t.extent /\ d = cs[1] /\ V = d.values
  BY <1>8
<1>7. Values(t, cs) = [1..M -> V] /\ Typed(d)
  BY <1>1, <1>6
<1>3. Default \in Nat
  BY Numbers
<1>4. ASSUME NEW v \in Values(t, cs), NEW n \in Nat PROVE Write(t, cs, v, n) \in Written
  <2>1. PICK count \in Nat : count = ArrayCount(t, n)
    BY <1>1
  <2>2. Refused("count_out_of_range") \in Written
    BY WroteTyped DEF Errc
  <2>3. ASSUME ~(count > M)
        PROVE  WriteAll(Same(d, count), v, Same(Default, count)) \in Written
    <3>1. PICK ds, ns : ds = Same(d, count) /\ ns = Same(Default, count)
      OBVIOUS
    <3>2. Len(ds) = count /\ \A i \in 1..count : ds[i] = d /\ ns[i] = Default
      BY <3>1, SameIs
    <3>3. \A i \in 1..Len(ds) : Typed(ds[i]) /\ v[i] \in ds[i].values /\ ns[i] \in Nat
      <4>1. \A i \in 1..count : v[i] \in V
        BY <1>7, <2>3
      <4> QED BY <1>3, <1>6, <1>7, <3>2, <4>1
    <3>4. Len(ds) \in Nat
      BY <3>2
    <3>5. WriteAll(ds, v, ns) \in Written
      BY <3>3, <3>4, WriteAllTyped
    <3> QED BY <3>1, <3>5
  <2>4. WriteArray(t, cs, v, n) \in Written
    BY <1>6, <2>1, <2>2, <2>3 DEF WriteArray
  <2> QED BY <1>1, <2>4
<1>5. ASSUME NEW v \in Values(t, cs), NEW s \in Seq(Bytes), NEW p \in 0..Len(s), NEW n \in Nat
      PROVE  Read(t, cs, v, s, p, n) \in [err : Errors, v : Values(t, cs), pos : p..Len(s)]
  <2>1. PICK count \in Nat : count = ArrayCount(t, n)
    BY <1>1
  <2>2. PICK R : R = [err : Errors, v : Values(t, cs), pos : p..Len(s)]
    OBVIOUS
  <2>3. Failed("count_out_of_range", v, p) \in R /\ Failed("insufficient_data", v, p) \in R
    BY <2>2, FailedTyped DEF Errors, Errc
  <2>4. ASSUME ~(count > M)
        PROVE  ReadAll(Same(d, count), v, Same(Default, count), s, p) \in R
    <3>1. PICK ds, ns : ds = Same(d, count) /\ ns = Same(Default, count)
      OBVIOUS
    <3>2. Len(ds) = count /\ \A i \in 1..count : ds[i] = d /\ ns[i] = Default
      BY <3>1, SameIs
    <3>4. Len(ds) \in Nat /\ Len(ds) <= M /\ v \in [1..M -> V]
      BY <1>7, <2>4, <3>2
    <3>5. \A i \in 1..Len(ds) :
              Typed(ds[i]) /\ v[i] \in ds[i].values /\ ds[i].values \subseteq V /\ ns[i] \in Nat
      <4>1. \A i \in 1..count : v[i] \in V
        BY <1>7, <2>4
      <4> QED BY <1>3, <1>6, <1>7, <3>2, <4>1
    <3>6. ReadAll(ds, v, ns, s, p) \in [err : Errors, v : [1..M -> V], pos : p..Len(s)]
      BY <3>4, <3>5, ReadAllTyped
    <3> QED BY <1>7, <2>2, <3>1, <3>6
  <2>5. ReadArray(t, cs, v, s, p, n) \in R
    BY <1>6, <2>1, <2>3, <2>4 DEF ReadArray
  <2>6. Read(t, cs, v, s, p, n) \in R
    BY <1>1, <2>5
  <2> QED BY <2>2, <2>6
<1> QED BY <1>2, <1>4, <1>5, TypedIf

\* As many elements as were read, never more than memory holds.
Pushes(c, s, p, n, g) ==
    /\ n \in Nat /\ g[0] = Done(<<>>, p)
    /\ \A k \in 0..n :
           /\ g[k] \in [err : Errors, v : Seq(c.values), pos : p..Len(s)]
           /\ Len(g[k].v) <= k /\ Len(g[k].v) <= MaxCount /\ (g[k].err = "ok" => Len(g[k].v) = k)
    /\ \A k \in 1..n : g[k] = PushStep(c, s, g[k - 1])

\* Elements pushed back one after the other, element by element.
LEMMA PushRounds ==
  ASSUME NEW c, Typed(c), NEW s \in Seq(Bytes), NEW p \in 0..Len(s), NEW n \in Nat
  PROVE  \E g : PushBack(c, s, p, n) = g[n] /\ Pushes(c, s, p, n, g)
<1> DEFINE Results == [err : Errors, v : Seq(c.values), pos : p..Len(s)]
<1>1. PICK g : /\ PushBack(c, s, p, n) = g[n] /\ g[0] = Done(<<>>, p)
               /\ \A k \in 1..n : g[k] = PushStep(c, s, g[k - 1])
  <2>1. \A p_ : \E g : /\ PushBack(c, s, p_, n) = g[n] /\ g[0] = Done(<<>>, p_)
                        /\ \A k \in 1..n : g[k] = PushStep(c, s, g[k - 1])
    BY PushLoop
  <2> QED BY <2>1
<1> DEFINE P(k, x) == /\ x \in Results
                      /\ Len(x.v) <= k /\ Len(x.v) <= MaxCount /\ (x.err = "ok" => Len(x.v) = k)
<1> DEFINE T == {k \in Nat : P(k, g[k])}
<1>2. 0 \in T
  <2>1. Done(<<>>, p) \in Results
    BY DEF Done, Errors, Errc
  <2>2. Done(<<>>, p).v = <<>> /\ Len(<<>>) = 0
    BY DEF Done
  <2> HIDE DEF Results
  <2> QED BY <1>1, <2>1, <2>2, Numbers
<1>3. ASSUME NEW k \in 0..(n - 1), k \in T PROVE k + 1 \in T
  <2>1. k + 1 \in 1..n /\ (k + 1) - 1 = k /\ k \in Nat /\ k + 1 \in Nat
    OBVIOUS
  <2>2. PICK x : x = g[k] /\ P(k, x)
    BY <1>3
  <2>3. PICK e : e = c.read[c.fresh][s][x.pos][Default]
    OBVIOUS
  <2>4. g[k + 1] = IF x.err # "ok" THEN x
                   ELSE IF e.err # "ok" THEN [e EXCEPT !.v = x.v]
                   ELSE IF Len(x.v) = MaxCount THEN Failed("bad_alloc", x.v, e.pos)
                   ELSE Done(Append(x.v, e.v), e.pos)
    BY <1>1, <2>1, <2>2, <2>3, Zenon DEF PushStep
  <2>5. x.pos \in 0..Len(s) /\ x.pos \in p..Len(s) /\ x.v \in Seq(c.values) /\ x \in Results
    BY <2>2
  <2>6. e \in [err : Errors, v : c.values, pos : x.pos..Len(s)]
    BY <2>3, <2>5, Numbers DEF Typed
  <2>7. e.err \in Errors /\ e.v \in c.values /\ e.pos \in p..Len(s)
        /\ e = [err |-> e.err, v |-> e.v, pos |-> e.pos]
    BY <2>5, <2>6
  <2>8. Len(x.v) <= k /\ Len(x.v) <= MaxCount /\ (x.err = "ok" => Len(x.v) = k) /\ Len(x.v) \in Nat
    BY <2>2, <2>5
  <2>9. CASE x.err # "ok"
    <3>1. Len(x.v) <= k + 1
      BY <2>1, <2>8
    <3> HIDE DEF Results
    <3> QED BY <2>1, <2>4, <2>5, <2>8, <2>9, <3>1
  <2>10. CASE x.err = "ok" /\ e.err # "ok"
    <3>1. [e EXCEPT !.v = x.v] = [err |-> e.err, v |-> x.v, pos |-> e.pos]
      BY <2>7
    <3>2. PICK z : z = [err |-> e.err, v |-> x.v, pos |-> e.pos]
      OBVIOUS
    <3>3. z \in Results /\ z.v = x.v /\ z.err # "ok"
      BY <2>5, <2>7, <2>10, <3>2
    <3>4. g[k + 1] = z /\ Len(x.v) <= k + 1
      BY <2>1, <2>4, <2>8, <2>10, <3>1, <3>2
    <3> HIDE DEF Results
    <3> QED BY <2>1, <2>8, <3>3, <3>4
  <2>11. CASE x.err = "ok" /\ e.err = "ok" /\ Len(x.v) = MaxCount
    <3>1. PICK z : z = Failed("bad_alloc", x.v, e.pos)
      OBVIOUS
    <3>2. z \in Results /\ z.v = x.v /\ z.err # "ok"
      BY <2>5, <2>7, <3>1 DEF Failed, Errors
    <3>3. g[k + 1] = z /\ Len(x.v) <= k + 1
      BY <2>1, <2>4, <2>8, <2>11, <3>1
    <3> HIDE DEF Results
    <3> QED BY <2>1, <2>8, <3>2, <3>3
  <2>12. CASE x.err = "ok" /\ e.err = "ok" /\ Len(x.v) # MaxCount
    <3>1. PICK y : y = Append(x.v, e.v)
      OBVIOUS
    <3>2. y \in Seq(c.values) /\ Len(y) = Len(x.v) + 1
      BY <2>5, <2>7, <3>1
    <3>3. PICK z : z = Done(y, e.pos)
      OBVIOUS
    <3>4. z \in Results /\ z.v = y
      BY <2>7, <3>2, <3>3 DEF Done, Errors, Errc
    <3>5. g[k + 1] = z
      BY <2>4, <2>12, <3>1, <3>3
    <3>6. Len(y) = k + 1 /\ Len(y) <= MaxCount
      BY <2>8, <2>12, <3>2, Numbers
    <3> HIDE DEF Results
    <3> QED BY <2>1, <3>4, <3>5, <3>6
  <2> QED BY <2>9, <2>10, <2>11, <2>12
<1> HIDE DEF T
<1>4. \A k \in 0..n : k \in T
  BY <1>2, <1>3, Upwards
<1>5. Pushes(c, s, p, n, g)
  BY <1>1, <1>4 DEF Pushes, T
<1> QED BY <1>1, <1>5

\* They are elements of the type, never more than memory holds.
LEMMA PushTyped ==
  ASSUME NEW c, Typed(c), NEW s \in Seq(Bytes), NEW p \in 0..Len(s), NEW n \in Nat
  PROVE  LET r == PushBack(c, s, p, n)
         IN  /\ r \in [err : Errors, v : Seq(c.values), pos : p..Len(s)]
             /\ Len(r.v) <= n /\ Len(r.v) <= MaxCount /\ (r.err = "ok" => Len(r.v) = n)
<1>1. PICK g : PushBack(c, s, p, n) = g[n] /\ Pushes(c, s, p, n, g)
  BY PushRounds
<1>2. n \in 0..n
  OBVIOUS
<1> QED BY <1>1, <1>2 DEF Pushes

\* Byte j of element i among those of n elements of w bytes.
LEMMA Within ==
  ASSUME NEW w \in Nat \ {0}, NEW n \in Nat, NEW i \in 1..n, NEW j \in 1..w
  PROVE  (i - 1) * w \in Nat /\ n * w \in Nat /\ (i - 1) * w + j \in 1..(n * w)
<1>1. (i - 1) * w \in Nat /\ n * w \in Nat /\ (n - i) * w \in Nat
  OBVIOUS
<1>2. n * w = (i - 1) * w + w + (n - i) * w
  OBVIOUS
<1>3. PICK a \in Nat, b \in Nat, m \in Nat : a = (i - 1) * w /\ b = (n - i) * w /\ m = n * w
  BY <1>1
<1>4. m = a + w + b
  BY <1>2, <1>3
<1> QED BY <1>3, <1>4

\* Which element and which of its bytes number j is.
LEMMA Where ==
  ASSUME NEW w \in Nat \ {0}, NEW n \in Nat, NEW j \in 1..(n * w)
  PROVE  /\ ((j - 1) \div w) + 1 \in 1..n /\ ((j - 1) % w) + 1 \in 1..w
         /\ j = ((j - 1) \div w) * w + (((j - 1) % w) + 1)
<1>1. PICK q \in Int, r \in 0..(w - 1) : q = (j - 1) \div w /\ r = (j - 1) % w
  OBVIOUS
<1>2. n * w \in Int
  OBVIOUS
<1>3. j - 1 = w * q + r /\ j \in Int /\ j >= 1 /\ j <= n * w
  BY <1>1, <1>2
<1>4. q >= 0
  <2>1. CASE q <= -1
    <3>1. w * q <= -w
      BY <2>1
    <3>2. w * q \in Int
      OBVIOUS
    <3> QED BY <1>3, <3>1, <3>2
  <2> QED BY <2>1
<1>5. q < n
  <2>1. CASE q >= n
    <3>1. w * q >= n * w
      BY <2>1
    <3>2. w * q \in Int
      OBVIOUS
    <3> QED BY <1>2, <1>3, <3>1, <3>2
  <2> QED BY <2>1
<1>6. w * q = q * w /\ w * q \in Int
  OBVIOUS
<1>7. j = q * w + (r + 1)
  BY <1>3, <1>6
<1> QED BY <1>1, <1>4, <1>5, <1>7

\* Scalars behind p, when there are enough bytes for them.
LEMMA ChunksTyped ==
  ASSUME NEW t, t.width \in Nat \ {0}, NEW s \in Seq(Bytes), NEW p \in 0..Len(s), NEW n \in Nat,
         ~(n * t.width > Len(s) - p)
  PROVE  /\ Chunks(t, s, p, n) \in Seq([1..t.width -> Bytes]) /\ Len(Chunks(t, s, p, n)) = n
         /\ n * t.width \in Nat /\ p + n * t.width \in p..Len(s)
<1>1. PICK w \in Nat \ {0} : w = t.width
  OBVIOUS
<1>2. n * w \in Nat /\ p + n * w \in p..Len(s)
  <2>1. n * w \in Nat
    OBVIOUS
  <2> QED BY <1>1, <2>1
<1>3. ASSUME NEW i \in 1..n, NEW j \in 1..w PROVE s[p + (i - 1) * w + j] \in Bytes
  <2>1. (i - 1) * w \in Nat /\ (i - 1) * w + j \in 1..(n * w)
    BY Within
  <2>2. p + (i - 1) * w + j \in 1..Len(s)
    BY <1>2, <2>1
  <2> QED BY <2>2
<1>4. \A i \in 1..n : [j \in 1..w |-> s[p + (i - 1) * w + j]] \in [1..w -> Bytes]
  BY <1>3
<1>5. PICK B : B = [1..w -> Bytes]
  OBVIOUS
<1>6. PICK x : x = [i \in 1..n |-> [j \in 1..w |-> s[p + (i - 1) * w + j]]]
  OBVIOUS
<1>7. x \in [1..n -> B]
  BY <1>4, <1>5, <1>6
<1>8. x \in Seq(B) /\ Len(x) = n
  BY <1>7
<1> QED BY <1>1, <1>2, <1>5, <1>6, <1>8 DEF Chunks

\* The bytes of a contiguous container.
LEMMA BlockBytes ==
  ASSUME NEW t, t.width \in Nat \ {0}, NEW v \in Seq([1..t.width -> Bytes]), NEW n \in 0..Len(v)
  PROVE  /\ WriteBlock(t, v, n) \in Written /\ WriteBlock(t, v, n).err = "ok"
         /\ Len(WriteBlock(t, v, n).bytes) = n * t.width /\ n * t.width \in Nat
         /\ \A j \in 1..(n * t.width) : WriteBlock(t, v, n).bytes[j] =
                v[((j - 1) \div t.width) + 1][((j - 1) % t.width) + 1]
<1>1. PICK w \in Nat \ {0} : w = t.width
  OBVIOUS
<1>2. n * w \in Nat
  OBVIOUS
<1>3. PICK b : b = [j \in 1..(n * w) |-> v[((j - 1) \div w) + 1][((j - 1) % w) + 1]]
  OBVIOUS
<1>4. ASSUME NEW j \in 1..(n * w) PROVE v[((j - 1) \div w) + 1][((j - 1) % w) + 1] \in Bytes
  <2>1. PICK a \in 1..n, e \in 1..w : a = ((j - 1) \div w) + 1 /\ e = ((j - 1) % w) + 1
    <3>1. n \in Nat
      OBVIOUS
    <3>2. ((j - 1) \div w) + 1 \in 1..n /\ ((j - 1) % w) + 1 \in 1..w
      BY <3>1, Where
    <3> QED BY <3>2
  <2>2. v[a] \in [1..w -> Bytes]
    BY <1>1
  <2> QED BY <2>1, <2>2
<1>5. b \in Seq(Bytes) /\ Len(b) = n * w
  BY <1>2, <1>3, <1>4
<1>6. WriteBlock(t, v, n) = Wrote(b)
  BY <1>1, <1>3 DEF WriteBlock
<1>7. Wrote(b) \in Written /\ Wrote(b).err = "ok" /\ Wrote(b).bytes = b
  BY <1>5, WroteTyped DEF Wrote
<1>8. PICK x : x = WriteBlock(t, v, n)
  OBVIOUS
<1>9. x \in Written /\ x.err = "ok" /\ x.bytes = b
  BY <1>6, <1>7, <1>8
<1>10. \A j \in 1..(n * w) : b[j] = v[((j - 1) \div w) + 1][((j - 1) % w) + 1]
  BY <1>3
<1> QED BY <1>1, <1>2, <1>5, <1>8, <1>9, <1>10

\* What the elements of a container are.
Elements(t, cs) == IF t.k = "block" THEN [1..t.width -> Bytes] ELSE cs[1].values

\* What a container is written and read with.
LEMMA ContainerIs ==
  ASSUME NEW t, NEW cs, NEW c, Made(t, cs, c), t.k \in {"list", "block"}
  PROVE  /\ t.limit \in Nat /\ Room(t) \in Nat /\ Room(t) <= MaxCount /\ Room(t) <= t.limit
         /\ \A m \in Nat : m <= t.limit /\ m <= MaxCount => m <= Room(t)
         /\ t.k = "block" => t.width \in Nat \ {0}
         /\ t.k = "list" => t.reserves \in BOOLEAN /\ Len(cs) = 1 /\ Len(t.of) = 1
         /\ Fresh(t, cs) = <<>> /\ c.whole = Nat
         /\ Values(t, cs) = {v \in Seq(Elements(t, cs)) : Len(v) <= Room(t)}
         /\ \A v, n : Write(t, cs, v, n) = WriteContainer(t, cs, v, n)
         /\ \A v, s, p, n : Read(t, cs, v, s, p, n) = ReadContainer(t, cs, v, s, p, n)
<1>1. /\ t.limit \in Nat /\ MaxCount \in Nat
      /\ t.k = "block" => t.width \in Nat \ {0}
      /\ t.k = "list" => t.reserves \in BOOLEAN /\ Len(cs) = 1 /\ Len(t.of) = 1
  BY Numbers DEF Made, WellFormed
<1>2. /\ Room(t) \in Nat /\ Room(t) <= MaxCount /\ Room(t) <= t.limit
      /\ \A m \in Nat : m <= t.limit /\ m <= MaxCount => m <= Room(t)
  BY <1>1 DEF Room
<1>3. Fresh(t, cs) = <<>> /\ Values(t, cs) = UpTo(Elements(t, cs), Room(t))
  BY DEF Fresh, Values, Elements
<1>4. Values(t, cs) = {v \in Seq(Elements(t, cs)) : Len(v) <= Room(t)}
  BY <1>2, <1>3, UpToIs
<1>5. \A v, n : Write(t, cs, v, n) = WriteContainer(t, cs, v, n)
  BY DEF Write
<1>6. \A v, s, p, n : Read(t, cs, v, s, p, n) = ReadContainer(t, cs, v, s, p, n)
  BY DEF Read
<1>7. c.whole = Nat
  BY DEF Made, Whole
<1> QED BY <1>1, <1>2, <1>3, <1>4, <1>5, <1>6, <1>7

\* Containers and arrays have a length.
LEMMA Lengths ==
  ASSUME NEW t, NEW cs, NEW c, Made(t, cs, c), t.k \in {"list", "block", "array"},
         NEW v \in c.values
  PROVE  Len(v) \in Nat
<1>1. v \in Values(t, cs)
  BY DEF Made
<1>2. CASE t.k \in {"list", "block"}
  <2>1. v \in Seq(Elements(t, cs))
    BY <1>1, <1>2, ContainerIs
  <2> QED BY <2>1
<1>3. CASE t.k = "array"
  <2>1. PICK M, V : M \in Nat /\ v \in [1..M -> V]
    <3>1. t.extent \in Nat /\ Values(t, cs) = [1..t.extent -> cs[1].values]
      BY <1>3, ArrayIs
    <3> QED BY <1>1, <3>1
  <2> QED BY <2>1
<1> QED BY <1>2, <1>3

\* Containers.
LEMMA ContainerTyped ==
  ASSUME NEW t, NEW cs, NEW c, Made(t, cs, c), t.k \in {"list", "block"},
         t.k = "list" => Typed(cs[1])
  PROVE  Typed(c)
<1>1. PICK S, E, m, d :
          S = Values(t, cs) /\ E = Elements(t, cs) /\ m = Room(t) /\ d = cs[1] /\ m \in Nat
  <2>1. Room(t) \in Nat
    BY ContainerIs
  <2> QED BY <2>1
<1>2. S = {v \in Seq(E) : Len(v) <= m} /\ Fresh(t, cs) = <<>> /\ Default \in Nat
  BY <1>1, ContainerIs, Numbers
<1>3. Fresh(t, cs) \in Values(t, cs)
  <2>1. <<>> \in Seq(E) /\ Len(<<>>) = 0
    OBVIOUS
  <2>2. <<>> \in S
    BY <1>1, <1>2, <2>1
  <2> QED BY <1>1, <1>2, <2>2
<1>4. ASSUME NEW v \in S, NEW n \in Nat PROVE Write(t, cs, v, n) \in Written
  <2>1. v \in Seq(E) /\ Len(v) \in Nat
    BY <1>2
  <2>2. PICK count \in Nat : count = WriteCount(t, v, n)
    BY <2>1 DEF WriteCount
  <2>3. Refused("container_too_small") \in Written
    BY WroteTyped DEF Errc
  <2>4. ASSUME ~(count > Len(v)), t.k = "block" PROVE WriteBlock(t, v, count) \in Written
    <3>1. E = [1..t.width -> Bytes] /\ t.width \in Nat \ {0} /\ count \in 0..Len(v)
      BY <1>1, <2>1, <2>4, ContainerIs DEF Elements
    <3> QED BY <2>1, <3>1, BlockBytes
  <2>5. ASSUME ~(count > Len(v)), t.k = "list"
        PROVE  WriteAll(Same(d, count), v, Same(Default, count)) \in Written
    <3>1. PICK ds, ns : ds = Same(d, count) /\ ns = Same(Default, count)
      OBVIOUS
    <3>2. Len(ds) = count /\ \A i \in 1..count : ds[i] = d /\ ns[i] = Default
      BY <3>1, SameIs
    <3>3. E = d.values /\ Typed(d)
      BY <1>1, <2>5 DEF Elements
    <3>4. \A i \in 1..count : v[i] \in E
      BY <2>1, <2>5
    <3>5. \A i \in 1..Len(ds) : Typed(ds[i]) /\ v[i] \in ds[i].values /\ ns[i] \in Nat
      BY <1>2, <3>2, <3>3, <3>4
    <3>6. Len(ds) \in Nat
      BY <3>2
    <3>7. WriteAll(ds, v, ns) \in Written
      BY <3>5, <3>6, WriteAllTyped
    <3> QED BY <3>1, <3>7
  <2>6. WriteContainer(t, cs, v, n) \in Written
    BY <1>1, <2>2, <2>3, <2>4, <2>5 DEF WriteContainer
  <2> QED BY <2>6, ContainerIs
<1>5. ASSUME NEW v \in S, NEW s \in Seq(Bytes), NEW p \in 0..Len(s), NEW n \in Nat
      PROVE  Read(t, cs, v, s, p, n) \in [err : Errors, v : S, pos : p..Len(s)]
  <2>1. PICK R : R = [err : Errors, v : S, pos : p..Len(s)]
    OBVIOUS
  <2>2. /\ Failed("missing_element_count", v, p) \in R /\ Failed("count_out_of_range", v, p) \in R
        /\ Failed("insufficient_data", v, p) \in R /\ Failed("bad_alloc", v, p) \in R
        /\ Failed("bad_alloc", <<>>, p) \in R
    <3>1. <<>> \in S
      BY <1>1, <1>2, <1>3
    <3> QED BY <2>1, <3>1, FailedTyped DEF Errors, Errc
  <2>3. ASSUME t.k = "list", ~(n > t.limit) PROVE PushBack(d, s, p, n) \in R
    <3>1. E = d.values /\ Typed(d)
      BY <1>1, <2>3 DEF Elements
    <3>2. PICK r : r = PushBack(d, s, p, n)
      OBVIOUS
    <3>3. /\ r \in [err : Errors, v : Seq(E), pos : p..Len(s)]
          /\ Len(r.v) <= n /\ Len(r.v) <= MaxCount
      BY <3>1, <3>2, PushTyped
    <3>4. Len(r.v) \in Nat /\ t.limit \in Nat
      BY <3>3, ContainerIs
    <3>5. Len(r.v) <= m
      <4>1. Len(r.v) <= t.limit
        BY <2>3, <3>3, <3>4
      <4> QED BY <1>1, <3>3, <3>4, <4>1, ContainerIs
    <3>6. r.v \in S
      BY <1>2, <3>3, <3>5
    <3> QED BY <2>1, <3>2, <3>3, <3>6
  <2>4. ASSUME t.k = "block", ~(n > t.limit), ~(n * t.width > Len(s) - p), ~(n > MaxCount)
        PROVE  Done(Chunks(t, s, p, n), p + n * t.width) \in R
    <3>1. E = [1..t.width -> Bytes] /\ t.width \in Nat \ {0}
      BY <1>1, <2>4, ContainerIs DEF Elements
    <3>2. PICK x, q : x = Chunks(t, s, p, n) /\ q = p + n * t.width
      OBVIOUS
    <3>3. x \in Seq(E) /\ Len(x) = n /\ q \in p..Len(s)
      BY <2>4, <3>1, <3>2, ChunksTyped
    <3>4. n <= m
      <4>1. n <= t.limit /\ n <= MaxCount
        BY <2>4, ContainerIs, Numbers
      <4> QED BY <1>1, <4>1, ContainerIs
    <3>5. x \in S
      BY <1>2, <3>3, <3>4
    <3>6. Done(x, q) \in R
      BY <2>1, <3>3, <3>5 DEF Done, Errors, Errc
    <3> QED BY <3>2, <3>6
  <2>5. ReadContainer(t, cs, v, s, p, n) \in R
    <3>1. CASE n = Default \/ n > t.limit
      BY <2>2, <3>1 DEF ReadContainer
    <3>2. CASE ~(n = Default \/ n > t.limit) /\ t.k = "list"
      <4>1. ReadContainer(t, cs, v, s, p, n) = ReadList(t, cs, s, p, n)
        BY <3>2 DEF ReadContainer
      <4> QED BY <1>1, <2>2, <2>3, <3>2, <4>1 DEF ReadList
    <3>3. CASE ~(n = Default \/ n > t.limit) /\ t.k = "block"
      <4>1. ReadContainer(t, cs, v, s, p, n) = ReadBlock(t, v, s, p, n)
        BY <3>3 DEF ReadContainer
      <4> QED BY <2>2, <2>4, <3>3, <4>1 DEF ReadBlock
    <3> QED BY <3>1, <3>2, <3>3
  <2> QED BY <2>1, <2>5, ContainerIs
<1> QED BY <1>1, <1>3, <1>4, <1>5, TypedIf

\* A size prefix.
LEMMA WriteWithSizeTyped ==
  ASSUME NEW c, Typed(c), NEW v \in c.values, Len(v) \in Nat
  PROVE  WriteWithSize(c, v) \in Written
<1>1. PICK a : a = Wrote(WriteCompact[Len(v)])
  OBVIOUS
<1>2. WriteCompact[Len(v)] \in Seq(Bytes)
  BY Groups
<1>3. a \in Written
  BY <1>1, <1>2, WroteTyped
<1>4. c.write[v][Default] \in Written
  BY Numbers DEF Typed
<1>5. PICK w : w = Then(a, c.write[v][Default])
  OBVIOUS
<1>6. w \in Written /\ Refused("count_out_of_range") \in Written
  BY <1>3, <1>4, <1>5, ThenTyped, WroteTyped DEF Errc
<1>7. Refused(w.err) \in Written
  <2>1. w.err \in Errc
    BY <1>6 DEF Written
  <2> QED BY <2>1, WroteTyped
<1> QED BY <1>1, <1>5, <1>6, <1>7 DEF WriteWithSize

\* Containers behind their sizes keep their types.
LEMMA ReadWithSizeTyped ==
  ASSUME NEW c, Typed(c), NEW v \in c.values, NEW s \in Seq(Bytes), NEW p \in 0..Len(s),
         NEW max \in Nat
  PROVE  ReadWithSize(c, v, s, p, max) \in [err : Errors, v : c.values, pos : p..Len(s)]
<1>1. PICK count : count = ReadCompact(s, p)
  OBVIOUS
<1>2. count \in [err : CompactErrors, v : 0..Default, pos : p..Len(s)]
  BY <1>1, CompactTyped
<1>3. /\ count.err \in Errors /\ count.v \in Nat /\ count.pos \in 0..Len(s) /\ count.pos \in p..Len(s)
      /\ p \in p..Len(s)
  BY <1>2, Numbers DEF CompactErrors, Errors, Errc
<1>4. PICK r : r = c.read[v][s][count.pos][count.v]
  OBVIOUS
<1>5. r \in [err : Errors, v : c.values, pos : count.pos..Len(s)]
  BY <1>3, <1>4 DEF Typed
<1>6. /\ r.err \in Errors /\ r.v \in c.values /\ r.pos \in p..Len(s)
      /\ r = [err |-> r.err, v |-> r.v, pos |-> r.pos]
  BY <1>3, <1>5
<1>7. ReadWithSize(c, v, s, p, max) =
          IF count.err # "ok" THEN Failed(count.err, v, p)
          ELSE IF count.v > max \/ count.v >= Default THEN Failed("count_out_of_range", v, p)
          ELSE IF r.err # "ok" THEN [r EXCEPT !.pos = p] ELSE r
  BY <1>1, <1>4 DEF ReadWithSize
<1>8. [r EXCEPT !.pos = p] = [err |-> r.err, v |-> r.v, pos |-> p]
  BY <1>6
<1>9. PICK R : R = [err : Errors, v : c.values, pos : p..Len(s)]
  OBVIOUS
<1>10. /\ Failed(count.err, v, p) \in R /\ Failed("count_out_of_range", v, p) \in R
       /\ r \in R /\ [err |-> r.err, v |-> r.v, pos |-> p] \in R
  <2>1. Failed(count.err, v, p) \in R /\ Failed("count_out_of_range", v, p) \in R
    BY <1>3, <1>9, FailedTyped DEF Errors, Errc
  <2>2. r \in R /\ [err |-> r.err, v |-> r.v, pos |-> p] \in R
    BY <1>3, <1>6, <1>9
  <2> QED BY <2>1, <2>2
<1> QED BY <1>7, <1>8, <1>9, <1>10

\* Size-prefixed containers.
LEMMA PrefixedTyped ==
  ASSUME NEW t, NEW cs, NEW c, Made(t, cs, c), t.k = "prefixed", Typed(cs[1]),
         \A v \in cs[1].values : Len(v) \in Nat
  PROVE  Typed(c)
<1>1. PICK d : d = cs[1]
  OBVIOUS
<1>2. Values(t, cs) = d.values /\ Fresh(t, cs) = d.fresh /\ t.max \in Nat
  BY <1>1, Numbers DEF Values, Fresh, Made, WellFormed
<1>3. Fresh(t, cs) \in Values(t, cs)
  BY <1>1, <1>2 DEF Typed
<1>4. ASSUME NEW v \in Values(t, cs), NEW n \in Nat PROVE Write(t, cs, v, n) \in Written
  <2>1. WriteWithSize(d, v) \in Written /\ Refused("count_out_of_range") \in Written
    BY <1>1, <1>2, WriteWithSizeTyped, WroteTyped DEF Errc
  <2>2. Write(t, cs, v, n) = WritePrefixed(t, cs, v)
    BY DEF Write
  <2> QED BY <1>1, <2>1, <2>2 DEF WritePrefixed
<1>5. ASSUME NEW v \in Values(t, cs), NEW s \in Seq(Bytes), NEW p \in 0..Len(s), NEW n \in Nat
      PROVE  Read(t, cs, v, s, p, n) \in [err : Errors, v : Values(t, cs), pos : p..Len(s)]
  <2>1. ReadWithSize(d, v, s, p, t.max) \in [err : Errors, v : d.values, pos : p..Len(s)]
    BY <1>1, <1>2, ReadWithSizeTyped
  <2>2. Read(t, cs, v, s, p, n) = ReadWithSize(d, v, s, p, t.max)
    BY <1>1 DEF Read
  <2> QED BY <1>2, <2>1, <2>2
<1> QED BY <1>3, <1>4, <1>5, TypedIf

\* The values of a variant.
LEMMA VariantIs ==
  ASSUME NEW t, NEW cs, NEW c, Made(t, cs, c), t.k = "variant"
  PROVE  /\ Len(cs) \in 1..Default /\ Fresh(t, cs) = <<0, cs[1].fresh>> /\ <<>> \in Values(t, cs)
         /\ \A i \in 1..Len(cs) : \A w \in cs[i].values :
                <<i - 1, w>> \in Values(t, cs) /\ <<i - 1, w>> # <<>>
         /\ \A v \in Values(t, cs) : v # <<>> =>
                \E i \in 1..Len(cs) : \E w \in cs[i].values :
                    /\ v = <<i - 1, w>> /\ v[1] = i - 1 /\ v[2] = w /\ v[1] + 1 = i
<1>1. Len(cs) \in 1..Default
  BY DEF Made, WellFormed
<1>2. Fresh(t, cs) = <<0, cs[1].fresh>>
  BY DEF Fresh
<1>3. PICK S : S = Values(t, cs)
  OBVIOUS
<1>4. S = {<<>>} \cup UNION {{<<i - 1, v>> : v \in cs[i].values} : i \in 1..Len(cs)}
  BY <1>3 DEF Values
<1>5. ASSUME NEW i \in 1..Len(cs), NEW w \in cs[i].values
      PROVE  <<i - 1, w>> \in S /\ <<i - 1, w>> # <<>>
  <2>1. <<i - 1, w>> \in {<<i - 1, v>> : v \in cs[i].values}
    OBVIOUS
  <2>2. <<i - 1, w>> \in S
    BY <1>4, <2>1
  <2>3. Len(<<i - 1, w>>) = 2 /\ Len(<<>>) = 0
    OBVIOUS
  <2> QED BY <2>2, <2>3
<1>6. ASSUME NEW v \in S, v # <<>>
      PROVE  \E i \in 1..Len(cs) : \E w \in cs[i].values :
                 /\ v = <<i - 1, w>> /\ v[1] = i - 1 /\ v[2] = w /\ v[1] + 1 = i
  <2>1. PICK i \in 1..Len(cs) : v \in {<<i - 1, w>> : w \in cs[i].values}
    BY <1>4, <1>6
  <2>2. PICK w \in cs[i].values : v = <<i - 1, w>>
    BY <2>1
  <2>3. v[1] = i - 1 /\ v[2] = w /\ v[1] + 1 = i
    BY <2>2
  <2> QED BY <2>2, <2>3
<1>7. <<>> \in S
  BY <1>4
<1> QED BY <1>1, <1>2, <1>3, <1>5, <1>6, <1>7

\* Variants.
LEMMA VariantTyped ==
  ASSUME NEW t, NEW cs, NEW c, Made(t, cs, c), t.k = "variant",
         \A i \in 1..Len(cs) : Typed(cs[i])
  PROVE  Typed(c)
<1>1. PICK S, N : S = Values(t, cs) /\ N = Len(cs) /\ N \in Nat
  BY DEF Made
<1>2. /\ N >= 1 /\ Fresh(t, cs) = <<0, cs[1].fresh>> /\ <<>> \in S
      /\ \A i \in 1..N : \A w \in cs[i].values : <<i - 1, w>> \in S
      /\ \A v \in S : v # <<>> =>
             \E i \in 1..N : \E w \in cs[i].values :
                 /\ v = <<i - 1, w>> /\ v[1] = i - 1 /\ v[2] = w /\ v[1] + 1 = i
  <2>1. N >= 1
    <3>1. Len(cs) \in 1..Default
      BY VariantIs
    <3> QED BY <1>1, <3>1, Numbers
  <2> QED BY <1>1, <2>1, VariantIs
<1>3. Fresh(t, cs) \in Values(t, cs)
  <2>1. 1 \in 1..N /\ cs[1].fresh \in cs[1].values /\ 1 - 1 = 0
    BY <1>1, <1>2 DEF Typed
  <2> QED BY <1>1, <1>2, <2>1
<1>4. ASSUME NEW v \in S, NEW n \in Nat PROVE Write(t, cs, v, n) \in Written
  <2>1. Write(t, cs, v, n) = WriteVariant(cs, v)
    BY DEF Write
  <2>2. CASE v = <<>>
    <3>1. Refused("invalid_value") \in Written
      BY WroteTyped DEF Errc
    <3> QED BY <2>1, <2>2, <3>1 DEF WriteVariant
  <2>3. CASE v # <<>>
    <3>1. PICK i \in 1..N : \E w \in cs[i].values :
              /\ v[1] = i - 1 /\ v[2] = w /\ v[1] + 1 = i
      BY <1>2, <2>3
    <3>2. cs[v[1] + 1].write[v[2]][Default] \in Written
      BY <1>1, <3>1, Numbers DEF Typed
    <3>3. WriteCompact[v[1]] \in Seq(Bytes)
      <4>1. v[1] \in Nat
        BY <3>1
      <4> QED BY <4>1, Groups
    <3>4. Wrote(WriteCompact[v[1]]) \in Written
      BY <3>3, WroteTyped
    <3> QED BY <2>1, <2>3, <3>2, <3>4, ThenTyped DEF WriteVariant
  <2> QED BY <2>2, <2>3
<1>5. ASSUME NEW v \in S, NEW s \in Seq(Bytes), NEW p \in 0..Len(s), NEW n \in Nat
      PROVE  Read(t, cs, v, s, p, n) \in [err : Errors, v : S, pos : p..Len(s)]
  <2>1. PICK index : index = ReadCompact(s, p)
    OBVIOUS
  <2>2. index \in [err : CompactErrors, v : 0..Default, pos : p..Len(s)]
    BY <2>1, CompactTyped
  <2>3. /\ index.err \in Errors /\ index.v \in Nat /\ index.pos \in 0..Len(s)
        /\ index.pos \in p..Len(s)
    BY <2>2, Numbers DEF CompactErrors, Errors, Errc
  <2>4. PICK d : d = cs[index.v + 1]
    OBVIOUS
  <2>5. PICK r : r = d.read[d.fresh][s][index.pos][Default]
    OBVIOUS
  <2>6. ReadVariant(cs, v, s, p) =
            IF index.err # "ok" THEN Failed(index.err, v, p)
            ELSE IF index.v >= N THEN Failed("invalid_value", v, index.pos)
            ELSE [r EXCEPT !.v = IF r.err = "ok" THEN <<index.v, @>> ELSE v]
    BY <1>1, <2>1, <2>4, <2>5 DEF ReadVariant
  <2>7. Read(t, cs, v, s, p, n) = ReadVariant(cs, v, s, p)
    BY DEF Read
  <2>8. PICK R : R = [err : Errors, v : S, pos : p..Len(s)]
    OBVIOUS
  <2>9. CASE index.err # "ok"
    <3>1. Failed(index.err, v, p) \in R
      BY <2>3, <2>8, FailedTyped
    <3> QED BY <2>6, <2>7, <2>8, <2>9, <3>1
  <2>10. CASE index.err = "ok" /\ index.v >= N
    <3>1. Failed("invalid_value", v, index.pos) \in R
      BY <2>3, <2>8 DEF Failed, Errors, Errc
    <3> QED BY <2>6, <2>7, <2>8, <2>10, <3>1
  <2>11. CASE index.err = "ok" /\ ~(index.v >= N)
    <3>1. index.v + 1 \in 1..N /\ (index.v + 1) - 1 = index.v
      BY <1>1, <2>3, <2>11
    <3>2. Typed(d)
      BY <1>1, <2>4, <3>1
    <3>3. r \in [err : Errors, v : d.values, pos : index.pos..Len(s)]
      BY <2>3, <2>5, <3>2, Numbers DEF Typed
    <3>4. /\ r.err \in Errors /\ r.v \in d.values /\ r.pos \in p..Len(s)
          /\ r = [err |-> r.err, v |-> r.v, pos |-> r.pos]
      BY <2>3, <3>3
    <3>5. <<index.v, r.v>> \in S
      BY <1>2, <2>4, <3>1, <3>4
    <3>6. [r EXCEPT !.v = IF r.err = "ok" THEN <<index.v, @>> ELSE v] =
              [err |-> r.err, v |-> IF r.err = "ok" THEN <<index.v, r.v>> ELSE v, pos |-> r.pos]
      BY <3>4
    <3>7. [err |-> r.err, v |-> IF r.err = "ok" THEN <<index.v, r.v>> ELSE v, pos |-> r.pos] \in R
      BY <2>8, <3>4, <3>5
    <3> QED BY <2>6, <2>7, <2>8, <2>11, <3>6, <3>7
  <2> QED BY <2>9, <2>10, <2>11
<1> QED BY <1>1, <1>3, <1>4, <1>5, TypedIf

\* Whatever a type is made of, its codec keeps to its values, ends with
\* declared errors and stays within the bytes there are.
THEOREM EveryTyped == \A t \in Universe : Typed(Codec[t])
<1> DEFINE T == {t \in Universe : Typed(Codec[t])}
<1>1. ASSUME NEW t \in Universe, \A i \in 1..Len(t.of) : t.of[i] \in T
      PROVE  t \in T
  <2>1. PICK c, cs : c = Codec[t] /\ cs = PartsOf(t)
    OBVIOUS
  <2>2. /\ Made(t, cs, c)
        /\ \A i \in 1..Len(t.of) : t.of[i] \in Universe /\ cs[i] = Codec[t.of[i]]
    BY <2>1, AllMade
  <2>3. Len(cs) = Len(t.of) /\ t.k \in Kinds /\ WellFormed(t)
    BY <2>2 DEF Made, WellFormed
  <2>4. \A i \in 1..Len(cs) : Typed(cs[i])
    BY <1>1, <2>2, <2>3
  <2>5. t.k \in {"optional", "ptr", "array", "list", "prefixed"} => Typed(cs[1])
    <3>1. t.k \in {"optional", "ptr", "array", "list", "prefixed"} => Len(t.of) = 1
      BY <2>3 DEF WellFormed
    <3>2. Len(t.of) = 1 => 1 \in 1..Len(cs)
      BY <2>3
    <3> QED BY <2>4, <3>1, <3>2
  <2>6. Typed(c)
    <3>1. CASE t.k \in {"byte", "bool", "unit"}
      BY <2>2, <3>1, ScalarTyped
    <3>2. CASE t.k = "optional"
      BY <2>2, <2>5, <3>2, OptionalTyped
    <3>3. CASE t.k = "ptr"
      BY <2>2, <2>5, <3>3, PtrTyped
    <3>4. CASE t.k \in {"tuple", "struct"}
      BY <2>2, <2>4, <3>4, RowTyped
    <3>5. CASE t.k = "array"
      BY <2>2, <2>5, <3>5, ArrayTyped
    <3>6. CASE t.k \in {"list", "block"}
      BY <2>2, <2>5, <3>6, ContainerTyped
    <3>7. CASE t.k = "prefixed"
      <4>1. PICK u \in Universe : u = t.of[1] /\ cs[1] = Codec[u] /\ u.k \in {"list", "block"}
        BY <2>2, <2>3, <3>7 DEF WellFormed
      <4>2. \A v \in Codec[u].values : Len(v) \in Nat
        BY <4>1, AllMade, Lengths
      <4> QED BY <2>2, <2>5, <3>7, <4>1, <4>2, PrefixedTyped
    <3>8. CASE t.k = "variant"
      BY <2>2, <2>4, <3>8, VariantTyped
    <3> QED BY <2>3, <3>1, <3>2, <3>3, <3>4, <3>5, <3>6, <3>7, <3>8 DEF Kinds
  <2> QED BY <2>1, <2>6
<1> HIDE DEF T
<1>2. Universe \subseteq T
  BY <1>1, AllTypes
<1> QED BY <1>2 DEF T

----------------------------------------------------------------------------
(* The calls keep their types.                                             *)

\* The type invariant, with the two things that no call changes or only appends to.
IInv == type \in Types /\ buf \in Seq(Bytes) /\ TypeOK

\* The codec of the object's type.
LEMMA OurCodec ==
  ASSUME type \in Types
  PROVE  /\ type \in Universe /\ C = Codec[type] /\ Typed(C) /\ Made(type, PartsOf(type), C)
         /\ Sized => \A v \in C.values : Len(v) \in Nat
<1>1. type \in Universe /\ C = Codec[type]
  BY Declarations DEF C
<1>2. Typed(C)
  BY <1>1, EveryTyped
<1>3. Made(type, PartsOf(type), C)
  BY <1>1, AllMade
<1>4. Sized => \A v \in C.values : Len(v) \in Nat
  BY <1>3, Lengths DEF Sized
<1> QED BY <1>1, <1>2, <1>3, <1>4

\* What a call reads into.
Outcomes == [err : Errors, v : C.values, pos : 0..Len(buf)]

\* What reading the stream gives.
LEMMA ReadOutcome ==
  ASSUME IInv, NEW v \in C.values, NEW p \in 0..Len(buf), NEW n \in Nat
  PROVE  C.read[v][buf][p][n] \in [err : Errors, v : C.values, pos : p..Len(buf)]
BY OurCodec DEF IInv, Typed

\* It stands inside the stream.
LEMMA OutcomeOf ==
  ASSUME IInv, NEW p \in 0..Len(buf), NEW r \in [err : Errors, v : C.values, pos : p..Len(buf)]
  PROVE  r \in Outcomes
BY DEF Outcomes

\* Objects filled by the application and data received are values and bytes.
LEMMA Initial == Init => IInv
<1> SUFFICES ASSUME Init PROVE IInv
  OBVIOUS
<1>1. type \in Types /\ Typed(C)
  BY OurCodec DEF Init
<1>2. MaxLen \in Nat
  BY Numbers
<1>3. last.err \in Errors
  BY DEF Init, Errors, Errc
<1>4. CASE target \in C.values /\ buf = <<>>
  BY <1>1, <1>2, <1>3, <1>4 DEF Init, IInv, TypeOK
<1>5. CASE target = C.fresh /\ buf \in UpTo(Bytes, MaxLen)
  <2>1. buf \in Seq(Bytes) /\ Len(buf) <= MaxLen
    BY <1>2, <1>5, UpToIs
  <2>2. target \in C.values
    BY <1>1, <1>5 DEF Typed
  <2> QED BY <1>1, <1>3, <2>1, <2>2 DEF Init, IInv, TypeOK
<1> QED BY <1>4, <1>5 DEF Init

\* Writing keeps the types.
LEMMA AppendedKeeps ==
  ASSUME IInv, NEW op, NEW n, NEW w \in Written, NEW atomic, Appended(op, n, w, atomic)
  PROVE  IInv'
<1>1. /\ type' = type /\ target' = target /\ pos' = pos /\ C' = C
      /\ last'.err = w.err /\ Len(buf) + Len(w.bytes) <= MaxLen
      /\ buf' = IF atomic /\ w.err # "ok" THEN buf ELSE buf \o w.bytes
  BY DEF Appended, C
<1>2. w.err \in Errors /\ w.bytes \in Seq(Bytes)
  BY DEF Written, Errors
<1>3. buf \in Seq(Bytes) /\ pos \in 0..Len(buf) /\ Len(buf) <= MaxLen /\ target \in C.values
      /\ type \in Types /\ MaxLen \in Nat
  BY Numbers DEF IInv, TypeOK
<1>4. buf' \in Seq(Bytes) /\ Len(buf') <= MaxLen /\ pos \in 0..Len(buf')
  <2>1. CASE buf' = buf
    BY <1>3, <2>1
  <2>2. CASE buf' = buf \o w.bytes
    <3>1. /\ buf \o w.bytes \in Seq(Bytes)
          /\ Len(buf \o w.bytes) = Len(buf) + Len(w.bytes)
      BY <1>2, <1>3
    <3>2. Len(w.bytes) \in Nat
      BY <1>2
    <3> QED BY <1>1, <1>3, <2>2, <3>1, <3>2
  <2> QED BY <1>1, <2>1, <2>2
<1> QED BY <1>1, <1>2, <1>3, <1>4 DEF IInv, TypeOK

\* So does reading in place,
LEMMA InPlaceKeeps ==
  ASSUME IInv, NEW op, NEW n, NEW r \in Outcomes, InPlace(op, n, r)
  PROVE  IInv'
<1>1. /\ type' = type /\ buf' = buf /\ target' = r.v /\ pos' = r.pos /\ last'.err = r.err /\ C' = C
  BY DEF InPlace, C
<1>2. r.v \in C.values /\ r.pos \in 0..Len(buf) /\ r.err \in Errors
  BY DEF Outcomes
<1> QED BY <1>1, <1>2 DEF IInv, TypeOK

\* and reading by way of a new object.
LEMMA ViaNewKeeps ==
  ASSUME IInv, NEW op, NEW n, NEW r \in Outcomes, NEW failedPos \in 0..Len(buf),
         ViaNew(op, n, r, failedPos)
  PROVE  IInv'
<1>1. /\ type' = type /\ buf' = buf /\ last'.err = r.err /\ C' = C
      /\ target' = (IF r.err = "ok" THEN r.v ELSE target)
      /\ pos' = (IF r.err = "ok" THEN r.pos ELSE failedPos)
  BY DEF ViaNew, C
<1>2. r.v \in C.values /\ r.pos \in 0..Len(buf) /\ r.err \in Errors
  BY DEF Outcomes
<1> QED BY <1>1, <1>2 DEF IInv, TypeOK

\* The n that calls are made with.
LEMMA CallCounts ==
  /\ \A n \in Counts \cup {Default} : n \in Nat /\ n \in 0..Default
  /\ \A max \in Counts : max \in Nat /\ max \in 0..Default
BY Numbers

\* What each call reads.
LEMMA CallOutcomes ==
  ASSUME IInv
  PROVE  /\ C.fresh \in C.values /\ target \in C.values /\ pos \in 0..Len(buf) /\ 0 \in 0..Len(buf)
         /\ \A n \in Counts \cup {Default} :
                /\ C.read[target][buf][pos][n] \in Outcomes
                /\ C.read[C.fresh][buf][pos][n] \in Outcomes
                /\ C.write[target][n] \in Written
         /\ C.read[C.fresh][buf][0][Default] \in Outcomes
         /\ \A max \in Counts :
                /\ ReadWithSize(C, target, buf, pos, max) \in Outcomes
                /\ ReadWithSize(C, C.fresh, buf, pos, max) \in Outcomes
         /\ Sized => WriteWithSize(C, target) \in Written
<1>1. /\ C.fresh \in C.values /\ target \in C.values /\ pos \in 0..Len(buf) /\ 0 \in 0..Len(buf)
      /\ Typed(C) /\ buf \in Seq(Bytes)
  BY OurCodec DEF IInv, TypeOK, Typed
<1>2. ASSUME NEW v \in C.values, NEW p \in 0..Len(buf), NEW n \in Nat
      PROVE  C.read[v][buf][p][n] \in Outcomes
  BY ReadOutcome, OutcomeOf
<1>3. ASSUME NEW n \in Counts \cup {Default}
      PROVE  /\ C.read[target][buf][pos][n] \in Outcomes
             /\ C.read[C.fresh][buf][pos][n] \in Outcomes
             /\ C.write[target][n] \in Written
  <2>1. n \in Nat
    BY CallCounts
  <2> QED BY <1>1, <1>2, <2>1 DEF Typed
<1>4. C.read[C.fresh][buf][0][Default] \in Outcomes
  BY <1>1, <1>2, Numbers
<1>5. ASSUME NEW max \in Counts
      PROVE  /\ ReadWithSize(C, target, buf, pos, max) \in Outcomes
             /\ ReadWithSize(C, C.fresh, buf, pos, max) \in Outcomes
  <2>1. max \in Nat
    BY CallCounts
  <2>2. /\ ReadWithSize(C, target, buf, pos, max) \in [err : Errors, v : C.values, pos : pos..Len(buf)]
        /\ ReadWithSize(C, C.fresh, buf, pos, max) \in [err : Errors, v : C.values, pos : pos..Len(buf)]
    BY <1>1, <2>1, ReadWithSizeTyped
  <2> QED BY <1>1, <2>2, OutcomeOf
<1>6. Sized => WriteWithSize(C, target) \in Written
  <2>1. Sized => Len(target) \in Nat
    BY <1>1, OurCodec DEF IInv
  <2> QED BY <1>1, <2>1, WriteWithSizeTyped
<1> QED BY <1>1, <1>3, <1>4, <1>5, <1>6

\* Trailing data changes the error only.
LEMMA ConsumedTyped ==
  ASSUME IInv, NEW r \in Outcomes
  PROVE  FullyConsumed(r) \in Outcomes
<1>1. r = [err |-> r.err, v |-> r.v, pos |-> r.pos] /\ r.v \in C.values /\ r.pos \in 0..Len(buf)
  BY DEF Outcomes
<1>2. [r EXCEPT !.err = "trailing_data"] = [err |-> "trailing_data", v |-> r.v, pos |-> r.pos]
  BY <1>1
<1>3. [err |-> "trailing_data", v |-> r.v, pos |-> r.pos] \in Outcomes
  BY <1>1 DEF Outcomes, Errors, Errc
<1> QED BY <1>2, <1>3 DEF FullyConsumed

\* Every call keeps the types.
LEMMA Inductive == IInv /\ [Next]_vars => IInv'
<1> SUFFICES ASSUME IInv, [Next]_vars PROVE IInv'
  OBVIOUS
<1>1. ASSUME NEW n \in Counts \cup {Default}, Set(n) \/ SetAtomic(n) PROVE IInv'
  BY <1>1, CallOutcomes, AppendedKeeps DEF Set, SetAtomic
<1>2. ASSUME NEW n \in Counts \cup {Default}, GetTo(n) PROVE IInv'
  BY <1>2, CallOutcomes, InPlaceKeeps DEF GetTo
<1>3. ASSUME NEW n \in Counts \cup {Default}, Get(n) PROVE IInv'
  <2>1. PICK r \in Outcomes : r = C.read[C.fresh][buf][pos][n]
    BY CallOutcomes
  <2>2. ViaNew("get", n, r, r.pos)
    BY <1>3, <2>1 DEF Get
  <2>3. r.pos \in 0..Len(buf)
    BY DEF Outcomes
  <2> QED BY <2>2, <2>3, ViaNewKeeps
<1>4. ASSUME NEW n \in Counts \cup {Default}, GetAtomic(n) PROVE IInv'
  <2>1. PICK r \in Outcomes : r = C.read[C.fresh][buf][pos][n]
    BY CallOutcomes
  <2>2. ViaNew("get_atomic", n, r, pos) /\ pos \in 0..Len(buf)
    BY <1>4, <2>1, CallOutcomes DEF GetAtomic
  <2> QED BY <2>2, ViaNewKeeps
<1>5. ASSUME NEW max \in Counts, GetToWithSize(max) PROVE IInv'
  BY <1>5, CallOutcomes, InPlaceKeeps DEF GetToWithSize
<1>6. ASSUME NEW max \in Counts, GetToWithSizeAtomic(max) PROVE IInv'
  <2>1. PICK r \in Outcomes : r = ReadWithSize(C, C.fresh, buf, pos, max)
    BY CallOutcomes
  <2>2. ViaNew("get_to_with_size_atomic", max, r, pos) /\ pos \in 0..Len(buf)
    BY <1>6, <2>1, CallOutcomes DEF GetToWithSizeAtomic
  <2> QED BY <2>2, ViaNewKeeps
<1>7. ASSUME SetWithSize PROVE IInv'
  BY <1>7, CallOutcomes, AppendedKeeps, Zenon DEF SetWithSize
<1>8. ASSUME Parse PROVE IInv'
  <2>1. PICK r \in Outcomes : r = FullyConsumed(C.read[C.fresh][buf][0][Default])
    BY CallOutcomes, ConsumedTyped
  <2>2. /\ target' = (IF r.err = "ok" THEN r.v ELSE target) /\ last'.err = r.err
        /\ type' = type /\ buf' = buf /\ pos' = pos /\ C' = C
    BY <1>8, <2>1, Zenon DEF Parse, C
  <2>3. r.v \in C.values /\ r.err \in Errors
    BY DEF Outcomes
  <2> QED BY <2>2, <2>3 DEF IInv, TypeOK
<1>9. ASSUME UNCHANGED vars PROVE IInv'
  BY <1>9 DEF IInv, TypeOK, vars, C
<1> QED BY <1>1, <1>2, <1>3, <1>4, <1>5, <1>6, <1>7, <1>8, <1>9 DEF Next

\* The object is a value of its type after every call, however deep the type
\* is nested and wherever a call has failed, and calls end with declared
\* errors.
THEOREM TypeCorrect == Spec => []TypeOK
<1>1. IInv => TypeOK
  BY DEF IInv
<1> QED BY Initial, Inductive, <1>1, PTL DEF Spec

----------------------------------------------------------------------------
(* What failed calls leave alone.                                          *)

\* Scalars and contiguous containers are judged before they are touched.
LEMMA JudgedFirst ==
  ASSUME NEW t, NEW cs, NEW c, Made(t, cs, c), t.k \in {"byte", "bool", "block"},
         NEW v \in c.values, NEW s \in Seq(Bytes), NEW p \in 0..Len(s), NEW n \in Nat,
         c.read[v][s][p][n].err # "ok"
  PROVE  c.read[v][s][p][n].v = v /\ c.read[v][s][p][n].pos = p
<1>1. PICK r : r = c.read[v][s][p][n] /\ r = Read(t, cs, v, s, p, n)
  BY DEF Made
<1>2. CASE t.k = "byte"
  <2>1. r = ReadByte(v, s, p, n)
    BY <1>1, <1>2 DEF Read
  <2>2. r.v = v /\ r.pos = p
    BY <1>1, <2>1 DEF ReadByte, Failed, Done
  <2> QED BY <1>1, <2>2
<1>3. CASE t.k = "bool"
  <2>1. r = ReadBool(v, s, p, n)
    BY <1>1, <1>3 DEF Read
  <2>2. r.v = v /\ r.pos = p
    BY <1>1, <2>1 DEF ReadBool, ReadByte, Failed, Done
  <2> QED BY <1>1, <2>2
<1>4. CASE t.k = "block"
  <2>1. r = ReadContainer(t, cs, v, s, p, n)
    BY <1>1, <1>4 DEF Read
  <2>2. r.v = v /\ r.pos = p
    BY <1>1, <1>4, <2>1 DEF ReadContainer, ReadBlock, Failed, Done
  <2> QED BY <1>1, <2>2
<1> QED BY <1>2, <1>3, <1>4

\* Pointers and variants are replaced as a whole.
LEMMA ReplacedWhole ==
  ASSUME NEW t, NEW cs, NEW c, Made(t, cs, c), t.k \in {"ptr", "variant"}, Typed(c),
         \A i \in 1..Len(cs) : Typed(cs[i]),
         NEW v \in c.values, NEW s \in Seq(Bytes), NEW p \in 0..Len(s), NEW n \in Nat,
         c.read[v][s][p][n].err # "ok"
  PROVE  c.read[v][s][p][n].v = v
<1>1. PICK r : r = c.read[v][s][p][n] /\ r = Read(t, cs, v, s, p, n)
  BY DEF Made
<1>2. CASE t.k = "ptr"
  <2>1. PICK x : x = cs[1].read[cs[1].fresh][s][p][n]
    OBVIOUS
  <2>2. Len(cs) = 1 /\ Typed(cs[1])
    BY <1>2 DEF Made, WellFormed
  <2>3. x \in [err : Errors, v : cs[1].values, pos : p..Len(s)]
    BY <2>1, <2>2 DEF Typed
  <2>4. x = [err |-> x.err, v |-> x.v, pos |-> x.pos]
    BY <2>3
  <2>5. r = [x EXCEPT !.v = IF x.err = "ok" THEN <<@>> ELSE v]
    BY <1>1, <1>2, <2>1, Zenon DEF Read, ReadPtr
  <2>6. r = [err |-> x.err, v |-> IF x.err = "ok" THEN <<x.v>> ELSE v, pos |-> x.pos]
    BY <2>4, <2>5
  <2> QED BY <1>1, <2>6
<1>3. CASE t.k = "variant"
  <2>1. PICK index : index = ReadCompact(s, p)
    OBVIOUS
  <2>2. index \in [err : CompactErrors, v : 0..Default, pos : p..Len(s)]
    BY <2>1, CompactTyped
  <2>3. PICK d : d = cs[index.v + 1]
    OBVIOUS
  <2>4. PICK x : x = d.read[d.fresh][s][index.pos][Default]
    OBVIOUS
  <2>5. r = IF index.err # "ok" THEN Failed(index.err, v, p)
            ELSE IF index.v >= Len(cs) THEN Failed("invalid_value", v, index.pos)
            ELSE [x EXCEPT !.v = IF x.err = "ok" THEN <<index.v, @>> ELSE v]
    BY <1>1, <1>3, <2>1, <2>3, <2>4, Zenon DEF Read, ReadVariant
  <2>6. CASE index.err # "ok" \/ index.v >= Len(cs)
    <3>1. r.v = v
      BY <2>5, <2>6 DEF Failed
    <3> QED BY <1>1, <3>1
  <2>7. CASE ~(index.err # "ok" \/ index.v >= Len(cs))
    <3>1. index.v \in Nat /\ index.pos \in 0..Len(s) /\ Len(cs) \in Nat /\ Default \in Nat
      BY <2>2, Numbers DEF Made
    <3>2. index.v + 1 \in 1..Len(cs)
      BY <2>7, <3>1
    <3>3. x \in [err : Errors, v : d.values, pos : index.pos..Len(s)]
      BY <2>3, <2>4, <3>1, <3>2 DEF Typed
    <3>4. x = [err |-> x.err, v |-> x.v, pos |-> x.pos]
      BY <3>3
    <3>5. r = [err |-> x.err, v |-> IF x.err = "ok" THEN <<index.v, x.v>> ELSE v, pos |-> x.pos]
      BY <2>5, <2>7, <3>4
    <3> QED BY <1>1, <3>5
  <2> QED BY <2>6, <2>7
<1> QED BY <1>2, <1>3

\* A reader with a size prefix goes back to where it began.
LEMMA SizedGoesBack ==
  ASSUME NEW c, Typed(c), NEW v \in c.values, NEW s \in Seq(Bytes), NEW p \in 0..Len(s),
         NEW max \in Nat, ReadWithSize(c, v, s, p, max).err # "ok"
  PROVE  ReadWithSize(c, v, s, p, max).pos = p
<1>1. PICK count : count = ReadCompact(s, p)
  OBVIOUS
<1>2. count \in [err : CompactErrors, v : 0..Default, pos : p..Len(s)]
  BY <1>1, CompactTyped
<1>3. count.v \in Nat /\ count.pos \in 0..Len(s)
  BY <1>2, Numbers
<1>4. PICK r : r = c.read[v][s][count.pos][count.v]
  OBVIOUS
<1>5. r \in [err : Errors, v : c.values, pos : count.pos..Len(s)]
  BY <1>3, <1>4 DEF Typed
<1>6. [r EXCEPT !.pos = p] = [err |-> r.err, v |-> r.v, pos |-> p]
  BY <1>5
<1>7. PICK x : x = ReadWithSize(c, v, s, p, max)
  OBVIOUS
<1>8. x = IF count.err # "ok" THEN Failed(count.err, v, p)
          ELSE IF count.v > max \/ count.v >= Default THEN Failed("count_out_of_range", v, p)
          ELSE IF r.err # "ok" THEN [err |-> r.err, v |-> r.v, pos |-> p] ELSE r
  BY <1>1, <1>4, <1>6, <1>7, Zenon DEF ReadWithSize
<1>9. x.pos = p
  BY <1>7, <1>8 DEF Failed
<1> QED BY <1>7, <1>9

\* The parts of the object's codec.
LEMMA OurParts ==
  ASSUME type \in Types
  PROVE  \A i \in 1..Len(PartsOf(type)) : Typed(PartsOf(type)[i])
<1>1. type \in Universe
  BY OurCodec
<1>2. /\ Made(type, PartsOf(type), Codec[type])
      /\ \A i \in 1..Len(type.of) : type.of[i] \in Universe /\ PartsOf(type)[i] = Codec[type.of[i]]
  BY <1>1, AllMade
<1>3. Len(PartsOf(type)) = Len(type.of)
  BY <1>2 DEF Made
<1> QED BY <1>2, <1>3, EveryTyped

\* A failed call leaves alone what is promised of it: atomic calls the
\* object, the position and the buffer, get_to the objects of scalar and
\* contiguous types and their position, and pointers and variants as a whole.
THEOREM FailureKeepsHolds == Spec => FailureKeeps
<1> DEFINE Keeps == last'.err # "ok" =>
          /\ last'.op \notin {"get_to", "get_to_with_size"} => target' = target
          /\ last'.op \notin {"get_to", "get"} => pos' = pos
          /\ last'.op # "set" => buf' = buf
          /\ last'.op = "get_to" /\ type.k \in {"byte", "bool", "block"} =>
                target' = target /\ pos' = pos
          /\ last'.op = "get_to" /\ type.k \in {"ptr", "variant"} => target' = target
<1>1. ASSUME IInv, Next PROVE Keeps
  <2>1. /\ target \in C.values /\ pos \in 0..Len(buf) /\ buf \in Seq(Bytes) /\ type \in Types
        /\ Typed(C) /\ Made(type, PartsOf(type), C) /\ C.fresh \in C.values
    BY <1>1, OurCodec DEF IInv, TypeOK, Typed
  <2>2. ASSUME NEW n \in Counts \cup {Default}, Set(n) \/ SetAtomic(n) PROVE Keeps
    BY <2>2 DEF Set, SetAtomic, Appended
  <2>3. ASSUME NEW n \in Counts \cup {Default}, GetTo(n) PROVE Keeps
    <3>1. PICK r : r = C.read[target][buf][pos][n]
      OBVIOUS
    <3>2. last'.op = "get_to" /\ last'.err = r.err /\ target' = r.v /\ pos' = r.pos /\ buf' = buf
      BY <2>3, <3>1 DEF GetTo, InPlace
    <3>3. n \in Nat
      BY CallCounts
    <3>4. ASSUME r.err # "ok", type.k \in {"byte", "bool", "block"} PROVE r.v = target /\ r.pos = pos
      BY <2>1, <3>1, <3>3, <3>4, JudgedFirst
    <3>5. ASSUME r.err # "ok", type.k \in {"ptr", "variant"} PROVE r.v = target
      BY <2>1, <3>1, <3>3, <3>5, ReplacedWhole, OurParts
    <3> QED BY <3>2, <3>4, <3>5
  <2>4. ASSUME NEW n \in Counts \cup {Default}, Get(n) \/ GetAtomic(n) PROVE Keeps
    BY <2>4 DEF Get, GetAtomic, ViaNew
  <2>5. ASSUME NEW max \in Counts, GetToWithSize(max) PROVE Keeps
    <3>1. PICK r : r = ReadWithSize(C, target, buf, pos, max)
      OBVIOUS
    <3>2. /\ last'.op = "get_to_with_size" /\ last'.err = r.err /\ target' = r.v /\ pos' = r.pos
          /\ buf' = buf
      BY <2>5, <3>1 DEF GetToWithSize, InPlace
    <3>3. r.err # "ok" => r.pos = pos
      BY <2>1, <3>1, CallCounts, SizedGoesBack
    <3> QED BY <3>2, <3>3
  <2>6. ASSUME NEW max \in Counts, GetToWithSizeAtomic(max) PROVE Keeps
    BY <2>6 DEF GetToWithSizeAtomic, ViaNew
  <2>7. ASSUME SetWithSize PROVE Keeps
    BY <2>7 DEF SetWithSize, Appended
  <2>8. ASSUME Parse PROVE Keeps
    BY <2>8 DEF Parse
  <2> QED BY <1>1, <2>2, <2>3, <2>4, <2>5, <2>6, <2>7, <2>8 DEF Next
<1>2. IInv /\ [Next]_vars => [Keeps]_vars
  BY <1>1
<1> QED BY Initial, Inductive, <1>2, PTL DEF Spec, FailureKeeps

----------------------------------------------------------------------------
(* Nothing is accepted that writing would not have produced.               *)

\* What a successful read has consumed is what writing the object read would append.
Canonical(c) ==
    \A v \in c.values : \A s \in Seq(Bytes) : \A p \in 0..Len(s) : \A n \in Nat :
        LET r == c.read[v][s][p][n]
        IN  r.err = "ok" => c.write[r.v][n] = Wrote(SubSeq(s, p + 1, r.pos))

\* What a read of a part gives.
LEMMA PartRead ==
  ASSUME NEW c, Typed(c), NEW v \in c.values, NEW s \in Seq(Bytes), NEW p \in 0..Len(s),
         NEW n \in Nat
  PROVE  LET r == c.read[v][s][p][n]
         IN  /\ r.err \in Errors /\ r.v \in c.values
             /\ r.pos \in Nat /\ p <= r.pos /\ r.pos <= Len(s) /\ r.pos \in 0..Len(s)
             /\ r = [err |-> r.err, v |-> r.v, pos |-> r.pos]
<1>1. PICK r : r = c.read[v][s][p][n]
  OBVIOUS
<1>2. r \in [err : Errors, v : c.values, pos : p..Len(s)]
  BY <1>1 DEF Typed
<1>3. r = [err |-> r.err, v |-> r.v, pos |-> r.pos]
  BY <1>2
<1>4. r.err \in Errors /\ r.v \in c.values /\ r.pos \in p..Len(s)
  BY <1>2
<1>5. r.pos \in Nat /\ p <= r.pos /\ r.pos <= Len(s) /\ r.pos \in 0..Len(s)
  BY <1>4
<1> QED BY <1>1, <1>3, <1>4, <1>5

\* A part of a codec that has this.
LEMMA PartCanonical ==
  ASSUME NEW c, Canonical(c), NEW v \in c.values, NEW s \in Seq(Bytes), NEW p \in 0..Len(s),
         NEW n \in Nat, c.read[v][s][p][n].err = "ok"
  PROVE  c.write[c.read[v][s][p][n].v][n] = Wrote(SubSeq(s, p + 1, c.read[v][s][p][n].pos))
BY DEF Canonical

\* What reading into a new part gives.
LEMMA FreshRead ==
  ASSUME NEW c, Typed(c), NEW s \in Seq(Bytes), NEW p, p \in 0..Len(s), NEW n, n \in Nat,
         NEW r, r = c.read[c.fresh][s][p][n]
  PROVE  /\ r.err \in Errors /\ r.v \in c.values
         /\ r.pos \in Nat /\ p <= r.pos /\ r.pos <= Len(s) /\ r.pos \in 0..Len(s)
         /\ r = [err |-> r.err, v |-> r.v, pos |-> r.pos]
         /\ Canonical(c) /\ r.err = "ok" => c.write[r.v][n] = Wrote(SubSeq(s, p + 1, r.pos))
<1>1. PICK z \in c.values, q \in 0..Len(s), m \in Nat : z = c.fresh /\ q = p /\ m = n
  BY DEF Typed
<1>2. r = c.read[z][s][q][m]
  BY <1>1
<1>3. /\ r.err \in Errors /\ r.v \in c.values
      /\ r.pos \in Nat /\ p <= r.pos /\ r.pos <= Len(s) /\ r.pos \in 0..Len(s)
      /\ r = [err |-> r.err, v |-> r.v, pos |-> r.pos]
  BY <1>1, <1>2, PartRead, SMTT(30)
<1>4. ASSUME Canonical(c), r.err = "ok" PROVE c.write[r.v][n] = Wrote(SubSeq(s, p + 1, r.pos))
  <2>1. c.read[z][s][q][m].err = "ok"
    BY <1>2, <1>4
  <2>2. c.write[r.v][m] = Wrote(SubSeq(s, q + 1, r.pos))
    BY <1>2, <1>4, <2>1, PartCanonical, SMTT(30)
  <2> QED BY <1>1, <2>2
<1> QED BY <1>3, <1>4, Zenon

\* Bytes after bytes.
LEMMA ThenWrote ==
  ASSUME NEW a, NEW b
  PROVE  Then(Wrote(a), Wrote(b)) = Wrote(a \o b)
BY DEF Then, Wrote

\* One stretch written behind another.
LEMMA ThenStretch ==
  ASSUME NEW s \in Seq(Bytes), NEW p \in Nat, NEW q \in Nat, NEW r \in Nat,
         p <= q, q <= r, r <= Len(s)
  PROVE  Then(Wrote(SubSeq(s, p + 1, q)), Wrote(SubSeq(s, q + 1, r))) = Wrote(SubSeq(s, p + 1, r))
<1>1. PICK a, b : a = SubSeq(s, p + 1, q) /\ b = SubSeq(s, q + 1, r)
  OBVIOUS
<1>2. a \o b = SubSeq(s, p + 1, r)
  BY <1>1, StretchesMeet
<1>3. Then(Wrote(a), Wrote(b)) = Wrote(a \o b)
  BY ThenWrote
<1> QED BY <1>1, <1>2, <1>3

\* No byte consumed.
LEMMA NothingStretch ==
  ASSUME NEW s \in Seq(Bytes), NEW p \in 0..Len(s)
  PROVE  SubSeq(s, p + 1, p) = <<>>
<1>1. PICK x : x = SubSeq(s, p + 1, p)
  OBVIOUS
<1>2. x \in Seq(Bytes) /\ Len(x) = p - p
  BY <1>1, Stretch
<1>3. x = <<>>
  BY <1>2
<1> QED BY <1>1, <1>3

\* One byte consumed.
LEMMA OneStretch ==
  ASSUME NEW s \in Seq(Bytes), NEW p \in 0..(Len(s) - 1)
  PROVE  SubSeq(s, p + 1, p + 1) = <<s[p + 1]>> /\ s[p + 1] \in Bytes
<1>1. PICK b \in Bytes : b = s[p + 1]
  OBVIOUS
<1>2. PICK w : w = SubSeq(s, p + 1, p + 1)
  OBVIOUS
<1>3. p + 1 \in Nat /\ p <= p + 1 /\ p + 1 <= Len(s) /\ p \in Nat
  OBVIOUS
<1>4. w \in Seq(Bytes) /\ Len(w) = (p + 1) - p /\ \A i \in 1..((p + 1) - p) : w[i] = s[p + i]
  BY <1>2, <1>3, Stretch
<1>5. Len(w) = 1 /\ w[1] = b
  BY <1>1, <1>4
<1>6. w = <<b>>
  BY <1>4, <1>5
<1> QED BY <1>1, <1>2, <1>6

\* A row of objects, those of the first types vs[1] to vs[Len(cs)] to be read.
InRow(cs, ns, V, M, vs) ==
    /\ Len(cs) \in Nat /\ M \in Nat /\ Len(cs) <= M /\ vs \in [1..M -> V]
    /\ \A i \in 1..Len(cs) :
           Typed(cs[i]) /\ vs[i] \in cs[i].values /\ cs[i].values \subseteq V /\ ns[i] \in Nat

\* Each part of a row has it.
AllCanonical(cs) == \A i \in 1..Len(cs) : Canonical(cs[i])

\* A row read part by part.
LEMMA RowRounds ==
  ASSUME NEW cs, NEW ns, NEW V, NEW M, NEW vs, InRow(cs, ns, V, M, vs),
         NEW s \in Seq(Bytes), NEW p \in 0..Len(s)
  PROVE  \E g : ReadAll(cs, vs, ns, s, p) = g[Len(cs)] /\ Rounds(cs, ns, M, V, vs, s, p, g)
BY ReadRounds DEF InRow

\* A row of parts that have it has it.
LEMMA ReadAllCanonical ==
  ASSUME NEW cs, NEW ns, NEW V, NEW M, NEW vs, InRow(cs, ns, V, M, vs), AllCanonical(cs),
         NEW s \in Seq(Bytes), NEW p \in 0..Len(s),
         NEW r, r = ReadAll(cs, vs, ns, s, p), r.err = "ok"
  PROVE  WriteAll(cs, r.v, ns) = Wrote(SubSeq(s, p + 1, r.pos))
<1>0. /\ Len(cs) \in Nat /\ M \in Nat /\ Len(cs) <= M
      /\ \A i \in 1..Len(cs) : Canonical(cs[i]) /\ ns[i] \in Nat
  BY DEF InRow, AllCanonical
<1> DEFINE N == Len(cs)
<1>1. PICK g : ReadAll(cs, vs, ns, s, p) = g[N] /\ Rounds(cs, ns, M, V, vs, s, p, g)
  BY RowRounds
<1>2. PICK us : us = g[N].v /\ us = r.v
  BY <1>1
<1>3. ASSUME NEW k \in 0..N PROVE g[k].err = "ok" /\ \A i \in 1..k : g[k].v[i] = us[i]
  <2>1. AllOk(Len(cs), g)
    <3>1. g[Len(cs)].err = "ok"
      BY <1>1
    <3> QED BY <1>1, <3>1, RoundsOk
  <2> QED BY <1>2, <2>1 DEF AllOk
<1>4. PICK f : /\ WriteAll(cs, us, ns) = f[N] /\ f[0] = Wrote(<<>>)
               /\ \A k \in 1..N : f[k] = WriteStep(cs, us, ns, k, f[k - 1])
  <2>1. \A us_ : \E f : /\ WriteAll(cs, us_, ns) = f[Len(cs)] /\ f[0] = Wrote(<<>>)
               /\ \A k \in 1..(Len(cs)) : f[k] = WriteStep(cs, us_, ns, k, f[k - 1])
    BY <1>0, WriteLoop
  <2> QED BY <2>1
<1> DEFINE T == {k \in Nat : f[k] = Wrote(SubSeq(s, p + 1, g[k].pos))}
<1>5. 0 \in T
  <2>1. g[0] = Done(vs, p)
    BY <1>1, Zenon DEF Rounds
  <2>2. g[0].pos = p
    BY <2>1 DEF Done
  <2>3. SubSeq(s, p + 1, p) = <<>>
    BY NothingStretch
  <2> QED BY <1>4, <2>2, <2>3, Zenon
<1>6. ASSUME NEW k \in 0..(N - 1), k \in T PROVE k + 1 \in T
  <2>1. PICK m \in 1..N : m = k + 1 /\ m - 1 = k
    BY <1>0
  <2>2. PICK x : x = g[k]
    OBVIOUS
  <2>3. PICK e : e = cs[m].read[x.v[m]][s][x.pos][ns[m]]
    OBVIOUS
  <2>4. /\ e \in [err : Errors, v : cs[m].values, pos : x.pos..Len(s)]
        /\ g[m].err = e.err /\ g[m].pos = e.pos /\ g[m].v[m] = e.v
    <3>1. g[m - 1].err = "ok"
      BY <1>3, <2>1
    <3> QED BY <1>1, <2>1, <2>2, <2>3, <3>1, ZenonT(30) DEF Rounds
  <2>5. x.pos \in p..Len(s) /\ x.v[m] \in cs[m].values
    <3>1. k \in 0..Len(cs) /\ m \in 1..Len(cs)
      BY <1>0, <2>1
    <3>2. /\ g[k] \in [err : Errors, v : [1..M -> V], pos : p..Len(s)]
          /\ \A i \in 1..Len(cs) : g[k].v[i] \in cs[i].values
      BY <1>1, <3>1, Zenon DEF Rounds
    <3> QED BY <2>2, <3>1, <3>2
  <2>6. e.err = "ok" /\ e.v = us[m]
    BY <1>3, <2>1, <2>4
  <2>7. cs[m].write[e.v][ns[m]] = Wrote(SubSeq(s, x.pos + 1, e.pos))
    <3>1. Canonical(cs[m]) /\ x.pos \in 0..Len(s) /\ ns[m] \in Nat
      BY <1>0, <2>1, <2>5
    <3> QED BY <2>3, <2>5, <2>6, <3>1, Zenon DEF Canonical
  <2>8. f[k] = Wrote(SubSeq(s, p + 1, x.pos))
    BY <1>6, <2>2
  <2>9. f[m] = Then(Wrote(SubSeq(s, p + 1, x.pos)), Wrote(SubSeq(s, x.pos + 1, e.pos)))
    <3>1. f[m] = WriteStep(cs, us, ns, m, f[k])
      BY <1>4, <2>1
    <3> QED BY <2>6, <2>7, <2>8, <3>1 DEF WriteStep
  <2>10. f[m] = Wrote(SubSeq(s, p + 1, e.pos))
    <3>1. p \in Nat /\ x.pos \in Nat /\ e.pos \in Nat /\ p <= x.pos /\ x.pos <= e.pos /\ e.pos <= Len(s)
      BY <2>4, <2>5
    <3> QED BY <2>9, <3>1, ThenStretch
  <2> QED BY <2>1, <2>4, <2>10
<1> HIDE DEF T
<1>7. N \in T
  <2>1. \A k \in 0..N : k \in T
    BY <1>0, <1>5, <1>6, Upwards
  <2> QED BY <1>0, <2>1
<1> QED BY <1>1, <1>2, <1>4, <1>7 DEF T

\* What a codec has of its type.
LEMMA MadeOf ==
  ASSUME NEW t, NEW cs, NEW c, Made(t, cs, c)
  PROVE  c.values = Values(t, cs) /\ c.fresh = Fresh(t, cs) /\ c.whole = Whole(t, cs)
BY DEF Made

\* A codec has it if its functions do.
LEMMA CanonicalIf ==
  ASSUME NEW t, NEW cs, NEW c, Made(t, cs, c), Typed(c),
         \A v \in c.values : \A s \in Seq(Bytes) : \A p \in 0..Len(s) : \A n \in Nat :
             LET r == Read(t, cs, v, s, p, n)
             IN  r.err = "ok" => Write(t, cs, r.v, n) = Wrote(SubSeq(s, p + 1, r.pos))
  PROVE  Canonical(c)
<1> SUFFICES ASSUME NEW v \in c.values, NEW s \in Seq(Bytes), NEW p \in 0..Len(s), NEW n \in Nat,
                    c.read[v][s][p][n].err = "ok"
             PROVE  LET r == c.read[v][s][p][n]
                    IN  c.write[r.v][n] = Wrote(SubSeq(s, p + 1, r.pos))
  BY DEF Canonical
<1>1. PICK r : r = c.read[v][s][p][n]
  OBVIOUS
<1>2. r.v \in c.values
  BY <1>1 DEF Typed
<1>3. r = Read(t, cs, v, s, p, n)
  <2>1. p \in Nat
    OBVIOUS
  <2> QED BY <1>1, <2>1 DEF Made
<1>4. Write(t, cs, r.v, n) = Wrote(SubSeq(s, p + 1, r.pos))
  BY <1>1, <1>3
<1>5. c.write[r.v][n] = Write(t, cs, r.v, n)
  BY <1>2 DEF Made
<1> QED BY <1>1, <1>4, <1>5

\* A byte read is the byte consumed.
LEMMA ByteCanonical ==
  ASSUME NEW v, NEW s \in Seq(Bytes), NEW p \in 0..Len(s), NEW n \in Nat,
         ReadByte(v, s, p, n).err = "ok"
  PROVE  LET r == ReadByte(v, s, p, n)
         IN  /\ n \in {Default, 1} /\ p < Len(s) /\ r = Done(s[p + 1], p + 1)
             /\ Wrote(SubSeq(s, p + 1, r.pos)) = Wrote(<<r.v>>)
<1>1. n \in {Default, 1} /\ ~(p >= Len(s))
  BY DEF ReadByte, Failed
<1>2. ReadByte(v, s, p, n) = Done(s[p + 1], p + 1)
  BY <1>1 DEF ReadByte
<1>3. p \in 0..(Len(s) - 1) /\ p < Len(s)
  BY <1>1
<1>4. SubSeq(s, p + 1, p + 1) = <<s[p + 1]>>
  BY <1>3, OneStretch
<1>5. PICK r : r = ReadByte(v, s, p, n)
  OBVIOUS
<1>6. r.v = s[p + 1] /\ r.pos = p + 1
  BY <1>2, <1>5 DEF Done
<1> QED BY <1>1, <1>2, <1>3, <1>4, <1>5, <1>6

\* A bool read is the byte consumed.
LEMMA BoolCanonical ==
  ASSUME NEW v, NEW s \in Seq(Bytes), NEW p \in 0..Len(s), NEW n \in Nat,
         ReadBool(v, s, p, n).err = "ok"
  PROVE  LET r == ReadBool(v, s, p, n)
         IN  /\ n \in {Default, 1} /\ p < Len(s) /\ r = Done(s[p + 1], p + 1) /\ r.v \in {0, 1}
             /\ Wrote(SubSeq(s, p + 1, r.pos)) = Wrote(<<r.v>>)
<1>1. PICK r : r = ReadByte(v, s, p, n)
  OBVIOUS
<1>2. ReadBool(v, s, p, n) = IF r.err = "ok" /\ r.v > 1 THEN Failed("invalid_value", v, p) ELSE r
  BY <1>1 DEF ReadBool
<1>3. r.err = "ok" /\ ~(r.v > 1) /\ ReadBool(v, s, p, n) = r
  BY <1>2 DEF Failed
<1>4. /\ n \in {Default, 1} /\ p < Len(s) /\ r = Done(s[p + 1], p + 1)
      /\ Wrote(SubSeq(s, p + 1, r.pos)) = Wrote(<<r.v>>)
  BY <1>1, <1>3, ByteCanonical
<1>5. r.v \in Bytes
  BY <1>4 DEF Done
<1>6. r.v \in {0, 1}
  BY <1>3, <1>5, Numbers DEF Bytes
<1> QED BY <1>3, <1>4, <1>6

\* Bytes, bools and the unit type.
LEMMA ScalarCanonical ==
  ASSUME NEW t, NEW cs, NEW c, Made(t, cs, c), Typed(c), t.k \in {"byte", "bool", "unit"}
  PROVE  Canonical(c)
<1>1. ASSUME NEW v \in c.values, NEW s \in Seq(Bytes), NEW p \in 0..Len(s), NEW n \in Nat,
             Read(t, cs, v, s, p, n).err = "ok"
      PROVE  LET r == Read(t, cs, v, s, p, n)
             IN  Write(t, cs, r.v, n) = Wrote(SubSeq(s, p + 1, r.pos))
  <2>1. PICK r : r = Read(t, cs, v, s, p, n)
    OBVIOUS
  <2>2. CASE t.k = "byte"
    <3>1. r = ReadByte(v, s, p, n)
      BY <2>1, <2>2 DEF Read
    <3>2. n \in {Default, 1} /\ Wrote(SubSeq(s, p + 1, r.pos)) = Wrote(<<r.v>>)
      BY <1>1, <2>1, <3>1, ByteCanonical
    <3>3. Write(t, cs, r.v, n) = WriteScalar(r.v, n)
      BY <2>2 DEF Write
    <3> QED BY <2>1, <3>2, <3>3 DEF WriteScalar
  <2>3. CASE t.k = "bool"
    <3>1. r = ReadBool(v, s, p, n)
      BY <2>1, <2>3 DEF Read
    <3>2. n \in {Default, 1} /\ Wrote(SubSeq(s, p + 1, r.pos)) = Wrote(<<r.v>>)
      BY <1>1, <2>1, <3>1, BoolCanonical
    <3>3. Write(t, cs, r.v, n) = WriteScalar(r.v, n)
      BY <2>3 DEF Write
    <3> QED BY <2>1, <3>2, <3>3 DEF WriteScalar
  <2>4. CASE t.k = "unit"
    <3>1. r = Done(v, p) /\ Write(t, cs, r.v, n) = Wrote(<<>>)
      BY <2>1, <2>4 DEF Read, Write
    <3>2. r.pos = p /\ SubSeq(s, p + 1, p) = <<>>
      BY <3>1, NothingStretch DEF Done
    <3> QED BY <2>1, <3>1, <3>2
  <2> QED BY <2>2, <2>3, <2>4
<1> QED BY <1>1, CanonicalIf

\* Optionals.
LEMMA OptionalCanonical ==
  ASSUME NEW t, NEW cs, NEW c, Made(t, cs, c), Typed(c), t.k = "optional",
         Typed(cs[1]), Canonical(cs[1])
  PROVE  Canonical(c)
<1>1. PICK d : d = cs[1]
  OBVIOUS
<1>2. ASSUME NEW v \in c.values, NEW s \in Seq(Bytes), NEW p \in 0..Len(s), NEW n \in Nat,
             Read(t, cs, v, s, p, n).err = "ok"
      PROVE  LET r == Read(t, cs, v, s, p, n)
             IN  Write(t, cs, r.v, n) = Wrote(SubSeq(s, p + 1, r.pos))
  <2>1. PICK flag : flag = ReadBool(0, s, p, Default)
    OBVIOUS
  <2>2. PICK x : x = d.read[d.fresh][s][flag.pos][n]
    OBVIOUS
  <2>3. PICK r : r = Read(t, cs, v, s, p, n)
    OBVIOUS
  <2>4. r = IF flag.err # "ok" THEN Failed(flag.err, v, p)
            ELSE IF flag.v = 0 THEN Done(<<>>, flag.pos)
            ELSE [x EXCEPT !.v = <<@>>]
    BY <1>1, <2>1, <2>2, <2>3 DEF Read, ReadOptional
  <2>5. flag.err = "ok"
    BY <1>2, <2>3, <2>4 DEF Failed
  <2>6. /\ flag = Done(s[p + 1], p + 1) /\ flag.v \in {0, 1} /\ p < Len(s)
        /\ Wrote(SubSeq(s, p + 1, flag.pos)) = Wrote(<<flag.v>>)
    BY <2>1, <2>5, BoolCanonical, Numbers
  <2>7. flag.pos \in Nat /\ p \in Nat /\ p <= flag.pos /\ flag.pos <= Len(s) /\ flag.pos \in 0..Len(s)
    BY <2>6 DEF Done
  <2>8. Write(t, cs, r.v, n) = WriteOptional(cs, r.v, n)
    BY DEF Write
  <2>9. CASE flag.v = 0
    <3>1. r = Done(<<>>, flag.pos)
      BY <2>4, <2>5, <2>9
    <3>2. WriteOptional(cs, r.v, n) = Wrote(<<0>>)
      BY <3>1 DEF WriteOptional, Done
    <3> QED BY <2>3, <2>6, <2>8, <2>9, <3>1, <3>2 DEF Done
  <2>10. CASE flag.v = 1
    <3>1. x \in [err : Errors, v : d.values, pos : flag.pos..Len(s)]
      BY <1>1, <2>2, <2>7 DEF Typed
    <3>2. x = [err |-> x.err, v |-> x.v, pos |-> x.pos]
      BY <3>1
    <3>3. r = [err |-> x.err, v |-> <<x.v>>, pos |-> x.pos]
      BY <2>4, <2>5, <2>10, <3>2
    <3>4. x.err = "ok"
      BY <1>2, <2>3, <3>3
    <3>5. d.write[x.v][n] = Wrote(SubSeq(s, flag.pos + 1, x.pos))
      <4>1. PICK q, z : q = flag.pos /\ z = d.fresh
        OBVIOUS
      <4>2. Canonical(d) /\ z \in d.values /\ q \in 0..Len(s)
        BY <1>1, <2>7, <4>1 DEF Typed
      <4>3. d.read[z][s][q][n] = x
        BY <2>2, <4>1
      <4>4. d.write[x.v][n] = Wrote(SubSeq(s, q + 1, x.pos))
        BY <3>4, <4>2, <4>3, PartCanonical, ZenonT(30)
      <4> QED BY <4>1, <4>4
    <3>6. WriteOptional(cs, r.v, n) = Then(Wrote(<<1>>), d.write[x.v][n])
      <4>1. r.v # <<>> /\ r.v[1] = x.v
        BY <3>3
      <4> QED BY <1>1, <4>1 DEF WriteOptional
    <3>7. Then(Wrote(SubSeq(s, p + 1, flag.pos)), Wrote(SubSeq(s, flag.pos + 1, x.pos)))
              = Wrote(SubSeq(s, p + 1, x.pos))
      <4>1. x.pos \in Nat /\ flag.pos <= x.pos /\ x.pos <= Len(s)
        BY <2>7, <3>1
      <4> QED BY <2>7, <4>1, ThenStretch
    <3>8. r.pos = x.pos
      BY <3>3
    <3> QED BY <2>3, <2>6, <2>8, <2>10, <3>5, <3>6, <3>7, <3>8
  <2> QED BY <2>6, <2>9, <2>10
<1> QED BY <1>2, CanonicalIf

\* Smart pointers.
LEMMA PtrCanonical ==
  ASSUME NEW t, NEW cs, NEW c, Made(t, cs, c), Typed(c), t.k = "ptr",
         Typed(cs[1]), Canonical(cs[1])
  PROVE  Canonical(c)
<1>1. PICK d : d = cs[1]
  OBVIOUS
<1>2. ASSUME NEW v \in c.values, NEW s \in Seq(Bytes), NEW p \in 0..Len(s), NEW n \in Nat,
             Read(t, cs, v, s, p, n).err = "ok"
      PROVE  LET r == Read(t, cs, v, s, p, n)
             IN  Write(t, cs, r.v, n) = Wrote(SubSeq(s, p + 1, r.pos))
  <2>1. PICK x, r : x = d.read[d.fresh][s][p][n] /\ r = Read(t, cs, v, s, p, n)
    OBVIOUS
  <2>2. x \in [err : Errors, v : d.values, pos : p..Len(s)]
    BY <1>1, <2>1 DEF Typed
  <2>3. x = [err |-> x.err, v |-> x.v, pos |-> x.pos]
    BY <2>2
  <2>4. r = [x EXCEPT !.v = IF x.err = "ok" THEN <<@>> ELSE v]
    BY <1>1, <2>1, Zenon DEF Read, ReadPtr
  <2>5. r = [err |-> x.err, v |-> IF x.err = "ok" THEN <<x.v>> ELSE v, pos |-> x.pos]
    BY <2>3, <2>4
  <2>6. x.err = "ok" /\ r.v = <<x.v>> /\ r.pos = x.pos
    BY <1>2, <2>1, <2>5
  <2>7. d.write[x.v][n] = Wrote(SubSeq(s, p + 1, x.pos))
    <3>1. Canonical(d) /\ d.fresh \in d.values
      BY <1>1 DEF Typed
    <3> QED BY <2>1, <2>6, <3>1, PartCanonical, ZenonT(30)
  <2>8. Write(t, cs, r.v, n) = WritePtr(cs, r.v, n)
    BY DEF Write
  <2>9. WritePtr(cs, r.v, n) = d.write[x.v][n]
    <3>1. r.v # <<>> /\ r.v[1] = x.v
      BY <2>6
    <3> QED BY <1>1, <3>1 DEF WritePtr
  <2> QED BY <2>1, <2>6, <2>7, <2>8, <2>9, Zenon
<1> QED BY <1>2, CanonicalIf

\* Tuples and structs.
LEMMA RowCanonical ==
  ASSUME NEW t, NEW cs, NEW c, Made(t, cs, c), Typed(c), t.k \in {"tuple", "struct"},
         \A i \in 1..Len(cs) : Typed(cs[i]) /\ Canonical(cs[i])
  PROVE  Canonical(c)
<1>1. PICK N \in Nat : N = Len(cs)
  BY DEF Made
<1>2. PICK V : V = UNION {cs[i].values : i \in 1..N}
  OBVIOUS
<1>3. \A i \in 1..N : cs[i].values \subseteq V
  BY <1>2
<1>4. PICK ns : ns = PartCounts(t, cs)
  OBVIOUS
<1>5. /\ \A i \in 1..N : ns[i] \in Nat
      /\ \A v, n : Write(t, cs, v, n) = WriteAll(cs, v, ns)
      /\ \A v, s, p, n : Read(t, cs, v, s, p, n) = ReadAll(cs, v, ns, s, p)
      /\ c.values = Members(cs)
  BY <1>1, <1>4, RowIs, MadeOf
<1>6. c.values = {v \in [1..N -> V] : \A i \in 1..N : v[i] \in cs[i].values}
  BY <1>1, <1>3, <1>5, MembersAre
<1>7. ASSUME NEW v \in c.values, NEW s \in Seq(Bytes), NEW p \in 0..Len(s), NEW n \in Nat,
             Read(t, cs, v, s, p, n).err = "ok"
      PROVE  LET r == Read(t, cs, v, s, p, n)
             IN  Write(t, cs, r.v, n) = Wrote(SubSeq(s, p + 1, r.pos))
  <2>1. v \in [1..N -> V] /\ Len(cs) \in Nat /\ Len(cs) <= N
    BY <1>1, <1>6
  <2>2. \A i \in 1..Len(cs) :
            Typed(cs[i]) /\ v[i] \in cs[i].values /\ cs[i].values \subseteq V /\ ns[i] \in Nat
    BY <1>1, <1>3, <1>5, <1>6
  <2>3. PICK r : r = ReadAll(cs, v, ns, s, p)
    OBVIOUS
  <2>4. r.err = "ok"
    BY <1>5, <1>7, <2>3
  <2>5. InRow(cs, ns, V, N, v) /\ AllCanonical(cs)
    BY <2>1, <2>2 DEF InRow, AllCanonical
  <2>6. WriteAll(cs, r.v, ns) = Wrote(SubSeq(s, p + 1, r.pos))
    BY <2>3, <2>4, <2>5, ReadAllCanonical
  <2> QED BY <1>5, <2>3, <2>6
<1> QED BY <1>7, CanonicalIf

\* Arrays.
LEMMA ArrayCanonical ==
  ASSUME NEW t, NEW cs, NEW c, Made(t, cs, c), Typed(c), t.k = "array",
         Typed(cs[1]), Canonical(cs[1])
  PROVE  Canonical(c)
<1>1. /\ t.extent \in Nat
      /\ c.values = [1..t.extent -> cs[1].values]
      /\ \A n \in Nat : ArrayCount(t, n) \in Nat
      /\ \A v, n : Write(t, cs, v, n) = WriteArray(t, cs, v, n)
      /\ \A v, s, p, n : Read(t, cs, v, s, p, n) = ReadArray(t, cs, v, s, p, n)
  BY ArrayIs, MadeOf
<1>2. PICK M \in Nat : M = t.extent
  BY <1>1
<1>3. PICK d, V : d = cs[1] /\ V = d.values
  OBVIOUS
<1>4. c.values = [1..M -> V] /\ Typed(d) /\ Canonical(d) /\ Default \in Nat
  BY <1>1, <1>2, <1>3, Numbers
<1>5. ASSUME NEW v \in c.values, NEW s \in Seq(Bytes), NEW p \in 0..Len(s), NEW n \in Nat,
             Read(t, cs, v, s, p, n).err = "ok"
      PROVE  LET r == Read(t, cs, v, s, p, n)
             IN  Write(t, cs, r.v, n) = Wrote(SubSeq(s, p + 1, r.pos))
  <2>1. PICK count \in Nat : count = ArrayCount(t, n)
    BY <1>1
  <2>2. PICK ds, ns : ds = Same(d, count) /\ ns = Same(Default, count)
    OBVIOUS
  <2>3. PICK r : r = Read(t, cs, v, s, p, n)
    OBVIOUS
  <2>4. r = IF count > M THEN Failed("count_out_of_range", v, p)
            ELSE IF t.of[1].k = "byte" /\ count > Len(s) - p THEN Failed("insufficient_data", v, p)
            ELSE ReadAll(ds, v, ns, s, p)
    BY <1>1, <1>2, <1>3, <2>1, <2>2, <2>3 DEF ReadArray
  <2>5. ~(count > M) /\ r = ReadAll(ds, v, ns, s, p) /\ r.err = "ok"
    BY <1>5, <2>3, <2>4 DEF Failed
  <2>6. Len(ds) = count /\ \A i \in 1..count : ds[i] = d /\ ns[i] = Default
    BY <2>2, SameIs
  <2>7. Len(ds) \in Nat /\ Len(ds) <= M /\ v \in [1..M -> V]
    BY <1>4, <2>5, <2>6
  <2>8. \A i \in 1..Len(ds) :
            Typed(ds[i]) /\ v[i] \in ds[i].values /\ ds[i].values \subseteq V /\ ns[i] \in Nat
    <3>1. \A i \in 1..count : v[i] \in V
      BY <1>4, <2>5
    <3> QED BY <1>3, <1>4, <2>6, <3>1
  <2>9. InRow(ds, ns, V, M, v) /\ AllCanonical(ds)
    BY <1>4, <2>6, <2>7, <2>8 DEF InRow, AllCanonical
  <2>10. WriteAll(ds, r.v, ns) = Wrote(SubSeq(s, p + 1, r.pos))
    BY <2>5, <2>9, ReadAllCanonical
  <2>11. WriteArray(t, cs, r.v, n) = WriteAll(ds, r.v, ns)
    BY <1>2, <1>3, <2>1, <2>2, <2>5 DEF WriteArray
  <2> QED BY <1>1, <2>3, <2>10, <2>11
<1> QED BY <1>5, CanonicalIf

\* After a success all elements were pushed, and are still there.
AllPushed(c, s, n, g) ==
    \A k \in 0..n :
        /\ g[k].err = "ok" /\ \A i \in 1..k : g[k].v[i] = g[n].v[i]
        /\ k > 0 => LET e == c.read[c.fresh][s][g[k - 1].pos][Default]
                    IN  e.err = "ok" /\ g[k] = Done(Append(g[k - 1].v, e.v), e.pos)

\* A round that succeeded has read an element and found room for it.
LEMMA PushedStep ==
  ASSUME NEW c, NEW s, NEW x, PushStep(c, s, x).err = "ok"
  PROVE  LET e == c.read[c.fresh][s][x.pos][Default]
         IN  x.err = "ok" /\ e.err = "ok" /\ PushStep(c, s, x) = Done(Append(x.v, e.v), e.pos)
<1>1. PICK e : e = c.read[c.fresh][s][x.pos][Default]
  OBVIOUS
<1>2. PICK y : y = PushStep(c, s, x)
  OBVIOUS
<1>3. y = IF x.err # "ok" THEN x
          ELSE IF e.err # "ok" THEN [e EXCEPT !.v = x.v]
          ELSE IF Len(x.v) = MaxCount THEN Failed("bad_alloc", x.v, e.pos)
          ELSE Done(Append(x.v, e.v), e.pos)
  BY <1>1, <1>2 DEF PushStep
<1>4. x.err = "ok"
  BY <1>2, <1>3
<1>5. e.err = "ok"
  BY <1>2, <1>3, <1>4
<1>6. y = Done(Append(x.v, e.v), e.pos)
  BY <1>2, <1>3, <1>4, <1>5 DEF Failed
<1> QED BY <1>1, <1>2, <1>4, <1>5, <1>6, Zenon

\* If the last round succeeded they all did, and none touches earlier elements.
LEMMA PushOk ==
  ASSUME NEW c, NEW s, NEW p, NEW n, NEW g, Pushes(c, s, p, n, g), g[n].err = "ok"
  PROVE  AllPushed(c, s, n, g)
<1>1. /\ n \in Nat
      /\ \A k \in 0..n : /\ g[k].v \in Seq(c.values)
                         /\ g[k].err = "ok" => Len(g[k].v) = k
      /\ \A k \in 1..n : g[k] = PushStep(c, s, g[k - 1])
  BY DEF Pushes
<1> DEFINE T == {j \in Nat : g[n - j].err = "ok" /\ \A i \in 1..(n - j) : g[n - j].v[i] = g[n].v[i]}
<1>2. 0 \in T
  <2>1. n - 0 = n
    BY <1>1
  <2> QED BY <2>1
<1>3. ASSUME NEW m \in 1..n, g[m].err = "ok"
      PROVE  LET e == c.read[c.fresh][s][g[m - 1].pos][Default]
             IN  /\ g[m - 1].err = "ok" /\ e.err = "ok"
                 /\ g[m] = Done(Append(g[m - 1].v, e.v), e.pos)
                 /\ \A i \in 1..(m - 1) : g[m].v[i] = g[m - 1].v[i]
  <2>1. PICK x : x = g[m - 1]
    OBVIOUS
  <2>2. PICK e : e = c.read[c.fresh][s][x.pos][Default]
    OBVIOUS
  <2>3. PICK y : y = g[m]
    OBVIOUS
  <2>4. y = PushStep(c, s, x) /\ y.err = "ok"
    BY <1>1, <1>3, <2>1, <2>3
  <2>5. x.err = "ok" /\ e.err = "ok" /\ y = Done(Append(x.v, e.v), e.pos)
    BY <2>2, <2>4, PushedStep
  <2>6. m - 1 \in 0..n
    BY <1>1
  <2>7. x.v \in Seq(c.values) /\ Len(x.v) = m - 1
    BY <1>1, <2>1, <2>5, <2>6
  <2>8. PICK w, ev : w = x.v /\ ev = e.v
    OBVIOUS
  <2>9. \A i \in 1..(m - 1) : Append(w, ev)[i] = w[i]
    BY <2>7, <2>8
  <2>10. y.v = Append(w, ev)
    BY <2>5, <2>8 DEF Done
  <2>11. \A i \in 1..(m - 1) : y.v[i] = x.v[i]
    BY <2>8, <2>9, <2>10
  <2> QED BY <2>1, <2>2, <2>3, <2>5, <2>11, Zenon
<1>4. ASSUME NEW j \in 0..(n - 1), j \in T PROVE j + 1 \in T
  <2>1. PICK m \in 1..n : m = n - j
    BY <1>1
  <2>2. n - (j + 1) = m - 1 /\ j + 1 \in Nat
    BY <1>1, <2>1
  <2>3. g[m].err = "ok" /\ \A i \in 1..m : g[m].v[i] = g[n].v[i]
    BY <1>4, <2>1
  <2>4. g[m - 1].err = "ok" /\ \A i \in 1..(m - 1) : g[m].v[i] = g[m - 1].v[i]
    BY <1>3, <2>3
  <2>5. ASSUME NEW i \in 1..(m - 1) PROVE g[m - 1].v[i] = g[n].v[i]
    <3>1. i \in 1..m
      BY <1>1
    <3> QED BY <2>3, <2>4, <3>1
  <2> QED BY <2>2, <2>4, <2>5
<1> HIDE DEF T
<1>5. \A j \in 0..n : j \in T
  BY <1>1, <1>2, <1>4, Upwards, Zenon
<1>6. ASSUME NEW k \in 0..n PROVE g[k].err = "ok" /\ \A i \in 1..k : g[k].v[i] = g[n].v[i]
  <2>1. n - k \in 0..n /\ n - (n - k) = k
    BY <1>1
  <2> QED BY <1>5, <2>1 DEF T
<1>7. ASSUME NEW k \in 0..n, k > 0
      PROVE  LET e == c.read[c.fresh][s][g[k - 1].pos][Default]
             IN  e.err = "ok" /\ g[k] = Done(Append(g[k - 1].v, e.v), e.pos)
  <2>1. k \in 1..n /\ g[k].err = "ok"
    BY <1>1, <1>6, <1>7
  <2> QED BY <1>3, <2>1
<1> QED BY <1>6, <1>7 DEF AllPushed

\* Elements that have it, pushed back, have it together.
LEMMA PushCanonical ==
  ASSUME NEW c, Typed(c), Canonical(c), NEW s \in Seq(Bytes), NEW p \in 0..Len(s), NEW n \in Nat,
         NEW r, r = PushBack(c, s, p, n), r.err = "ok"
  PROVE  WriteAll(Same(c, n), r.v, Same(Default, n)) = Wrote(SubSeq(s, p + 1, r.pos))
<1>1. PICK g : r = g[n] /\ Pushes(c, s, p, n, g)
  BY PushRounds
<1>2. AllPushed(c, s, n, g)
  <2>1. g[n].err = "ok"
    BY <1>1
  <2> QED BY <1>1, <2>1, PushOk
<1>3. PICK us, ds, ns : us = r.v /\ ds = Same(c, n) /\ ns = Same(Default, n)
  OBVIOUS
<1>4. Len(ds) = n /\ \A i \in 1..n : ds[i] = c /\ ns[i] = Default
  BY <1>3, SameIs
<1>5. PICK f : /\ WriteAll(ds, us, ns) = f[n] /\ f[0] = Wrote(<<>>)
               /\ \A k \in 1..n : f[k] = WriteStep(ds, us, ns, k, f[k - 1])
  <2>1. Len(ds) \in Nat
    BY <1>4
  <2>2. \A us_, ns_ : \E f : /\ WriteAll(ds, us_, ns_) = f[Len(ds)] /\ f[0] = Wrote(<<>>)
               /\ \A k \in 1..(Len(ds)) : f[k] = WriteStep(ds, us_, ns_, k, f[k - 1])
    BY <2>1, WriteLoop
  <2>3. \E f : /\ WriteAll(ds, us, ns) = f[Len(ds)] /\ f[0] = Wrote(<<>>)
               /\ \A k \in 1..(Len(ds)) : f[k] = WriteStep(ds, us, ns, k, f[k - 1])
    BY <2>2
  <2>4. Len(ds) = n
    BY <1>4
  <2> QED BY <2>3, <2>4
<1> DEFINE T == {k \in Nat : f[k] = Wrote(SubSeq(s, p + 1, g[k].pos))}
<1>6. 0 \in T
  <2>1. g[0] = Done(<<>>, p)
    BY <1>1 DEF Pushes
  <2>2. g[0].pos = p
    BY <2>1 DEF Done
  <2>3. SubSeq(s, p + 1, p) = <<>>
    BY NothingStretch
  <2> QED BY <1>5, <2>2, <2>3
<1>7. ASSUME NEW k \in 0..(n - 1), k \in T PROVE k + 1 \in T
  <2>1. PICK m \in 1..n : m = k + 1 /\ m - 1 = k /\ m \in 0..n /\ k \in 0..n /\ m > 0
    OBVIOUS
  <2>2. PICK x, q, z : x = g[k] /\ q = x.pos /\ z = c.fresh
    OBVIOUS
  <2>3. PICK e : e = c.read[z][s][q][Default]
    OBVIOUS
  <2>4. e.err = "ok" /\ g[m] = Done(Append(x.v, e.v), e.pos)
    BY <1>2, <2>1, <2>2, <2>3 DEF AllPushed
  <2>5. q \in p..Len(s) /\ x.v \in Seq(c.values) /\ Len(x.v) = k
    <3>1. /\ g[k] \in [err : Errors, v : Seq(c.values), pos : p..Len(s)]
          /\ g[k].err = "ok" => Len(g[k].v) = k
      BY <1>1, <2>1 DEF Pushes
    <3>2. g[k].err = "ok"
      BY <1>2, <2>1 DEF AllPushed
    <3> QED BY <2>2, <3>1, <3>2
  <2>6. q \in 0..Len(s) /\ z \in c.values /\ Default \in Nat /\ q \in Nat /\ p \in Nat /\ p <= q
    BY <2>2, <2>5, Numbers DEF Typed
  <2>7. e.pos \in Nat /\ q <= e.pos /\ e.pos <= Len(s)
    BY <2>3, <2>6, PartRead, Zenon
  <2>8. c.write[e.v][Default] = Wrote(SubSeq(s, q + 1, e.pos))
    BY <2>3, <2>4, <2>6, PartCanonical
  <2>9. us[m] = e.v
    <3>1. g[m].v[m] = g[n].v[m]
      BY <1>2, <2>1 DEF AllPushed
    <3>2. PICK w, ev : w = x.v /\ ev = e.v
      OBVIOUS
    <3>3. Append(w, ev)[m] = ev
      BY <2>1, <2>5, <3>2
    <3>4. g[m].v = Append(w, ev)
      BY <2>4, <3>2 DEF Done
    <3> QED BY <1>1, <1>3, <3>1, <3>2, <3>3, <3>4
  <2>10. f[k] = Wrote(SubSeq(s, p + 1, q))
    BY <1>7, <2>2
  <2>11. f[m] = Then(Wrote(SubSeq(s, p + 1, q)), Wrote(SubSeq(s, q + 1, e.pos)))
    <3>1. f[m] = WriteStep(ds, us, ns, m, f[k])
      BY <1>5, <2>1
    <3>2. ds[m] = c /\ ns[m] = Default
      BY <1>4, <2>1
    <3> QED BY <2>8, <2>9, <2>10, <3>1, <3>2 DEF WriteStep
  <2>12. f[m] = Wrote(SubSeq(s, p + 1, e.pos))
    BY <2>6, <2>7, <2>11, ThenStretch
  <2>13. g[m].pos = e.pos
    BY <2>4 DEF Done
  <2> QED BY <2>1, <2>12, <2>13
<1> HIDE DEF T
<1>8. n \in T
  <2>1. \A k \in 0..n : k \in T
    BY <1>6, <1>7, Upwards
  <2> QED BY <2>1
<1> QED BY <1>1, <1>3, <1>5, <1>8 DEF T

\* So do the scalars of a contiguous container.
LEMMA BlockCanonical ==
  ASSUME NEW t, t.width \in Nat \ {0}, NEW s \in Seq(Bytes), NEW p \in 0..Len(s), NEW n \in Nat,
         ~(n * t.width > Len(s) - p)
  PROVE  WriteBlock(t, Chunks(t, s, p, n), n) = Wrote(SubSeq(s, p + 1, p + n * t.width))
<1>1. PICK w \in Nat \ {0} : w = t.width
  OBVIOUS
<1>2. PICK v : v = Chunks(t, s, p, n)
  OBVIOUS
<1>3. /\ v \in Seq([1..t.width -> Bytes]) /\ Len(v) = n /\ n \in 0..Len(v)
      /\ n * t.width \in Nat /\ p + n * t.width \in p..Len(s)
  <2>1. /\ v \in Seq([1..t.width -> Bytes]) /\ Len(v) = n
        /\ n * t.width \in Nat /\ p + n * t.width \in p..Len(s)
    BY <1>2, ChunksTyped
  <2>2. n \in 0..Len(v)
    BY <2>1
  <2> QED BY <2>1, <2>2
<1>4. PICK b, a : b = WriteBlock(t, v, n) /\ a = b.bytes
  OBVIOUS
<1>5. /\ b \in Written /\ b.err = "ok" /\ Len(a) = n * t.width
      /\ \A j \in 1..(n * t.width) : a[j] = v[((j - 1) \div t.width) + 1][((j - 1) % t.width) + 1]
  BY <1>3, <1>4, BlockBytes
<1>6. PICK m \in Nat : m = n * w
  BY <1>1, <1>3
<1>7. a \in Seq(Bytes) /\ Len(a) = m /\ b = Wrote(a)
  <2>1. b = [err |-> b.err, bytes |-> b.bytes] /\ b.bytes \in Seq(Bytes)
    BY <1>5 DEF Written
  <2> QED BY <1>1, <1>4, <1>5, <1>6, <2>1 DEF Wrote
<1>8. PICK x : x = SubSeq(s, p + 1, p + m)
  OBVIOUS
<1>9. x \in Seq(Bytes) /\ Len(x) = m /\ \A i \in 1..m : x[i] = s[p + i]
  <2>1. PICK q \in Nat : q = p + m
    OBVIOUS
  <2>2. p \in Nat /\ p <= q /\ q <= Len(s) /\ q - p = m
    BY <1>1, <1>3, <1>6, <2>1
  <2>3. x = SubSeq(s, p + 1, q)
    BY <1>8, <2>1
  <2>4. x \in Seq(Bytes) /\ Len(x) = q - p /\ \A i \in 1..(q - p) : x[i] = s[p + i]
    <3>1. /\ SubSeq(s, p + 1, q) \in Seq(Bytes) /\ Len(SubSeq(s, p + 1, q)) = q - p
          /\ \A i \in 1..(q - p) : SubSeq(s, p + 1, q)[i] = s[p + i]
      BY <2>2, Stretch
    <3> QED BY <2>3, <3>1
  <2> QED BY <2>2, <2>4
<1>10. ASSUME NEW j \in 1..m PROVE a[j] = x[j]
  <2>1. PICK i \in 1..n, e \in 1..w : /\ i = ((j - 1) \div w) + 1 /\ e = ((j - 1) % w) + 1
                                      /\ j = ((j - 1) \div w) * w + (((j - 1) % w) + 1)
    <3>1. j \in 1..(n * w)
      BY <1>6
    <3> QED BY <3>1, Where
  <2>2. a[j] = v[i][e]
    BY <1>1, <1>5, <1>6, <2>1
  <2>3. v[i][e] = s[p + (i - 1) * w + e]
    BY <1>1, <1>2 DEF Chunks
  <2>4. j = (i - 1) * w + e /\ (i - 1) * w \in Nat
    <3>1. PICK o : o = (j - 1) \div w
      OBVIOUS
    <3>2. i - 1 = o
      <4>1. o \in Int
        BY <3>1
      <4> QED BY <2>1, <3>1, <4>1
    <3>3. j = o * w + e
      BY <2>1, <3>1
    <3> QED BY <3>2, <3>3, Within
  <2>5. p + (i - 1) * w + e = p + j
    <3>1. PICK h \in Nat : h = (i - 1) * w
      BY <2>4
    <3>2. j = h + e
      BY <2>4, <3>1
    <3>3. p + h + e = p + j
      BY <3>2
    <3> QED BY <3>1, <3>3
  <2> QED BY <1>9, <2>2, <2>3, <2>5
<1>11. a = x
  BY <1>7, <1>9, <1>10
<1> QED BY <1>1, <1>2, <1>4, <1>6, <1>7, <1>8, <1>11

\* How many elements are written of a container that has been read.
LEMMA ReadCount ==
  ASSUME NEW t, NEW cs, NEW c, Made(t, cs, c), t.k \in {"list", "block"},
         t.k = "list" => Typed(cs[1]),
         NEW v, NEW s \in Seq(Bytes), NEW p \in 0..Len(s), NEW n \in Nat,
         NEW r, r = Read(t, cs, v, s, p, n), r.err = "ok"
  PROVE  /\ n # Default /\ Len(r.v) = n /\ WriteCount(t, r.v, n) = n
         /\ WriteCount(t, r.v, Default) = n
         /\ t.k = "list" => r = PushBack(cs[1], s, p, n)
         /\ t.k = "block" => /\ r = Done(Chunks(t, s, p, n), p + n * t.width)
                             /\ ~(n * t.width > Len(s) - p) /\ t.width \in Nat \ {0}
<1>1. r = IF n = Default THEN Failed("missing_element_count", v, p)
          ELSE IF n > t.limit THEN Failed("count_out_of_range", v, p)
          ELSE IF t.k = "list" THEN ReadList(t, cs, s, p, n)
          ELSE ReadBlock(t, v, s, p, n)
  <2>1. r = ReadContainer(t, cs, v, s, p, n)
    BY ContainerIs
  <2> QED BY <2>1 DEF ReadContainer
<1>2. n # Default
  BY <1>1 DEF Failed
<1>3. r = IF t.k = "list" THEN ReadList(t, cs, s, p, n) ELSE ReadBlock(t, v, s, p, n)
  BY <1>1, <1>2 DEF Failed
<1>4. CASE t.k = "list"
  <2>1. r = PushBack(cs[1], s, p, n)
    BY <1>3, <1>4 DEF ReadList, Failed
  <2>2. Len(r.v) = n
    BY <1>4, <2>1, PushTyped
  <2> QED BY <1>2, <1>4, <2>1, <2>2 DEF WriteCount
<1>5. CASE t.k = "block"
  <2>1. r = IF n * t.width > Len(s) - p THEN Failed("insufficient_data", v, p)
            ELSE IF n > MaxCount THEN Failed("bad_alloc", v, p)
            ELSE Done(Chunks(t, s, p, n), p + n * t.width)
    BY <1>3, <1>5 DEF ReadBlock
  <2>2. ~(n * t.width > Len(s) - p)
    BY <2>1 DEF Failed
  <2>3. r = Done(Chunks(t, s, p, n), p + n * t.width)
    BY <2>1, <2>2 DEF Failed
  <2>4. t.width \in Nat \ {0}
    BY <1>5, ContainerIs
  <2>5. Len(Chunks(t, s, p, n)) = n
    BY DEF Chunks
  <2>6. r.v = Chunks(t, s, p, n)
    BY <2>3 DEF Done
  <2> QED BY <1>2, <1>5, <2>2, <2>3, <2>4, <2>5, <2>6 DEF WriteCount
<1> QED BY <1>4, <1>5

\* Containers.
LEMMA ContainerCanonical ==
  ASSUME NEW t, NEW cs, NEW c, Made(t, cs, c), Typed(c), t.k \in {"list", "block"},
         t.k = "list" => Typed(cs[1]) /\ Canonical(cs[1])
  PROVE  Canonical(c)
<1>1. ASSUME NEW v \in c.values, NEW s \in Seq(Bytes), NEW p \in 0..Len(s), NEW n \in Nat,
             Read(t, cs, v, s, p, n).err = "ok"
      PROVE  LET r == Read(t, cs, v, s, p, n)
             IN  Write(t, cs, r.v, n) = Wrote(SubSeq(s, p + 1, r.pos))
  <2>1. PICK r : r = Read(t, cs, v, s, p, n)
    OBVIOUS
  <2>2. /\ Len(r.v) = n /\ WriteCount(t, r.v, n) = n
        /\ t.k = "list" => r = PushBack(cs[1], s, p, n)
        /\ t.k = "block" => /\ r = Done(Chunks(t, s, p, n), p + n * t.width)
                            /\ ~(n * t.width > Len(s) - p) /\ t.width \in Nat \ {0}
    BY <1>1, <2>1, ReadCount
  <2>3. Write(t, cs, r.v, n) = IF t.k = "block" THEN WriteBlock(t, r.v, n)
                               ELSE WriteAll(Same(cs[1], n), r.v, Same(Default, n))
    <3>1. Write(t, cs, r.v, n) = WriteContainer(t, cs, r.v, n)
      BY ContainerIs
    <3>2. ~(n > Len(r.v))
      BY <2>2
    <3> QED BY <2>2, <3>1, <3>2 DEF WriteContainer
  <2>4. CASE t.k = "list"
    <3>1. WriteAll(Same(cs[1], n), r.v, Same(Default, n)) = Wrote(SubSeq(s, p + 1, r.pos))
      <4>1. r.err = "ok"
        BY <1>1, <2>1
      <4> QED BY <2>2, <2>4, <4>1, PushCanonical
    <3> QED BY <2>1, <2>3, <2>4, <3>1
  <2>5. CASE t.k = "block"
    <3>1. WriteBlock(t, Chunks(t, s, p, n), n) = Wrote(SubSeq(s, p + 1, p + n * t.width))
      BY <2>2, <2>5, BlockCanonical
    <3>2. r.v = Chunks(t, s, p, n) /\ r.pos = p + n * t.width
      BY <2>2, <2>5 DEF Done
    <3> QED BY <2>1, <2>3, <2>5, <3>1, <3>2
  <2> QED BY <2>4, <2>5
<1> QED BY <1>1, CanonicalIf

\* What is read with a count has as many elements, all of which are written
\* when no count is given.
Counted(c) ==
    \A v \in c.values : \A s \in Seq(Bytes) : \A p \in 0..Len(s) : \A n \in Nat :
        LET r == c.read[v][s][p][n]
        IN  r.err = "ok" => n # Default /\ Len(r.v) = n /\ c.write[r.v][Default] = c.write[r.v][n]

\* Containers are read with their number of elements.
LEMMA ContainerCounted ==
  ASSUME NEW t, NEW cs, NEW c, Made(t, cs, c), Typed(c), t.k \in {"list", "block"},
         t.k = "list" => Typed(cs[1])
  PROVE  Counted(c)
<1>1. ASSUME NEW v \in c.values, NEW s \in Seq(Bytes), NEW p \in 0..Len(s), NEW n \in Nat,
             c.read[v][s][p][n].err = "ok"
      PROVE  LET r == c.read[v][s][p][n]
             IN  n # Default /\ Len(r.v) = n /\ c.write[r.v][Default] = c.write[r.v][n]
  <2>1. PICK r : r = c.read[v][s][p][n]
    OBVIOUS
  <2>2. r.v \in c.values /\ Default \in Nat
    BY <2>1, PartRead, Numbers
  <2>3. r = Read(t, cs, v, s, p, n)
    <3>1. p \in Nat
      OBVIOUS
    <3> QED BY <2>1, <3>1 DEF Made
  <2>4. n # Default /\ Len(r.v) = n /\ WriteCount(t, r.v, n) = n /\ WriteCount(t, r.v, Default) = n
    BY <1>1, <2>1, <2>3, ReadCount
  <2>5. WriteContainer(t, cs, r.v, Default) = WriteContainer(t, cs, r.v, n)
    BY <2>4 DEF WriteContainer
  <2>6. Write(t, cs, r.v, Default) = Write(t, cs, r.v, n)
    BY <2>5, ContainerIs
  <2>7. c.write[r.v][Default] = Write(t, cs, r.v, Default) /\ c.write[r.v][n] = Write(t, cs, r.v, n)
    BY <2>2 DEF Made
  <2> QED BY <2>1, <2>4, <2>6, <2>7
<1> QED BY <1>1 DEF Counted

\* Containers behind their sizes, which are within the limit.
LEMMA SizedCanonical ==
  ASSUME NEW c, Typed(c), Canonical(c), Counted(c), NEW v \in c.values, NEW s \in Seq(Bytes),
         NEW p \in 0..Len(s), NEW max \in Nat,
         NEW r, r = ReadWithSize(c, v, s, p, max), r.err = "ok"
  PROVE  WriteWithSize(c, r.v) = Wrote(SubSeq(s, p + 1, r.pos)) /\ Len(r.v) \in 0..max
<1>1. PICK count : count = ReadCompact(s, p)
  OBVIOUS
<1>2. count \in [err : CompactErrors, v : 0..Default, pos : p..Len(s)]
  BY <1>1, CompactTyped
<1>3. PICK q, m : q = count.pos /\ m = count.v
  OBVIOUS
<1>4. q \in 0..Len(s) /\ m \in Nat /\ q \in Nat /\ p \in Nat /\ p <= q
  BY <1>2, <1>3
<1>5. PICK x : x = c.read[v][s][q][m]
  OBVIOUS
<1>6. r = IF count.err # "ok" THEN Failed(count.err, v, p)
          ELSE IF m > max \/ m >= Default THEN Failed("count_out_of_range", v, p)
          ELSE IF x.err # "ok" THEN [x EXCEPT !.pos = p] ELSE x
  <2>1. c.read[v][s][count.pos][count.v] = x
    BY <1>3, <1>5
  <2> QED BY <1>1, <1>3, <2>1 DEF ReadWithSize
<1>7. x = [err |-> x.err, v |-> x.v, pos |-> x.pos] /\ x.pos \in Nat /\ q <= x.pos /\ x.pos <= Len(s)
  <2>1. q \in 0..Len(s) /\ m \in Nat
    BY <1>4
  <2>2. x \in [err : Errors, v : c.values, pos : q..Len(s)]
    BY <1>5, <2>1 DEF Typed
  <2>3. x = [err |-> x.err, v |-> x.v, pos |-> x.pos]
    BY <2>2
  <2>4. x.pos \in q..Len(s)
    BY <2>2
  <2> QED BY <1>4, <2>3, <2>4
<1>8. count.err = "ok" /\ ~(m > max \/ m >= Default)
  BY <1>6 DEF Failed
<1>9. r = x /\ x.err = "ok"
  <2>1. [x EXCEPT !.pos = p] = [err |-> x.err, v |-> x.v, pos |-> p]
    BY <1>7
  <2> QED BY <1>6, <1>8, <2>1
<1>10. WriteCompact[m] = SubSeq(s, p + 1, q)
  BY <1>1, <1>3, <1>8, CompactCanonical
<1>11. c.write[x.v][m] = Wrote(SubSeq(s, q + 1, x.pos))
  BY <1>4, <1>5, <1>9, PartCanonical, SMTT(30)
<1>12. Len(x.v) = m /\ c.write[x.v][Default] = c.write[x.v][m]
  BY <1>4, <1>5, <1>9, SMTT(30) DEF Counted
<1>13. PICK w : w = Then(Wrote(WriteCompact[m]), c.write[x.v][m])
  OBVIOUS
<1>14. w = Wrote(SubSeq(s, p + 1, x.pos))
  BY <1>4, <1>7, <1>10, <1>11, <1>13, ThenStretch
<1>15. WriteWithSize(c, x.v) = IF m >= Default THEN Refused("count_out_of_range")
                               ELSE IF w.err # "ok" THEN Refused(w.err) ELSE w
  BY <1>12, <1>13 DEF WriteWithSize
<1>16. w.err = "ok"
  BY <1>14 DEF Wrote
<1>17. WriteWithSize(c, x.v) = w
  BY <1>8, <1>15, <1>16
<1> QED BY <1>4, <1>8, <1>9, <1>12, <1>14, <1>17

\* Size-prefixed containers.
LEMMA PrefixedCanonical ==
  ASSUME NEW t, NEW cs, NEW c, Made(t, cs, c), Typed(c), t.k = "prefixed",
         Typed(cs[1]), Canonical(cs[1]), Counted(cs[1])
  PROVE  Canonical(c)
<1>1. PICK d : d = cs[1]
  OBVIOUS
<1>2. c.values = d.values /\ t.max \in Nat
  BY <1>1, Numbers, MadeOf DEF Values, Made, WellFormed
<1>3. ASSUME NEW v \in c.values, NEW s \in Seq(Bytes), NEW p \in 0..Len(s), NEW n \in Nat,
             Read(t, cs, v, s, p, n).err = "ok"
      PROVE  LET r == Read(t, cs, v, s, p, n)
             IN  Write(t, cs, r.v, n) = Wrote(SubSeq(s, p + 1, r.pos))
  <2>1. PICK r : r = Read(t, cs, v, s, p, n)
    OBVIOUS
  <2>2. r = ReadWithSize(d, v, s, p, t.max)
    BY <1>1, <2>1 DEF Read
  <2>3. WriteWithSize(d, r.v) = Wrote(SubSeq(s, p + 1, r.pos)) /\ Len(r.v) \in 0..t.max
    BY <1>1, <1>2, <1>3, <2>1, <2>2, SizedCanonical
  <2>4. ~(Len(r.v) > t.max)
    BY <1>2, <2>3
  <2>5. Write(t, cs, r.v, n) = WritePrefixed(t, cs, r.v)
    BY DEF Write
  <2>6. WritePrefixed(t, cs, r.v) = WriteWithSize(d, r.v)
    BY <1>1, <2>4 DEF WritePrefixed
  <2> QED BY <2>1, <2>3, <2>5, <2>6
<1> QED BY <1>3, CanonicalIf

\* Variants.
LEMMA VariantCanonical ==
  ASSUME NEW t, NEW cs, NEW c, Made(t, cs, c), Typed(c), t.k = "variant",
         \A i \in 1..Len(cs) : Typed(cs[i]) /\ Canonical(cs[i])
  PROVE  Canonical(c)
<1>1. PICK N \in Nat : N = Len(cs)
  BY DEF Made
<1>2. ASSUME NEW v \in c.values, NEW s \in Seq(Bytes), NEW p \in 0..Len(s), NEW n \in Nat,
             Read(t, cs, v, s, p, n).err = "ok"
      PROVE  LET r == Read(t, cs, v, s, p, n)
             IN  Write(t, cs, r.v, n) = Wrote(SubSeq(s, p + 1, r.pos))
  <2>1. PICK index : index = ReadCompact(s, p)
    OBVIOUS
  <2>2. index \in [err : CompactErrors, v : 0..Default, pos : p..Len(s)]
    BY <2>1, CompactTyped
  <2>3. PICK q, m : q = index.pos /\ m = index.v
    OBVIOUS
  <2>4. q \in 0..Len(s) /\ m \in Nat /\ q \in Nat /\ p \in Nat /\ p <= q /\ Default \in Nat
    BY <2>2, <2>3, Numbers
  <2>5. PICK d : d = cs[m + 1]
    OBVIOUS
  <2>6. PICK x : x = d.read[d.fresh][s][q][Default]
    OBVIOUS
  <2>7. PICK r : r = Read(t, cs, v, s, p, n)
    OBVIOUS
  <2>8. r = IF index.err # "ok" THEN Failed(index.err, v, p)
            ELSE IF m >= N THEN Failed("invalid_value", v, q)
            ELSE [x EXCEPT !.v = IF x.err = "ok" THEN <<m, @>> ELSE v]
    <3>1. r = ReadVariant(cs, v, s, p)
      BY <2>7 DEF Read
    <3> QED BY <1>1, <2>1, <2>3, <2>5, <2>6, <3>1, Zenon DEF ReadVariant
  <2>9. index.err = "ok" /\ ~(m >= N)
    BY <1>2, <2>7, <2>8 DEF Failed
  <2>10. m + 1 \in 1..N
    BY <2>4, <2>9
  <2>11. Typed(d) /\ Canonical(d)
    BY <1>1, <2>5, <2>10
  <2>12. /\ x = [err |-> x.err, v |-> x.v, pos |-> x.pos]
         /\ x.pos \in Nat /\ q <= x.pos /\ x.pos <= Len(s)
    BY <2>4, <2>6, <2>11, FreshRead
  <2>13. r = [err |-> x.err, v |-> IF x.err = "ok" THEN <<m, x.v>> ELSE v, pos |-> x.pos]
    BY <2>8, <2>9, <2>12
  <2>14. x.err = "ok" /\ r.v = <<m, x.v>> /\ r.pos = x.pos
    BY <1>2, <2>7, <2>13
  <2>15. d.write[x.v][Default] = Wrote(SubSeq(s, q + 1, x.pos))
    BY <2>4, <2>6, <2>11, <2>14, FreshRead, SMTT(30)
  <2>16. WriteCompact[m] = SubSeq(s, p + 1, q)
    BY <2>1, <2>3, <2>9, CompactCanonical
  <2>17. Write(t, cs, r.v, n) = Then(Wrote(WriteCompact[m]), d.write[x.v][Default])
    <3>1. Write(t, cs, r.v, n) = WriteVariant(cs, r.v)
      BY DEF Write
    <3>2. r.v # <<>> /\ r.v[1] = m /\ r.v[2] = x.v
      BY <2>14
    <3> QED BY <2>5, <3>1, <3>2 DEF WriteVariant
  <2>18. Write(t, cs, r.v, n) = Wrote(SubSeq(s, p + 1, x.pos))
    BY <2>4, <2>12, <2>15, <2>16, <2>17, ThenStretch
  <2> QED BY <2>7, <2>14, <2>18
<1> QED BY <1>2, CanonicalIf

\* All containers that are declared.
LEMMA EveryCounted ==
  ASSUME NEW t \in Universe, t.k \in {"list", "block"}
  PROVE  Counted(Codec[t])
<1>1. PICK c, cs : c = Codec[t] /\ cs = PartsOf(t)
  OBVIOUS
<1>2. /\ Made(t, cs, c) /\ Typed(c) /\ Len(t.of) \in Nat
      /\ \A i \in 1..Len(t.of) : t.of[i] \in Universe /\ cs[i] = Codec[t.of[i]]
  BY <1>1, AllMade, EveryTyped
<1>3. t.k = "list" => Typed(cs[1])
  <2>1. t.k = "list" => Len(t.of) = 1
    BY <1>2, ContainerIs
  <2> QED BY <1>2, <2>1, EveryTyped
<1> QED BY <1>1, <1>2, <1>3, ContainerCounted

\* Of any type: reading takes nothing that writing would not have produced.
THEOREM EveryCanonical == \A t \in Universe : Canonical(Codec[t])
<1> DEFINE T == {t \in Universe : Canonical(Codec[t])}
<1>1. ASSUME NEW t \in Universe, \A i \in 1..Len(t.of) : t.of[i] \in T
      PROVE  t \in T
  <2>1. PICK c, cs : c = Codec[t] /\ cs = PartsOf(t)
    OBVIOUS
  <2>2. /\ Made(t, cs, c) /\ Typed(c)
        /\ \A i \in 1..Len(t.of) : t.of[i] \in Universe /\ cs[i] = Codec[t.of[i]]
    BY <2>1, AllMade, EveryTyped
  <2>3. Len(cs) = Len(t.of) /\ t.k \in Kinds /\ WellFormed(t)
    BY <2>2 DEF Made, WellFormed
  <2>4. \A i \in 1..Len(cs) : Typed(cs[i]) /\ Canonical(cs[i])
    BY <1>1, <2>2, <2>3, EveryTyped
  <2>5. t.k \in {"optional", "ptr", "array", "list", "prefixed"} => Typed(cs[1]) /\ Canonical(cs[1])
    <3>1. t.k \in {"optional", "ptr", "array", "list", "prefixed"} => Len(t.of) = 1
      BY <2>3 DEF WellFormed
    <3>2. Len(t.of) = 1 => 1 \in 1..Len(cs)
      BY <2>3
    <3> QED BY <2>4, <3>1, <3>2
  <2>6. Canonical(c)
    <3>1. CASE t.k \in {"byte", "bool", "unit"}
      BY <2>2, <3>1, ScalarCanonical
    <3>2. CASE t.k = "optional"
      BY <2>2, <2>5, <3>2, OptionalCanonical
    <3>3. CASE t.k = "ptr"
      BY <2>2, <2>5, <3>3, PtrCanonical
    <3>4. CASE t.k \in {"tuple", "struct"}
      BY <2>2, <2>4, <3>4, RowCanonical
    <3>5. CASE t.k = "array"
      BY <2>2, <2>5, <3>5, ArrayCanonical
    <3>6. CASE t.k \in {"list", "block"}
      BY <2>2, <2>5, <3>6, ContainerCanonical
    <3>7. CASE t.k = "prefixed"
      <4>1. PICK u \in Universe : u = t.of[1] /\ cs[1] = Codec[u] /\ u.k \in {"list", "block"}
        BY <2>2, <2>3, <3>7 DEF WellFormed
      <4>2. Counted(cs[1])
        BY <4>1, EveryCounted
      <4> QED BY <2>2, <2>5, <3>7, <4>2, PrefixedCanonical
    <3>8. CASE t.k = "variant"
      BY <2>2, <2>4, <3>8, VariantCanonical
    <3> QED BY <2>3, <3>1, <3>2, <3>3, <3>4, <3>5, <3>6, <3>7, <3>8 DEF Kinds
  <2> QED BY <2>1, <2>6
<1> HIDE DEF T
<1>2. Universe \subseteq T
  BY <1>1, AllTypes
<1> QED BY <1>2 DEF T

\* A successful call consumed what writing the object it decoded appends,
\* and with a size prefix no more elements than the call allows.
THEOREM CanonicalReadsHolds == Spec => CanonicalReads
<1> DEFINE Exact ==
      last'.err = "ok" =>
          LET consumed == SubSeq(buf, pos + 1, pos')
          IN  /\ last'.op \in InPlaceOps =>
                    C.write[target'][last'.n] = Wrote(consumed)
              /\ last'.op \in SizedOps /\ type.k # "array" =>
                    /\ WriteWithSize(C, target') = Wrote(consumed)
                    /\ Len(target') <= last'.n
<1>1. ASSUME IInv, Next PROVE Exact
  <2>1. /\ target \in C.values /\ pos \in 0..Len(buf) /\ buf \in Seq(Bytes) /\ type \in Types
        /\ Typed(C) /\ C.fresh \in C.values /\ Canonical(C)
        /\ type.k \in {"list", "block"} => Counted(C)
    BY <1>1, OurCodec, EveryCanonical, EveryCounted DEF IInv, TypeOK, Typed
  <2>2. ASSUME NEW n \in Counts \cup {Default}, NEW v \in C.values,
               NEW r, r = C.read[v][buf][pos][n], r.err = "ok"
        PROVE  C.write[r.v][n] = Wrote(SubSeq(buf, pos + 1, r.pos))
    <3>1. n \in Nat
      BY CallCounts
    <3> QED BY <2>1, <2>2, <3>1, PartCanonical
  <2>3. ASSUME NEW max \in Counts, NEW v \in C.values, Sized, type.k # "array",
               NEW r, r = ReadWithSize(C, v, buf, pos, max), r.err = "ok"
        PROVE  /\ WriteWithSize(C, r.v) = Wrote(SubSeq(buf, pos + 1, r.pos))
               /\ Len(r.v) <= max
    <3>1. max \in Nat /\ Counted(C)
      BY <2>1, <2>3, CallCounts DEF Sized
    <3>2. WriteWithSize(C, r.v) = Wrote(SubSeq(buf, pos + 1, r.pos)) /\ Len(r.v) \in 0..max
      BY <2>1, <2>3, <3>1, SizedCanonical
    <3> QED BY <3>1, <3>2
  <2>4. ASSUME NEW n \in Counts \cup {Default}, Set(n) \/ SetAtomic(n) PROVE Exact
    BY <2>4 DEF Set, SetAtomic, Appended, InPlaceOps, SizedOps
  <2>5. ASSUME NEW n \in Counts \cup {Default}, GetTo(n) PROVE Exact
    <3>1. PICK r : r = C.read[target][buf][pos][n]
      OBVIOUS
    <3>2. last' = [op |-> "get_to", n |-> n, err |-> r.err] /\ target' = r.v /\ pos' = r.pos
      BY <2>5, <3>1 DEF GetTo, InPlace
    <3>3. last'.err = r.err /\ last'.n = n /\ last'.op \notin SizedOps
      BY <3>2 DEF SizedOps
    <3>4. r.err = "ok" => C.write[r.v][n] = Wrote(SubSeq(buf, pos + 1, r.pos))
      BY <2>1, <2>2, <3>1
    <3> QED BY <3>2, <3>3, <3>4
  <2>6. ASSUME NEW n \in Counts \cup {Default}, Get(n) \/ GetAtomic(n) PROVE Exact
    <3>1. PICK r : r = C.read[C.fresh][buf][pos][n]
      OBVIOUS
    <3>2. /\ last'.err = r.err /\ last'.n = n /\ last'.op \notin SizedOps
          /\ r.err = "ok" => target' = r.v /\ pos' = r.pos
      BY <2>6, <3>1 DEF Get, GetAtomic, ViaNew, SizedOps
    <3>3. r.err = "ok" => C.write[r.v][n] = Wrote(SubSeq(buf, pos + 1, r.pos))
      BY <2>1, <2>2, <3>1
    <3> QED BY <3>2, <3>3
  <2>7. ASSUME NEW max \in Counts, GetToWithSize(max) PROVE Exact
    <3>1. PICK r : r = ReadWithSize(C, target, buf, pos, max)
      OBVIOUS
    <3>2. /\ last'.err = r.err /\ last'.n = max /\ last'.op \notin InPlaceOps /\ Sized
          /\ target' = r.v /\ pos' = r.pos
      BY <2>7, <3>1 DEF GetToWithSize, InPlace, InPlaceOps
    <3>3. r.err = "ok" /\ type.k # "array" =>
              /\ WriteWithSize(C, r.v) = Wrote(SubSeq(buf, pos + 1, r.pos))
              /\ Len(r.v) <= max
      BY <2>1, <2>3, <3>1, <3>2
    <3> QED BY <3>2, <3>3
  <2>8. ASSUME NEW max \in Counts, GetToWithSizeAtomic(max) PROVE Exact
    <3>1. PICK r : r = ReadWithSize(C, C.fresh, buf, pos, max)
      OBVIOUS
    <3>2. /\ last'.err = r.err /\ last'.n = max /\ last'.op \notin InPlaceOps /\ Sized
          /\ r.err = "ok" => target' = r.v /\ pos' = r.pos
      BY <2>8, <3>1 DEF GetToWithSizeAtomic, ViaNew, InPlaceOps
    <3>3. r.err = "ok" /\ type.k # "array" =>
              /\ WriteWithSize(C, r.v) = Wrote(SubSeq(buf, pos + 1, r.pos))
              /\ Len(r.v) <= max
      BY <2>1, <2>3, <3>1, <3>2
    <3> QED BY <3>2, <3>3
  <2>9. ASSUME SetWithSize PROVE Exact
    BY <2>9 DEF SetWithSize, Appended, InPlaceOps, SizedOps
  <2>10. ASSUME Parse PROVE Exact
    BY <2>10 DEF Parse, InPlaceOps, SizedOps
  <2> QED BY <1>1, <2>4, <2>5, <2>6, <2>7, <2>8, <2>9, <2>10 DEF Next
<1>2. IInv /\ [Next]_vars => [Exact]_vars
  BY <1>1
<1> QED BY Initial, Inductive, <1>2, PTL DEF Spec, CanonicalReads

----------------------------------------------------------------------------
(* What is read does not depend on the object that it is read into.        *)

\* Whether and where a read ends never does, and what it decodes only where
\* a part of the object is not read at all.
Alike(c, n, a, b) ==
    /\ a.err = b.err /\ a.pos = b.pos
    /\ a.err = "ok" /\ n \in c.whole => a.v = b.v

\* Reading does not depend on the object that is read into.
Forgets(c) ==
    \A v \in c.values : \A w \in c.values : \A s \in Seq(Bytes) : \A p \in 0..Len(s) : \A n \in Nat :
        Alike(c, n, c.read[v][s][p][n], c.read[w][s][p][n])

\* A codec has this if its functions do.
LEMMA ForgetsIf ==
  ASSUME NEW t, NEW cs, NEW c, Made(t, cs, c),
         \A v \in c.values : \A w \in c.values :
             \A s \in Seq(Bytes) : \A p \in 0..Len(s) : \A n \in Nat :
                 Alike(c, n, Read(t, cs, v, s, p, n), Read(t, cs, w, s, p, n))
  PROVE  Forgets(c)
<1> SUFFICES ASSUME NEW v \in c.values, NEW w \in c.values, NEW s \in Seq(Bytes),
                    NEW p \in 0..Len(s), NEW n \in Nat
             PROVE  Alike(c, n, c.read[v][s][p][n], c.read[w][s][p][n])
  BY DEF Forgets
<1>1. p \in Nat
  OBVIOUS
<1>2. c.read[v][s][p][n] = Read(t, cs, v, s, p, n) /\ c.read[w][s][p][n] = Read(t, cs, w, s, p, n)
  BY <1>1 DEF Made
<1> QED BY <1>2

\* Bytes, bools and the unit type.
LEMMA ScalarForgets ==
  ASSUME NEW t, NEW cs, NEW c, Made(t, cs, c), t.k \in {"byte", "bool", "unit"}
  PROVE  Forgets(c)
<1>1. ASSUME NEW v \in c.values, NEW w \in c.values, NEW s \in Seq(Bytes), NEW p \in 0..Len(s),
             NEW n \in Nat
      PROVE  Alike(c, n, Read(t, cs, v, s, p, n), Read(t, cs, w, s, p, n))
  <2>1. PICK a, b : a = ReadByte(v, s, p, n) /\ b = ReadByte(w, s, p, n)
    OBVIOUS
  <2>2. a.err = b.err /\ a.pos = b.pos /\ (a.err = "ok" => a.v = b.v)
    <3>1. CASE n \notin {Default, 1}
      BY <2>1, <3>1 DEF ReadByte, Failed
    <3>2. CASE n \in {Default, 1} /\ p >= Len(s)
      BY <2>1, <3>2 DEF ReadByte, Failed
    <3>3. CASE n \in {Default, 1} /\ ~(p >= Len(s))
      BY <2>1, <3>3 DEF ReadByte, Done
    <3> QED BY <3>1, <3>2, <3>3
  <2>3. CASE t.k = "byte"
    <3>1. Read(t, cs, v, s, p, n) = a /\ Read(t, cs, w, s, p, n) = b
      BY <2>1, <2>3 DEF Read
    <3> QED BY <2>2, <3>1 DEF Alike
  <2>4. CASE t.k = "bool"
    <3>1. /\ Read(t, cs, v, s, p, n) =
                 IF a.err = "ok" /\ a.v > 1 THEN Failed("invalid_value", v, p) ELSE a
          /\ Read(t, cs, w, s, p, n) =
                 IF b.err = "ok" /\ b.v > 1 THEN Failed("invalid_value", w, p) ELSE b
      BY <2>1, <2>4 DEF Read, ReadBool
    <3> QED BY <2>2, <3>1 DEF Alike, Failed
  <2>5. CASE t.k = "unit"
    <3>1. Read(t, cs, v, s, p, n) = Done(v, p) /\ Read(t, cs, w, s, p, n) = Done(w, p)
      BY <2>5 DEF Read
    <3>2. v = w
      <4>1. Values(t, cs) = {0}
        BY <2>5 DEF Values
      <4>2. c.values = {0}
        BY <4>1, MadeOf
      <4> QED BY <4>2
    <3> QED BY <3>1, <3>2 DEF Alike
  <2> QED BY <2>3, <2>4, <2>5
<1> QED BY <1>1, ForgetsIf

\* Optionals and variants read new elements, pointers new objects.
LEMMA NewForgets ==
  ASSUME NEW t, NEW cs, NEW c, Made(t, cs, c), t.k \in {"optional", "ptr", "variant"},
         \A i \in 1..Len(cs) : Typed(cs[i])
  PROVE  Forgets(c)
<1>1. ASSUME NEW v \in c.values, NEW w \in c.values, NEW s \in Seq(Bytes), NEW p \in 0..Len(s),
             NEW n \in Nat
      PROVE  Alike(c, n, Read(t, cs, v, s, p, n), Read(t, cs, w, s, p, n))
  <2>1. PICK a, b : a = Read(t, cs, v, s, p, n) /\ b = Read(t, cs, w, s, p, n)
    OBVIOUS
  <2>2. CASE t.k = "optional"
    <3>1. a = ReadOptional(cs, v, s, p, n) /\ b = ReadOptional(cs, w, s, p, n)
      BY <2>1, <2>2 DEF Read
    <3>2. PICK flag, x : /\ flag = ReadBool(0, s, p, Default)
                         /\ x = cs[1].read[cs[1].fresh][s][flag.pos][n]
      OBVIOUS
    <3>3. /\ a = IF flag.err # "ok" THEN Failed(flag.err, v, p)
                 ELSE IF flag.v = 0 THEN Done(<<>>, flag.pos) ELSE [x EXCEPT !.v = <<@>>]
          /\ b = IF flag.err # "ok" THEN Failed(flag.err, w, p)
                 ELSE IF flag.v = 0 THEN Done(<<>>, flag.pos) ELSE [x EXCEPT !.v = <<@>>]
      BY <3>1, <3>2, Zenon DEF ReadOptional
    <3>4. CASE flag.err # "ok"
      BY <2>1, <3>3, <3>4 DEF Alike, Failed
    <3>5. CASE flag.err = "ok"
      <4>1. a = b
        BY <3>3, <3>5
      <4> QED BY <2>1, <4>1 DEF Alike
    <3> QED BY <3>4, <3>5
  <2>3. CASE t.k = "ptr"
    <3>1. a = ReadPtr(cs, v, s, p, n) /\ b = ReadPtr(cs, w, s, p, n)
      BY <2>1, <2>3 DEF Read
    <3>2. PICK x : x = cs[1].read[cs[1].fresh][s][p][n]
      OBVIOUS
    <3>3. x = [err |-> x.err, v |-> x.v, pos |-> x.pos]
      <4>1. Len(cs) = 1
        BY <2>3 DEF Made, WellFormed
      <4>2. Typed(cs[1])
        BY <4>1
      <4> QED BY <3>2, <4>2, FreshRead
    <3>4. /\ a = [err |-> x.err, v |-> IF x.err = "ok" THEN <<x.v>> ELSE v, pos |-> x.pos]
          /\ b = [err |-> x.err, v |-> IF x.err = "ok" THEN <<x.v>> ELSE w, pos |-> x.pos]
      BY <3>1, <3>2, <3>3, Zenon DEF ReadPtr
    <3> QED BY <2>1, <3>4 DEF Alike
  <2>4. CASE t.k = "variant"
    <3>1. a = ReadVariant(cs, v, s, p) /\ b = ReadVariant(cs, w, s, p)
      BY <2>1, <2>4 DEF Read
    <3>2. PICK index, d : index = ReadCompact(s, p) /\ d = cs[index.v + 1]
      OBVIOUS
    <3>3. PICK x : x = d.read[d.fresh][s][index.pos][Default]
      OBVIOUS
    <3>4. /\ a = IF index.err # "ok" THEN Failed(index.err, v, p)
                 ELSE IF index.v >= Len(cs) THEN Failed("invalid_value", v, index.pos)
                 ELSE [x EXCEPT !.v = IF x.err = "ok" THEN <<index.v, @>> ELSE v]
          /\ b = IF index.err # "ok" THEN Failed(index.err, w, p)
                 ELSE IF index.v >= Len(cs) THEN Failed("invalid_value", w, index.pos)
                 ELSE [x EXCEPT !.v = IF x.err = "ok" THEN <<index.v, @>> ELSE w]
      BY <3>1, <3>2, <3>3, Zenon DEF ReadVariant
    <3>5. CASE index.err # "ok"
      BY <2>1, <3>4, <3>5 DEF Alike, Failed
    <3>6. CASE index.err = "ok" /\ index.v >= Len(cs)
      BY <2>1, <3>4, <3>6 DEF Alike, Failed
    <3>7. CASE index.err = "ok" /\ ~(index.v >= Len(cs))
      <4>1. /\ index.v \in Nat /\ index.pos \in 0..Len(s)
        <5>1. index \in [err : CompactErrors, v : 0..Default, pos : p..Len(s)]
          BY <3>2, CompactTyped
        <5> QED BY <5>1
      <4>2. Typed(d)
        <5>1. Len(cs) \in Nat
          BY DEF Made
        <5>2. index.v + 1 \in 1..Len(cs)
          BY <3>7, <4>1, <5>1
        <5> QED BY <3>2, <5>2
      <4>3. x = [err |-> x.err, v |-> x.v, pos |-> x.pos]
        <5>1. Default \in Nat
          BY Numbers
        <5>2. index.pos \in 0..Len(s)
          BY <4>1
        <5>3. d.fresh \in d.values
          BY <4>2 DEF Typed
        <5>4. x \in [err : Errors, v : d.values, pos : index.pos..Len(s)]
          BY <3>3, <4>2, <5>1, <5>2, <5>3 DEF Typed
        <5> QED BY <5>4
      <4>4. /\ a = [err |-> x.err, v |-> IF x.err = "ok" THEN <<index.v, x.v>> ELSE v,
                    pos |-> x.pos]
            /\ b = [err |-> x.err, v |-> IF x.err = "ok" THEN <<index.v, x.v>> ELSE w,
                    pos |-> x.pos]
        BY <3>4, <3>7, <4>3
      <4> QED BY <2>1, <4>4 DEF Alike
    <3> QED BY <3>5, <3>6, <3>7
  <2> QED BY <2>2, <2>3, <2>4
<1> QED BY <1>1, ForgetsIf

\* A part of a codec that has it.
LEMMA PartForgets ==
  ASSUME NEW c, Forgets(c), NEW v \in c.values, NEW w \in c.values, NEW s \in Seq(Bytes),
         NEW p, p \in 0..Len(s), NEW n, n \in Nat,
         NEW a, a = c.read[v][s][p][n], NEW b, b = c.read[w][s][p][n]
  PROVE  a.err = b.err /\ a.pos = b.pos /\ (a.err = "ok" /\ n \in c.whole => a.v = b.v)
<1>1. Alike(c, n, c.read[v][s][p][n], c.read[w][s][p][n])
  BY DEF Forgets
<1>2. Alike(c, n, a, b)
  BY <1>1
<1> QED BY <1>2 DEF Alike
\* What a round of a row does with its object.
Stepped(c, n, s, m, x, y) ==
    LET e == c.read[x.v[m]][s][x.pos][n]
    IN  /\ x.v[m] \in c.values /\ x.pos \in 0..Len(s)
        /\ x.err # "ok" => y = x
        /\ x.err = "ok" => /\ y.err = e.err /\ y.pos = e.pos /\ y.v[m] = e.v
                           /\ \A i \in 1..(m - 1) : y.v[i] = x.v[i]

\* A round of ReadAll is such a step.
LEMMA RoundStep ==
  ASSUME NEW cs, NEW ns, NEW V, NEW M, NEW vs, NEW s \in Seq(Bytes), NEW p \in 0..Len(s), NEW g,
         Rounds(cs, ns, M, V, vs, s, p, g), NEW m \in 1..Len(cs)
  PROVE  Stepped(cs[m], ns[m], s, m, g[m - 1], g[m])
<1>1. PICK k : k = m - 1
  OBVIOUS
<1>2. Len(cs) \in Nat /\ M \in Nat /\ Len(cs) <= M
  BY Zenon DEF Rounds
<1>3. k \in 0..Len(cs) /\ m \in 1..M /\ k \in Nat
  BY <1>1, <1>2
<1>4. PICK x, y : x = g[k] /\ y = g[m]
  OBVIOUS
<1>5. x \in [err : Errors, v : [1..M -> V], pos : p..Len(s)] /\ x.v[m] \in cs[m].values
  BY <1>1, <1>3, <1>4, Zenon DEF Rounds
<1>6. x.pos \in p..Len(s)
  BY <1>5
<1>7. x.pos \in 0..Len(s)
  BY <1>6
<1>8. PICK e : e = cs[m].read[x.v[m]][s][x.pos][ns[m]]
  OBVIOUS
<1>9. /\ x.err # "ok" => y = x
      /\ x.err = "ok" =>
            /\ y.err = e.err /\ y.pos = e.pos /\ y.v[m] = e.v
            /\ \A i \in 1..M : i # m => y.v[i] = x.v[i]
  BY <1>1, <1>4, <1>8, Zenon DEF Rounds
<1>10. \A i \in 1..(m - 1) : i \in 1..M /\ i # m
  BY <1>2, <1>3
<1>11. Stepped(cs[m], ns[m], s, m, x, y)
  BY <1>5, <1>7, <1>8, <1>9, <1>10, Zenon DEF Stepped
<1> QED BY <1>1, <1>4, <1>11

\* Each part of a row has it.
AllForget(cs) == \A i \in 1..Len(cs) : Forgets(cs[i])

\* A row of parts that have it has it, part by part.
LEMMA ReadAllForgets ==
  ASSUME NEW cs, NEW ns, NEW V, NEW M, NEW vs, NEW ws,
         InRow(cs, ns, V, M, vs), InRow(cs, ns, V, M, ws), AllForget(cs),
         NEW s \in Seq(Bytes), NEW p \in 0..Len(s),
         NEW a, a = ReadAll(cs, vs, ns, s, p), NEW b, b = ReadAll(cs, ws, ns, s, p)
  PROVE  /\ a.err = b.err /\ a.pos = b.pos
         /\ a.err = "ok" => \A i \in 1..Len(cs) : ns[i] \in cs[i].whole => a.v[i] = b.v[i]
<1>0. Len(cs) \in Nat /\ \A i \in 1..Len(cs) : Forgets(cs[i]) /\ ns[i] \in Nat
  BY DEF InRow, AllForget
<1>1. PICK N \in Nat : N = Len(cs)
  BY <1>0
<1>2. PICK g : a = g[N] /\ Rounds(cs, ns, M, V, vs, s, p, g)
  BY <1>1, RowRounds
<1>3. PICK h : b = h[N] /\ Rounds(cs, ns, M, V, ws, s, p, h)
  BY <1>1, RowRounds
<1> DEFINE Agree(k, x, y) ==
        /\ x.err = y.err /\ x.pos = y.pos
        /\ x.err = "ok" => \A i \in 1..k : ns[i] \in cs[i].whole => x.v[i] = y.v[i]
<1> DEFINE T == {k \in Nat : Agree(k, g[k], h[k])}
<1>4. 0 \in T
  <2>1. g[0] = Done(vs, p) /\ h[0] = Done(ws, p)
    BY <1>2, <1>3, Zenon DEF Rounds
  <2> QED BY <2>1 DEF Done
<1>5. ASSUME NEW k \in 0..(N - 1), k \in T PROVE k + 1 \in T
  <2>1. PICK m \in 1..N : m = k + 1 /\ m - 1 = k
    OBVIOUS
  <2>2. PICK x, y : x = g[m - 1] /\ y = h[m - 1]
    OBVIOUS
  <2>3. PICK x1, y1 : x1 = g[m] /\ y1 = h[m]
    OBVIOUS
  <2>4. Agree(k, x, y)
    BY <1>5, <2>1, <2>2
  <2>5. PICK d, n : d = cs[m] /\ n = ns[m]
    OBVIOUS
  <2>6. PICK e : e = d.read[x.v[m]][s][x.pos][n]
    OBVIOUS
  <2>7. PICK f : f = d.read[y.v[m]][s][y.pos][n]
    OBVIOUS
  <2>8. Stepped(d, n, s, m, x, x1) /\ Stepped(d, n, s, m, y, y1)
    <3>1. Stepped(cs[m], ns[m], s, m, g[m - 1], g[m])
      BY <1>1, <1>2, RoundStep
    <3>2. Stepped(cs[m], ns[m], s, m, h[m - 1], h[m])
      BY <1>1, <1>3, RoundStep
    <3> QED BY <2>2, <2>3, <2>5, <3>1, <3>2
  <2>9. /\ x.v[m] \in d.values /\ x.pos \in 0..Len(s)
        /\ x.err # "ok" => x1 = x
        /\ x.err = "ok" => /\ x1.err = e.err /\ x1.pos = e.pos /\ x1.v[m] = e.v
                           /\ \A i \in 1..(m - 1) : x1.v[i] = x.v[i]
    BY <2>6, <2>8 DEF Stepped
  <2>10. /\ y.v[m] \in d.values /\ y.pos \in 0..Len(s)
         /\ y.err # "ok" => y1 = y
         /\ y.err = "ok" => /\ y1.err = f.err /\ y1.pos = f.pos /\ y1.v[m] = f.v
                            /\ \A i \in 1..(m - 1) : y1.v[i] = y.v[i]
    BY <2>7, <2>8 DEF Stepped
  <2>11. e.err = f.err /\ e.pos = f.pos /\ (e.err = "ok" /\ n \in d.whole => e.v = f.v)
    <3>1. Forgets(d) /\ n \in Nat
      BY <1>0, <1>1, <2>5
    <3>2. PICK xv \in d.values, yv \in d.values, q \in 0..Len(s) :
              xv = x.v[m] /\ yv = y.v[m] /\ q = x.pos /\ q = y.pos
      BY <2>4, <2>9, <2>10
    <3>3. e = d.read[xv][s][q][n] /\ f = d.read[yv][s][q][n]
      BY <2>6, <2>7, <3>2
    <3>4. Alike(d, n, d.read[xv][s][q][n], d.read[yv][s][q][n])
      BY <3>1 DEF Forgets
    <3>5. Alike(d, n, e, f)
      BY <3>3, <3>4
    <3> QED BY <3>5 DEF Alike
  <2>12. Agree(m, x1, y1)
    <3>1. CASE x.err # "ok"
      <4>1. x1 = x /\ y1 = y /\ x1.err # "ok"
        BY <2>4, <2>9, <2>10, <3>1
      <4> QED BY <2>4, <4>1
    <3>2. CASE x.err = "ok"
      <4>1. x1.err = y1.err /\ x1.pos = y1.pos
        BY <2>4, <2>9, <2>10, <2>11, <3>2
      <4>2. ASSUME x1.err = "ok", NEW i \in 1..m, ns[i] \in cs[i].whole PROVE x1.v[i] = y1.v[i]
        <5>1. CASE i = m
          BY <2>4, <2>5, <2>9, <2>10, <2>11, <3>2, <4>2, <5>1
        <5>2. CASE i # m
          <6>1. i \in 1..(m - 1) /\ i \in 1..k
            BY <2>1, <5>2
          <6> QED BY <2>4, <2>9, <2>10, <3>2, <4>2, <6>1
        <5> QED BY <5>1, <5>2
      <4> QED BY <4>1, <4>2
    <3> QED BY <3>1, <3>2
  <2> HIDE DEF Agree
  <2> QED BY <2>1, <2>3, <2>12
<1> HIDE DEF T
<1>6. N \in T
  <2>1. \A k \in 0..N : k \in T
    BY <1>4, <1>5, Upwards
  <2> QED BY <2>1
<1>7. Agree(N, g[N], h[N])
  BY <1>6 DEF T
<1> QED BY <1>1, <1>2, <1>3, <1>7

\* A row read in place is a row.
LEMMA RowKept ==
  ASSUME NEW cs, NEW ns, NEW V, NEW M, NEW vs, InRow(cs, ns, V, M, vs),
         NEW s \in Seq(Bytes), NEW p \in 0..Len(s), NEW r, r = ReadAll(cs, vs, ns, s, p)
  PROVE  r \in [err : Errors, v : [1..M -> V], pos : p..Len(s)]
<1>1. /\ Len(cs) \in Nat /\ M \in Nat /\ Len(cs) <= M /\ vs \in [1..M -> V]
      /\ \A i \in 1..Len(cs) :
             Typed(cs[i]) /\ vs[i] \in cs[i].values /\ cs[i].values \subseteq V /\ ns[i] \in Nat
  BY DEF InRow
<1> QED BY <1>1, ReadAllTyped

\* Tuples and structs.
LEMMA RowForgets ==
  ASSUME NEW t, NEW cs, NEW c, Made(t, cs, c), t.k \in {"tuple", "struct"},
         \A i \in 1..Len(cs) : Typed(cs[i]) /\ Forgets(cs[i])
  PROVE  Forgets(c)
<1>1. PICK N \in Nat : N = Len(cs)
  BY DEF Made
<1>2. PICK V : V = UNION {cs[i].values : i \in 1..N}
  OBVIOUS
<1>3. \A i \in 1..N : cs[i].values \subseteq V
  BY <1>2
<1>4. PICK ns : ns = PartCounts(t, cs)
  OBVIOUS
<1>5. /\ \A i \in 1..N : ns[i] \in Nat
      /\ \A v, s, p, n : Read(t, cs, v, s, p, n) = ReadAll(cs, v, ns, s, p)
      /\ c.values = Members(cs)
  BY <1>1, <1>4, RowIs, MadeOf
<1>6. c.values = {v \in [1..N -> V] : \A i \in 1..N : v[i] \in cs[i].values}
  BY <1>1, <1>3, <1>5, MembersAre
<1>7. \A n \in c.whole : \A i \in 1..N : ns[i] \in cs[i].whole
  <2>1. Whole(t, cs) =
            {n \in Nat : \A i \in 1..Len(cs) : PartCounts(t, cs)[i] \in cs[i].whole}
    BY DEF Whole
  <2>2. c.whole = Whole(t, cs)
    BY MadeOf
  <2> QED BY <1>1, <1>4, <2>1, <2>2
<1>8. ASSUME NEW v \in c.values PROVE InRow(cs, ns, V, N, v)
  <2>1. v \in [1..N -> V] /\ Len(cs) \in Nat /\ Len(cs) <= N
    BY <1>1, <1>6
  <2>2. \A i \in 1..Len(cs) :
            Typed(cs[i]) /\ v[i] \in cs[i].values /\ cs[i].values \subseteq V /\ ns[i] \in Nat
    BY <1>1, <1>3, <1>5, <1>6
  <2> QED BY <2>1, <2>2 DEF InRow
<1>9. AllForget(cs)
  BY DEF AllForget
<1>10. ASSUME NEW v \in c.values, NEW w \in c.values, NEW s \in Seq(Bytes), NEW p \in 0..Len(s),
              NEW n \in Nat
       PROVE  Alike(c, n, Read(t, cs, v, s, p, n), Read(t, cs, w, s, p, n))
  <2>1. PICK a, b : a = ReadAll(cs, v, ns, s, p) /\ b = ReadAll(cs, w, ns, s, p)
    OBVIOUS
  <2>2. /\ a.err = b.err /\ a.pos = b.pos
        /\ a.err = "ok" => \A i \in 1..Len(cs) : ns[i] \in cs[i].whole => a.v[i] = b.v[i]
    BY <1>8, <1>9, <2>1, ReadAllForgets
  <2>3. a.v \in [1..N -> V] /\ b.v \in [1..N -> V]
    <3>1. a \in [err : Errors, v : [1..N -> V], pos : p..Len(s)]
      BY <1>8, <2>1, RowKept
    <3>2. b \in [err : Errors, v : [1..N -> V], pos : p..Len(s)]
      BY <1>8, <2>1, RowKept
    <3> QED BY <3>1, <3>2
  <2>4. ASSUME a.err = "ok", n \in c.whole PROVE a.v = b.v
    <3>1. \A i \in 1..N : a.v[i] = b.v[i]
      BY <1>1, <1>7, <2>2, <2>4
    <3> QED BY <2>3, <3>1
  <2>5. Alike(c, n, a, b)
    BY <2>2, <2>4 DEF Alike
  <2> QED BY <1>5, <2>1, <2>5
<1> QED BY <1>10, ForgetsIf

\* Arrays, when they are read as a whole.
LEMMA ArrayForgets ==
  ASSUME NEW t, NEW cs, NEW c, Made(t, cs, c), t.k = "array", Typed(cs[1]), Forgets(cs[1])
  PROVE  Forgets(c)
<1>1. /\ t.extent \in Nat
      /\ c.values = [1..t.extent -> cs[1].values]
      /\ \A n \in Nat : ArrayCount(t, n) \in Nat
      /\ \A v, s, p, n : Read(t, cs, v, s, p, n) = ReadArray(t, cs, v, s, p, n)
  BY ArrayIs, MadeOf
<1>2. PICK M \in Nat : M = t.extent
  BY <1>1
<1>3. PICK d, V : d = cs[1] /\ V = d.values
  OBVIOUS
<1>4. c.values = [1..M -> V] /\ Typed(d) /\ Forgets(d) /\ Default \in Nat
  BY <1>1, <1>2, <1>3, Numbers
<1>5. \A n \in c.whole : ArrayCount(t, n) = M /\ Default \in d.whole
  <2>1. Whole(t, cs) = {n \in Nat : ArrayCount(t, n) = t.extent /\ Default \in cs[1].whole}
    BY DEF Whole
  <2>2. c.whole = Whole(t, cs)
    BY MadeOf
  <2> QED BY <1>2, <1>3, <2>1, <2>2
<1>6. ASSUME NEW v \in c.values, NEW w \in c.values, NEW s \in Seq(Bytes), NEW p \in 0..Len(s),
             NEW n \in Nat
      PROVE  Alike(c, n, Read(t, cs, v, s, p, n), Read(t, cs, w, s, p, n))
  <2>1. PICK count \in Nat : count = ArrayCount(t, n)
    BY <1>1
  <2>2. PICK ds, ns : ds = Same(d, count) /\ ns = Same(Default, count)
    OBVIOUS
  <2>3. PICK a, b : a = Read(t, cs, v, s, p, n) /\ b = Read(t, cs, w, s, p, n)
    OBVIOUS
  <2>4. PICK x, y : x = ReadAll(ds, v, ns, s, p) /\ y = ReadAll(ds, w, ns, s, p)
    OBVIOUS
  <2>5. /\ a = IF count > M THEN Failed("count_out_of_range", v, p)
               ELSE IF t.of[1].k = "byte" /\ count > Len(s) - p THEN Failed("insufficient_data", v, p)
               ELSE x
        /\ b = IF count > M THEN Failed("count_out_of_range", w, p)
               ELSE IF t.of[1].k = "byte" /\ count > Len(s) - p THEN Failed("insufficient_data", w, p)
               ELSE y
    BY <1>1, <1>2, <1>3, <2>1, <2>2, <2>3, <2>4 DEF ReadArray
  <2>6. CASE count > M \/ (t.of[1].k = "byte" /\ count > Len(s) - p)
    BY <2>3, <2>5, <2>6 DEF Alike, Failed
  <2>7. CASE ~(count > M \/ (t.of[1].k = "byte" /\ count > Len(s) - p))
    <3>1. a = x /\ b = y /\ count <= M
      BY <2>5, <2>7
    <3>2. Len(ds) = count /\ \A i \in 1..count : ds[i] = d /\ ns[i] = Default
      BY <2>2, SameIs
    <3>3. ASSUME NEW u \in [1..M -> V] PROVE InRow(ds, ns, V, M, u)
      <4>1. Len(ds) \in Nat /\ Len(ds) <= M
        BY <3>1, <3>2
      <4>2. \A i \in 1..Len(ds) :
                Typed(ds[i]) /\ u[i] \in ds[i].values /\ ds[i].values \subseteq V /\ ns[i] \in Nat
        <5>1. \A i \in 1..count : u[i] \in V
          BY <3>1
        <5> QED BY <1>3, <1>4, <3>2, <5>1
      <4> QED BY <4>1, <4>2 DEF InRow
    <3>4. AllForget(ds) /\ v \in [1..M -> V] /\ w \in [1..M -> V]
      BY <1>4, <3>2 DEF AllForget
    <3>5. InRow(ds, ns, V, M, v) /\ InRow(ds, ns, V, M, w)
      BY <3>3, <3>4
    <3>6. /\ x.err = y.err /\ x.pos = y.pos
          /\ x.err = "ok" => \A i \in 1..Len(ds) : ns[i] \in ds[i].whole => x.v[i] = y.v[i]
      BY <2>4, <3>4, <3>5, ReadAllForgets
    <3>7. x \in [err : Errors, v : [1..M -> V], pos : p..Len(s)]
      BY <2>4, <3>5, RowKept
    <3>8. y \in [err : Errors, v : [1..M -> V], pos : p..Len(s)]
      BY <2>4, <3>5, RowKept
    <3>9. ASSUME x.err = "ok", n \in c.whole PROVE x.v = y.v
      <4>1. \A i \in 1..M : x.v[i] = y.v[i]
        BY <1>5, <2>1, <3>2, <3>6, <3>9
      <4>2. x.v \in [1..M -> V] /\ y.v \in [1..M -> V]
        BY <3>7, <3>8
      <4> QED BY <4>1, <4>2
    <3>10. Alike(c, n, x, y)
      BY <3>6, <3>9 DEF Alike
    <3> QED BY <2>3, <3>1, <3>10
  <2> QED BY <2>6, <2>7
<1> QED BY <1>6, ForgetsIf
\* Containers.
LEMMA ContainerForgets ==
  ASSUME NEW t, NEW cs, NEW c, Made(t, cs, c), t.k \in {"list", "block"}
  PROVE  Forgets(c)
<1>1. ASSUME NEW v \in c.values, NEW w \in c.values, NEW s \in Seq(Bytes), NEW p \in 0..Len(s),
             NEW n \in Nat
      PROVE  Alike(c, n, Read(t, cs, v, s, p, n), Read(t, cs, w, s, p, n))
  <2>1. PICK a, b : a = Read(t, cs, v, s, p, n) /\ b = Read(t, cs, w, s, p, n)
    OBVIOUS
  <2>2. a = ReadContainer(t, cs, v, s, p, n) /\ b = ReadContainer(t, cs, w, s, p, n)
    BY <2>1, ContainerIs
  <2>3. CASE n = Default \/ n > t.limit
    BY <2>1, <2>2, <2>3 DEF Alike, ReadContainer, Failed
  <2>4. CASE ~(n = Default \/ n > t.limit) /\ t.k = "list"
    <3>1. a = b
      BY <2>2, <2>4 DEF ReadContainer
    <3> QED BY <2>1, <3>1 DEF Alike
  <2>5. CASE ~(n = Default \/ n > t.limit) /\ t.k = "block"
    <3>1. /\ a = IF n * t.width > Len(s) - p THEN Failed("insufficient_data", v, p)
                 ELSE IF n > MaxCount THEN Failed("bad_alloc", v, p)
                 ELSE Done(Chunks(t, s, p, n), p + n * t.width)
          /\ b = IF n * t.width > Len(s) - p THEN Failed("insufficient_data", w, p)
                 ELSE IF n > MaxCount THEN Failed("bad_alloc", w, p)
                 ELSE Done(Chunks(t, s, p, n), p + n * t.width)
      BY <2>2, <2>5 DEF ReadContainer, ReadBlock
    <3>6. PICK m : m = n * t.width
      OBVIOUS
    <3>2. PICK x : x = Done(Chunks(t, s, p, n), p + n * t.width)
      OBVIOUS
    <3>3. CASE m > Len(s) - p
      BY <2>1, <3>1, <3>3, <3>6 DEF Alike, Failed
    <3>4. CASE ~(m > Len(s) - p) /\ n > MaxCount
      BY <2>1, <3>1, <3>4, <3>6 DEF Alike, Failed
    <3>5. CASE ~(m > Len(s) - p) /\ ~(n > MaxCount)
      <4>1. a = x /\ b = x
        BY <3>1, <3>2, <3>5, <3>6
      <4> QED BY <2>1, <4>1 DEF Alike
    <3> QED BY <3>3, <3>4, <3>5
  <2> QED BY <2>3, <2>4, <2>5
<1> QED BY <1>1, ForgetsIf

\* Containers behind their sizes.
LEMMA SizedForgets ==
  ASSUME NEW c, Typed(c), Forgets(c), NEW v \in c.values, NEW w \in c.values,
         NEW s \in Seq(Bytes), NEW p \in 0..Len(s), NEW max \in Nat,
         NEW a, a = ReadWithSize(c, v, s, p, max), NEW b, b = ReadWithSize(c, w, s, p, max)
  PROVE  /\ a.err = b.err /\ a.pos = b.pos
         /\ a.err = "ok" /\ c.whole = Nat => a.v = b.v
<1>1. PICK count : count = ReadCompact(s, p)
  OBVIOUS
<1>2. count \in [err : CompactErrors, v : 0..Default, pos : p..Len(s)]
  BY <1>1, CompactTyped
<1>3. PICK q, m : q = count.pos /\ m = count.v
  OBVIOUS
<1>4. q \in 0..Len(s) /\ m \in Nat
  BY <1>2, <1>3, Numbers
<1>5. PICK x : x = c.read[v][s][q][m]
  OBVIOUS
<1>6. PICK y : y = c.read[w][s][q][m]
  OBVIOUS
<1>7. /\ a = IF count.err # "ok" THEN Failed(count.err, v, p)
             ELSE IF m > max \/ m >= Default THEN Failed("count_out_of_range", v, p)
             ELSE IF x.err # "ok" THEN [x EXCEPT !.pos = p] ELSE x
      /\ b = IF count.err # "ok" THEN Failed(count.err, w, p)
             ELSE IF m > max \/ m >= Default THEN Failed("count_out_of_range", w, p)
             ELSE IF y.err # "ok" THEN [y EXCEPT !.pos = p] ELSE y
  BY <1>1, <1>3, <1>5, <1>6 DEF ReadWithSize
<1>8. x = [err |-> x.err, v |-> x.v, pos |-> x.pos]
  BY <1>4, <1>5, PartRead, SMTT(30)
<1>9. y = [err |-> y.err, v |-> y.v, pos |-> y.pos]
  BY <1>4, <1>6, PartRead, SMTT(30)
<1>10. x.err = y.err /\ x.pos = y.pos /\ (x.err = "ok" /\ m \in c.whole => x.v = y.v)
  <2>1. Alike(c, m, c.read[v][s][q][m], c.read[w][s][q][m])
    BY <1>4 DEF Forgets
  <2>2. Alike(c, m, x, y)
    BY <1>5, <1>6, <2>1
  <2> QED BY <2>2 DEF Alike
<1>11. CASE count.err # "ok"
  BY <1>7, <1>11 DEF Failed
<1>12. CASE count.err = "ok" /\ (m > max \/ m >= Default)
  BY <1>7, <1>12 DEF Failed
<1>13. CASE count.err = "ok" /\ ~(m > max \/ m >= Default)
  <2>1. CASE x.err = "ok"
    BY <1>4, <1>7, <1>10, <1>13, <2>1
  <2>2. CASE x.err # "ok"
    <3>1. a = [err |-> x.err, v |-> x.v, pos |-> p] /\ b = [err |-> y.err, v |-> y.v, pos |-> p]
      BY <1>7, <1>8, <1>9, <1>10, <1>13, <2>2
    <3> QED BY <1>10, <2>2, <3>1
  <2> QED BY <2>1, <2>2
<1> QED BY <1>11, <1>12, <1>13

\* Only arrays, and rows of them, keep something of the old object.
LEMMA ContainerWhole ==
  ASSUME NEW t, NEW cs, NEW c, Made(t, cs, c), t.k \notin {"array", "tuple", "struct"}
  PROVE  c.whole = Nat
<1>1. Whole(t, cs) = Nat
  BY DEF Whole
<1> QED BY <1>1, MadeOf

\* Size-prefixed containers.
LEMMA PrefixedForgets ==
  ASSUME NEW t, NEW cs, NEW c, Made(t, cs, c), t.k = "prefixed", Typed(cs[1]), Forgets(cs[1]),
         cs[1].whole = Nat
  PROVE  Forgets(c)
<1>1. PICK d : d = cs[1]
  OBVIOUS
<1>2. c.values = d.values /\ t.max \in Nat
  BY <1>1, Numbers, MadeOf DEF Values, Made, WellFormed
<1>3. ASSUME NEW v \in c.values, NEW w \in c.values, NEW s \in Seq(Bytes), NEW p \in 0..Len(s),
             NEW n \in Nat
      PROVE  Alike(c, n, Read(t, cs, v, s, p, n), Read(t, cs, w, s, p, n))
  <2>1. PICK a, b : a = Read(t, cs, v, s, p, n) /\ b = Read(t, cs, w, s, p, n)
    OBVIOUS
  <2>2. a = ReadWithSize(d, v, s, p, t.max) /\ b = ReadWithSize(d, w, s, p, t.max)
    BY <1>1, <2>1 DEF Read
  <2>3. a.err = b.err /\ a.pos = b.pos /\ (a.err = "ok" /\ d.whole = Nat => a.v = b.v)
    BY <1>1, <1>2, <2>2, SizedForgets
  <2>4. Alike(c, n, a, b)
    BY <1>1, <2>3 DEF Alike
  <2> QED BY <2>1, <2>4
<1> QED BY <1>3, ForgetsIf

\* Of any type: reading does not depend on the object that it is read into.
THEOREM EveryForgets == \A t \in Universe : Forgets(Codec[t])
<1> DEFINE T == {t \in Universe : Forgets(Codec[t])}
<1>1. ASSUME NEW t \in Universe, \A i \in 1..Len(t.of) : t.of[i] \in T
      PROVE  t \in T
  <2>1. PICK c, cs : c = Codec[t] /\ cs = PartsOf(t)
    OBVIOUS
  <2>2. /\ Made(t, cs, c) /\ Typed(c)
        /\ \A i \in 1..Len(t.of) : t.of[i] \in Universe /\ cs[i] = Codec[t.of[i]]
    BY <2>1, AllMade, EveryTyped
  <2>3. Len(cs) = Len(t.of) /\ t.k \in Kinds /\ WellFormed(t)
    BY <2>2 DEF Made, WellFormed
  <2>4. \A i \in 1..Len(cs) : Typed(cs[i]) /\ Forgets(cs[i])
    BY <1>1, <2>2, <2>3, EveryTyped
  <2>5. t.k \in {"array", "prefixed"} => Typed(cs[1]) /\ Forgets(cs[1])
    <3>1. t.k \in {"array", "prefixed"} => Len(t.of) = 1
      BY <2>3 DEF WellFormed
    <3>2. Len(t.of) = 1 => 1 \in 1..Len(cs)
      BY <2>3
    <3> QED BY <2>4, <3>1, <3>2
  <2>6. Forgets(c)
    <3>1. CASE t.k \in {"byte", "bool", "unit"}
      BY <2>2, <3>1, ScalarForgets
    <3>2. CASE t.k \in {"optional", "ptr", "variant"}
      BY <2>2, <2>4, <3>2, NewForgets
    <3>3. CASE t.k \in {"tuple", "struct"}
      BY <2>2, <2>4, <3>3, RowForgets
    <3>4. CASE t.k = "array"
      BY <2>2, <2>5, <3>4, ArrayForgets
    <3>5. CASE t.k \in {"list", "block"}
      BY <2>2, <3>5, ContainerForgets
    <3>6. CASE t.k = "prefixed"
      <4>1. PICK u \in Universe : u = t.of[1] /\ cs[1] = Codec[u] /\ u.k \in {"list", "block"}
        BY <2>2, <2>3, <3>6 DEF WellFormed
      <4>2. Made(u, PartsOf(u), Codec[u]) /\ u.k \notin {"array", "tuple", "struct"}
        BY <4>1, AllMade
      <4>3. Codec[u].whole = Nat
        BY <4>2, ContainerWhole
      <4> QED BY <2>2, <2>5, <3>6, <4>1, <4>3, PrefixedForgets
    <3> QED BY <2>3, <3>1, <3>2, <3>3, <3>4, <3>5, <3>6 DEF Kinds
  <2> QED BY <2>1, <2>6
<1> HIDE DEF T
<1>2. Universe \subseteq T
  BY <1>1, AllTypes
<1> QED BY <1>2 DEF T

\* A successful get_to, with a size prefix or without, leaves what reading
\* into a new object gives, but in an array read with a smaller count.
THEOREM OldObjectForgottenHolds == Spec => OldObjectForgotten
<1> DEFINE Reused ==
      last'.err = "ok" =>
          /\ last'.op = "get_to" /\ last'.n \in C.whole =>
                C.read[C.fresh][buf][pos][last'.n] = Done(target', pos')
          /\ last'.op = "get_to_with_size" /\ type.k # "array" =>
                ReadWithSize(C, C.fresh, buf, pos, last'.n) = Done(target', pos')
<1>1. ASSUME IInv, Next PROVE Reused
  <2>1. /\ target \in C.values /\ pos \in 0..Len(buf) /\ buf \in Seq(Bytes) /\ type \in Types
        /\ Typed(C) /\ C.fresh \in C.values /\ Forgets(C)
        /\ type.k \in {"list", "block"} => C.whole = Nat
    <3>1. /\ target \in C.values /\ pos \in 0..Len(buf) /\ buf \in Seq(Bytes) /\ type \in Types
          /\ Typed(C) /\ C.fresh \in C.values /\ Forgets(C)
      BY <1>1, OurCodec, EveryForgets DEF IInv, TypeOK, Typed
    <3>2. type \in Universe /\ Made(type, PartsOf(type), C)
      BY <3>1, OurCodec, AllMade DEF C
    <3>3. type.k \in {"list", "block"} => C.whole = Nat
      BY <3>2, ContainerWhole
    <3> QED BY <3>1, <3>3
  <2>2. ASSUME NEW n \in Counts \cup {Default}, GetTo(n) PROVE Reused
    <3>1. PICK r : r = C.read[target][buf][pos][n]
      OBVIOUS
    <3>2. PICK x : x = C.read[C.fresh][buf][pos][n]
      OBVIOUS
    <3>3. /\ last'.err = r.err /\ last'.n = n /\ last'.op = "get_to"
          /\ target' = r.v /\ pos' = r.pos
      BY <2>2, <3>1 DEF GetTo, InPlace
    <3>4. n \in Nat
      BY CallCounts
    <3>5. x.err = r.err /\ x.pos = r.pos /\ (x.err = "ok" /\ n \in C.whole => x.v = r.v)
      <4>1. Alike(C, n, C.read[C.fresh][buf][pos][n], C.read[target][buf][pos][n])
        BY <2>1, <3>4 DEF Forgets
      <4>2. Alike(C, n, x, r)
        BY <3>1, <3>2, <4>1
      <4> QED BY <4>2 DEF Alike
    <3>6. x = [err |-> x.err, v |-> x.v, pos |-> x.pos]
      BY <2>1, <3>2, <3>4, FreshRead
    <3>7. r.err = "ok" /\ n \in C.whole => x = Done(r.v, r.pos)
      BY <3>5, <3>6 DEF Done
    <3> QED BY <3>2, <3>3, <3>7
  <2>3. ASSUME NEW max \in Counts, GetToWithSize(max) PROVE Reused
    <3>1. PICK r : r = ReadWithSize(C, target, buf, pos, max)
      OBVIOUS
    <3>2. PICK x : x = ReadWithSize(C, C.fresh, buf, pos, max)
      OBVIOUS
    <3>3. /\ last'.err = r.err /\ last'.n = max /\ last'.op = "get_to_with_size" /\ Sized
          /\ target' = r.v /\ pos' = r.pos
      BY <2>3, <3>1 DEF GetToWithSize, InPlace
    <3>4. max \in Nat
      BY CallCounts
    <3>5. x.err = r.err /\ x.pos = r.pos /\ (x.err = "ok" /\ C.whole = Nat => x.v = r.v)
      BY <2>1, <3>1, <3>2, <3>4, SizedForgets
    <3>6. x = [err |-> x.err, v |-> x.v, pos |-> x.pos]
      <4>1. x \in [err : Errors, v : C.values, pos : 0..Len(buf)]
        BY <2>1, <3>2, <3>4, ReadWithSizeTyped
      <4> QED BY <4>1
    <3>7. r.err = "ok" /\ type.k # "array" => x = Done(r.v, r.pos)
      BY <2>1, <3>3, <3>5, <3>6 DEF Done, Sized
    <3> QED BY <3>2, <3>3, <3>7
  <2>4. ASSUME NEW n \in Counts \cup {Default}, Set(n) \/ SetAtomic(n) PROVE Reused
    BY <2>4 DEF Set, SetAtomic, Appended
  <2>5. ASSUME NEW n \in Counts \cup {Default}, Get(n) \/ GetAtomic(n) PROVE Reused
    <3>1. last'.op \in {"get", "get_atomic"}
      BY <2>5 DEF Get, GetAtomic, ViaNew
    <3> QED BY <3>1
  <2>6. ASSUME NEW max \in Counts, GetToWithSizeAtomic(max) PROVE Reused
    <3>1. last'.op = "get_to_with_size_atomic"
      BY <2>6 DEF GetToWithSizeAtomic, ViaNew
    <3> QED BY <3>1
  <2>7. ASSUME SetWithSize \/ Parse PROVE Reused
    <3>1. last'.op \in {"set_with_size", "parse"}
      BY <2>7 DEF SetWithSize, Appended, Parse
    <3> QED BY <3>1
  <2> QED BY <1>1, <2>2, <2>3, <2>4, <2>5, <2>6, <2>7 DEF Next
<1>2. IInv /\ [Next]_vars => [Reused]_vars
  BY <1>1
<1> QED BY Initial, Inductive, <1>2, PTL DEF Spec, OldObjectForgotten

----------------------------------------------------------------------------
(* What was written is read back, or waited for.                           *)

\* As far as s goes, what it has behind p are the bytes of b.
Starts(b, s, p) == \A i \in 1..Len(b) : p + i <= Len(s) => s[p + i] = b[i]

\* Either s has all of b, and v comes back, or more is asked for.
Returned(r, v, b, s, p) ==
    IF Len(b) <= Len(s) - p THEN r = Done(v, p + Len(b)) ELSE r.err = "insufficient_data"

\* What a codec has written and what was appended to it are read back, with every count
\* that fits, wherever they stand in the data and wherever the data is cut.
Returns(c) ==
    \A v \in c.values : \A n \in Nat : \A m \in Nat : \A s \in Seq(Bytes) : \A p \in 0..Len(s) :
        LET w == c.write[v][n]
        IN  m \in c.fits[v][n] /\ w.err = "ok" /\ Starts(w.bytes, s, p)
            => Returned(c.read[c.fresh][s][p][m], c.kept[v][n], w.bytes, s, p)

\* Where two encodings start, the second stands behind the first.
LEMMA StartsJoined ==
  ASSUME NEW a \in Seq(Bytes), NEW b \in Seq(Bytes), NEW s \in Seq(Bytes), NEW p \in 0..Len(s),
         Starts(a \o b, s, p)
  PROVE  /\ Starts(a, s, p)
         /\ Len(a) <= Len(s) - p => p + Len(a) \in 0..Len(s) /\ Starts(b, s, p + Len(a))
<1>1. PICK w : w = a \o b
  OBVIOUS
<1>2. /\ Len(w) = Len(a) + Len(b)
      /\ \A i \in 1..Len(a) : w[i] = a[i]
      /\ \A i \in 1..Len(b) : w[Len(a) + i] = b[i]
  BY <1>1, Joined
<1>3. \A i \in 1..Len(w) : p + i <= Len(s) => s[p + i] = w[i]
  BY <1>1 DEF Starts
<1>4. PICK k \in Nat, l \in Nat : k = Len(a) /\ l = Len(b)
  OBVIOUS
<1>5. ASSUME NEW i \in 1..k, p + i <= Len(s) PROVE s[p + i] = a[i]
  <2>1. i \in 1..Len(w)
    BY <1>2, <1>4
  <2> QED BY <1>2, <1>3, <1>4, <1>5, <2>1
<1>6. ASSUME NEW i \in 1..l, (p + k) + i <= Len(s) PROVE s[(p + k) + i] = b[i]
  <2>1. k + i \in 1..Len(w) /\ p + (k + i) = (p + k) + i
    BY <1>2, <1>4
  <2>2. w[k + i] = b[i]
    BY <1>2, <1>4
  <2>3. PICK j : j = k + i
    OBVIOUS
  <2>4. s[p + j] = w[j]
    BY <1>3, <1>6, <2>1, <2>3
  <2> QED BY <2>1, <2>2, <2>3, <2>4
<1>7. k <= Len(s) - p => p + k \in 0..Len(s)
  OBVIOUS
<1> QED BY <1>4, <1>5, <1>6, <1>7 DEF Starts

\* Compact integers are read back.
LEMMA CompactStarts ==
  ASSUME NEW v \in 0..Default, NEW s \in Seq(Bytes), NEW p \in 0..Len(s),
         NEW w, w = WriteCompact[v], Starts(w, s, p)
  PROVE  /\ w \in Seq(Bytes)
         /\ Returned(ReadCompact(s, p), v, w, s, p)
<1>1. v \in Nat
  BY Numbers
<1>2. w \in Seq(Bytes)
  BY <1>1, Groups
<1>3. CASE Len(w) <= Len(s) - p
  <2>1. \A i \in 1..Len(w) : p + i <= Len(s)
    BY <1>2, <1>3
  <2>2. Stands(w, s, p)
    BY <1>3, <2>1 DEF Stands, Starts
  <2>3. ReadCompact(s, p) = Done(v, p + Len(w))
    BY <2>2, CompactReturns
  <2> QED BY <1>2, <1>3, <2>3 DEF Returned
<1>4. CASE ~(Len(w) <= Len(s) - p)
  <2>1. \A i \in 1..(Len(s) - p) : i \in 1..Len(w) /\ p + i <= Len(s)
    BY <1>2, <1>4
  <2>2. Cut(w, s, p)
    BY <1>2, <1>4, <2>1 DEF Cut, Starts
  <2>3. ReadCompact(s, p).err = "insufficient_data"
    BY <1>1, <2>2, CompactWaits
  <2> QED BY <1>2, <1>4, <2>3 DEF Returned
<1> QED BY <1>3, <1>4

\* A codec has this if its functions do.
LEMMA ReturnsIf ==
  ASSUME NEW t, NEW cs, NEW c, Made(t, cs, c), Typed(c),
         \A v \in c.values : \A n \in Nat : \A m \in Nat :
             \A s \in Seq(Bytes) : \A p \in 0..Len(s) :
                 LET w == Write(t, cs, v, n)
                 IN  m \in Fits(t, cs, v, n) /\ w.err = "ok" /\ Starts(w.bytes, s, p)
                     => Returned(Read(t, cs, c.fresh, s, p, m), Kept(t, cs, v, n), w.bytes, s, p)
  PROVE  Returns(c)
<1> SUFFICES ASSUME NEW v \in c.values, NEW n \in Nat, NEW m \in Nat, NEW s \in Seq(Bytes),
                    NEW p \in 0..Len(s), m \in c.fits[v][n], c.write[v][n].err = "ok",
                    Starts(c.write[v][n].bytes, s, p)
             PROVE  Returned(c.read[c.fresh][s][p][m], c.kept[v][n], c.write[v][n].bytes, s, p)
  BY DEF Returns
<1>1. c.fresh \in c.values /\ p \in Nat
  BY DEF Typed
<1>2. c.write[v][n] = Write(t, cs, v, n)
  BY DEF Made
<1>3. c.fits[v][n] = Fits(t, cs, v, n) /\ c.kept[v][n] = Kept(t, cs, v, n)
  BY DEF Made
<1>4. c.read[c.fresh][s][p][m] = Read(t, cs, c.fresh, s, p, m)
  BY <1>1 DEF Made
<1> QED BY <1>2, <1>3, <1>4

\* A part of a codec that has it.
LEMMA PartReturns ==
  ASSUME NEW c, Returns(c), NEW v \in c.values, NEW n, n \in Nat, NEW m, m \in Nat,
         NEW s \in Seq(Bytes), NEW p, p \in 0..Len(s), m \in c.fits[v][n],
         NEW w, w = c.write[v][n], w.err = "ok", Starts(w.bytes, s, p),
         NEW r, r = c.read[c.fresh][s][p][m]
  PROVE  Returned(r, c.kept[v][n], w.bytes, s, p)
<1>1. Returned(c.read[c.fresh][s][p][m], c.kept[v][n], c.write[v][n].bytes, s, p)
  BY DEF Returns
<1> QED BY <1>1

\* Bytes, bools and the unit type.
LEMMA ScalarReturns ==
  ASSUME NEW t, NEW cs, NEW c, Made(t, cs, c), Typed(c), t.k \in {"byte", "bool", "unit"}
  PROVE  Returns(c)
<1>1. ASSUME NEW v \in c.values, NEW n \in Nat, NEW m \in Nat, NEW s \in Seq(Bytes),
             NEW p \in 0..Len(s), m \in Fits(t, cs, v, n),
             NEW w, w = Write(t, cs, v, n), w.err = "ok", Starts(w.bytes, s, p)
      PROVE  Returned(Read(t, cs, c.fresh, s, p, m), Kept(t, cs, v, n), w.bytes, s, p)
  <2>1. Kept(t, cs, v, n) = v
    BY DEF Kept
  <2>2. CASE t.k = "unit"
    <3>1. w = Wrote(<<>>) /\ Read(t, cs, c.fresh, s, p, m) = Done(c.fresh, p)
      BY <1>1, <2>2 DEF Write, Read
    <3>2. c.fresh = v
      <4>1. Values(t, cs) = {0}
        BY <2>2 DEF Values
      <4>2. c.values = {0}
        BY <4>1, MadeOf
      <4> QED BY <4>2 DEF Typed
    <3>3. w.bytes = <<>> /\ Len(<<>>) = 0
      BY <3>1 DEF Wrote
    <3> QED BY <2>1, <3>1, <3>2, <3>3 DEF Returned
  <2>3. CASE t.k \in {"byte", "bool"}
    <3>1. w = WriteScalar(v, n) /\ m \in {Default, 1}
      BY <1>1, <2>3 DEF Write, Fits
    <3>2. w = Wrote(<<v>>)
      BY <1>1, <3>1 DEF WriteScalar, Refused
    <3>3. w.bytes = <<v>> /\ Len(<<v>>) = 1
      BY <3>2 DEF Wrote
    <3>4. PICK r : r = ReadByte(c.fresh, s, p, m)
      OBVIOUS
    <3>5. Returned(r, v, <<v>>, s, p)
      <4>1. CASE p >= Len(s)
        <5>1. r.err = "insufficient_data"
          BY <3>1, <3>4, <4>1 DEF ReadByte, Failed
        <5> QED BY <3>3, <4>1, <5>1 DEF Returned
      <4>2. CASE ~(p >= Len(s))
        <5>1. r = Done(s[p + 1], p + 1)
          BY <3>1, <3>4, <4>2 DEF ReadByte
        <5>2. p + 1 <= Len(s)
          BY <4>2
        <5>3. s[p + 1] = v
          BY <1>1, <3>3, <5>2 DEF Starts
        <5> QED BY <3>3, <5>1, <5>2, <5>3 DEF Returned
      <4> QED BY <4>1, <4>2
    <3>6. CASE t.k = "byte"
      <4>1. Read(t, cs, c.fresh, s, p, m) = r
        BY <3>4, <3>6 DEF Read
      <4> QED BY <2>1, <3>3, <3>5, <4>1
    <3>7. CASE t.k = "bool"
      <4>1. Read(t, cs, c.fresh, s, p, m) =
                IF r.err = "ok" /\ r.v > 1 THEN Failed("invalid_value", c.fresh, p) ELSE r
        BY <3>4, <3>7 DEF Read, ReadBool
      <4>2. v \in {0, 1}
        <5>1. Values(t, cs) = {0, 1}
          BY <3>7 DEF Values
        <5> QED BY <5>1, MadeOf
      <4>3. ~(r.err = "ok" /\ r.v > 1)
        BY <3>5, <4>2 DEF Returned, Done
      <4> QED BY <2>1, <3>3, <3>5, <4>1, <4>3
    <3> QED BY <2>3, <3>6, <3>7
  <2> QED BY <2>2, <2>3
<1> QED BY <1>1, ReturnsIf

\* Two writes that succeeded.
LEMMA ThenOk ==
  ASSUME NEW a, NEW b, NEW w, w = Then(a, b), w.err = "ok"
  PROVE  a.err = "ok" /\ b.err = "ok" /\ w.bytes = a.bytes \o b.bytes
<1>1. w = IF a.err # "ok" THEN a ELSE [err |-> b.err, bytes |-> a.bytes \o b.bytes]
  BY DEF Then
<1>2. a.err = "ok"
  BY <1>1
<1>3. w = [err |-> b.err, bytes |-> a.bytes \o b.bytes]
  BY <1>1, <1>2
<1>4. w.err = b.err /\ w.bytes = a.bytes \o b.bytes
  BY ONLY <1>3
<1> QED BY <1>2, <1>4

\* After a success all parts were written, one behind the other.
AllWrote(cs, vs, ns, s, p, f) ==
    /\ f[0] = Wrote(<<>>)
    /\ \A k \in 0..Len(cs) : f[k].bytes \in Seq(Bytes) /\ Starts(f[k].bytes, s, p)
    /\ \A k \in 1..Len(cs) :
           LET w == cs[k].write[vs[k]][ns[k]]
               q == p + Len(f[k - 1].bytes)
           IN  /\ w.err = "ok" /\ w.bytes \in Seq(Bytes) /\ f[k].bytes = f[k - 1].bytes \o w.bytes
               /\ Len(f[k].bytes) = Len(f[k - 1].bytes) + Len(w.bytes)
               /\ q <= Len(s) => q \in 0..Len(s) /\ Starts(w.bytes, s, q)

\* A row that was written, part by part.
LEMMA WriteRow ==
  ASSUME NEW cs, NEW vs, NEW ns, Len(cs) \in Nat,
         \A i \in 1..Len(cs) : Typed(cs[i]) /\ vs[i] \in cs[i].values /\ ns[i] \in Nat,
         NEW s \in Seq(Bytes), NEW p \in 0..Len(s), NEW w, w = WriteAll(cs, vs, ns),
         w.err = "ok", Starts(w.bytes, s, p)
  PROVE  \E f : w = f[Len(cs)] /\ AllWrote(cs, vs, ns, s, p, f)
<1>1. PICK N \in Nat : N = Len(cs)
  OBVIOUS
<1>2. PICK f : /\ w = f[N] /\ f[0] = Wrote(<<>>)
               /\ \A k \in 0..N : f[k] \in Written
               /\ \A k \in 1..N : /\ f[k] = Then(f[k - 1], cs[k].write[vs[k]][ns[k]])
                                  /\ cs[k].write[vs[k]][ns[k]] \in Written
  BY <1>1, WriteRounds
<1> DEFINE Q(k) == f[k].err = "ok" /\ Starts(f[k].bytes, s, p)
<1> DEFINE T == {j \in Nat : Q(N - j)}
<1>3. ASSUME NEW k \in 1..N, Q(k)
      PROVE  /\ Q(k - 1)
             /\ LET u == cs[k].write[vs[k]][ns[k]]
                    q == p + Len(f[k - 1].bytes)
                IN  /\ u.err = "ok" /\ u.bytes \in Seq(Bytes)
                    /\ f[k].bytes = f[k - 1].bytes \o u.bytes
                    /\ Len(f[k].bytes) = Len(f[k - 1].bytes) + Len(u.bytes)
                    /\ q <= Len(s) => q \in 0..Len(s) /\ Starts(u.bytes, s, q)
  <2>1. PICK x, y, u : x = f[k - 1] /\ y = f[k] /\ u = cs[k].write[vs[k]][ns[k]]
    OBVIOUS
  <2>2. k - 1 \in 0..N /\ k \in 0..N
    OBVIOUS
  <2>3. x \in Written /\ u \in Written /\ y = Then(x, u)
    BY <1>2, <2>1, <2>2
  <2>4. x.bytes \in Seq(Bytes) /\ u.bytes \in Seq(Bytes)
    BY <2>3 DEF Written
  <2>5. x.err = "ok" /\ u.err = "ok" /\ y.bytes = x.bytes \o u.bytes
    <3>1. y.err = "ok"
      BY <1>3, <2>1
    <3> QED BY <2>3, <3>1, ThenOk
  <2>6. PICK a \in Seq(Bytes), b \in Seq(Bytes) : a = x.bytes /\ b = u.bytes
    BY <2>4
  <2>7. /\ Starts(a, s, p)
        /\ Len(a) <= Len(s) - p => p + Len(a) \in 0..Len(s) /\ Starts(b, s, p + Len(a))
    <3>1. Starts(a \o b, s, p)
      BY <1>3, <2>1, <2>5, <2>6, Zenon
    <3> QED BY <3>1, StartsJoined
  <2>8. Len(a \o b) = Len(a) + Len(b)
    BY Joined
  <2>9. p + Len(a) <= Len(s) => Len(a) <= Len(s) - p
    <3>1. p \in Nat /\ Len(a) \in Nat /\ Len(s) \in Nat
      OBVIOUS
    <3> QED BY <3>1
  <2> HIDE DEF T
  <2> QED BY <2>1, <2>4, <2>5, <2>6, <2>7, <2>8, <2>9, Zenon
<1>4. \A k \in 0..N : Q(k)
  <2> HIDE DEF Q
  <2>1. 0 \in T
    <3>1. Q(N)
      BY <1>2 DEF Q
    <3> QED BY <3>1
  <2>2. ASSUME NEW j \in 0..(N - 1), j \in T PROVE j + 1 \in T
    <3>1. PICK k \in 1..N : k = N - j /\ k - 1 = N - (j + 1)
      OBVIOUS
    <3>2. Q(k)
      BY <2>2, <3>1
    <3>3. Q(k - 1)
      BY <1>3, <3>2
    <3> QED BY <3>1, <3>3
  <2> HIDE DEF T
  <2>3. \A j \in 0..N : j \in T
    BY <2>1, <2>2, Upwards
  <2>4. ASSUME NEW k \in 0..N PROVE Q(k)
    <3>1. N - k \in 0..N /\ N - (N - k) = k
      OBVIOUS
    <3> QED BY <2>3, <3>1 DEF T
  <2> QED BY <2>4
<1>5. \A k \in 0..N : f[k].bytes \in Seq(Bytes) /\ Starts(f[k].bytes, s, p)
  BY <1>2, <1>4 DEF Written
<1>6. \A k \in 1..N : k \in 0..N
  OBVIOUS
<1>7. AllWrote(cs, vs, ns, s, p, f)
  <2> HIDE DEF Q, T
  <2>1. \A k \in 1..N : Q(k)
    BY <1>4, <1>6
  <2> QED BY <1>1, <1>2, <1>3, <1>5, <2>1, Zenon DEF AllWrote
<1> QED BY <1>1, <1>2, <1>7

\* Each part of a row has it.
AllReturn(cs) == \A i \in 1..Len(cs) : Returns(cs[i])

\* A row of new objects, for the values of another that are told back.
FreshRow(cs, ns, us, vs) ==
    \A i \in 1..Len(cs) :
        us[i] = cs[i].fresh /\ vs[i] \in cs[i].values /\ ns[i] \in cs[i].fits[vs[i]][ns[i]]

\* The first k objects of a row.
RowReturned(cs, ns, vs, k, x, b, s, p) ==
    IF Len(b) <= Len(s) - p
    THEN /\ x.err = "ok" /\ x.pos = p + Len(b)
         /\ \A i \in 1..k : x.v[i] = cs[i].kept[vs[i]][ns[i]]
    ELSE x.err = "insufficient_data"

\* Behind the bytes of a, those of v make c.
Added(d, n, v, s, p, a, c) ==
    LET w == d.write[v][n]
    IN  /\ v \in d.values /\ n \in Nat /\ n \in d.fits[v][n]
        /\ a \in Seq(Bytes) /\ c \in Seq(Bytes) /\ w.bytes \in Seq(Bytes)
        /\ w.err = "ok" /\ Len(c) = Len(a) + Len(w.bytes)
        /\ p + Len(a) <= Len(s) => Starts(w.bytes, s, p + Len(a))

\* One part more.
LEMMA RowReturnedStep ==
  ASSUME NEW cs, NEW ns, NEW vs, NEW m \in Nat, NEW s \in Seq(Bytes), NEW p \in 0..Len(s),
         NEW x, NEW y, NEW a, NEW c, Returns(cs[m]), Stepped(cs[m], ns[m], s, m, x, y),
         x.v[m] = cs[m].fresh, Added(cs[m], ns[m], vs[m], s, p, a, c),
         NEW k0 \in Nat, m = k0 + 1, RowReturned(cs, ns, vs, k0, x, a, s, p)
  PROVE  RowReturned(cs, ns, vs, m, y, c, s, p)
<1>11. PICK d, n, v : d = cs[m] /\ n = ns[m] /\ v = vs[m]
  OBVIOUS
<1>12. PICK w : w = d.write[v][n]
  OBVIOUS
<1>13. PICK b : b = w.bytes
  OBVIOUS
<1>14. /\ v \in d.values /\ n \in Nat /\ n \in d.fits[v][n]
       /\ a \in Seq(Bytes) /\ c \in Seq(Bytes) /\ b \in Seq(Bytes)
       /\ w.err = "ok" /\ Len(c) = Len(a) + Len(b)
       /\ p + Len(a) <= Len(s) => Starts(b, s, p + Len(a))
  BY <1>11, <1>12, <1>13 DEF Added
<1>15. Returns(d) /\ Stepped(d, n, s, m, x, y) /\ x.v[m] = d.fresh /\ k0 = m - 1
  BY <1>11
<1>7. PICK k \in Nat : k = Len(a)
  BY <1>14
<1>8. PICK l \in Nat : l = Len(b)
  BY <1>14
<1>9. PICK j \in Nat : j = k + l
  OBVIOUS
<1>1. k = Len(a) /\ l = Len(b) /\ j = Len(c) /\ j = k + l
  BY <1>7, <1>8, <1>9, <1>14
<1>10. k \in Nat /\ l \in Nat /\ j \in Nat
  OBVIOUS
<1>5. PICK N \in Nat : N = Len(s)
  OBVIOUS
<1>6. PICK o \in 0..N : o = p
  BY <1>5
<1>2. N = Len(s) /\ o = p
  BY <1>5, <1>6
<1>3. CASE ~(k <= N - o)
  <2>1. x.err = "insufficient_data"
    BY <1>1, <1>2, <1>3 DEF RowReturned
  <2>2. y = x
    BY <1>15, <2>1 DEF Stepped
  <2>3. ~(j <= N - o)
    BY <1>3, <1>9, <1>10
  <2> QED BY <1>1, <1>2, <2>1, <2>2, <2>3 DEF RowReturned
<1>4. CASE k <= N - o
  <2>1. /\ x.err = "ok" /\ x.pos = o + k
        /\ \A i \in 1..(m - 1) : x.v[i] = cs[i].kept[vs[i]][ns[i]]
    BY <1>1, <1>2, <1>4, <1>15 DEF RowReturned
  <2>2. PICK q \in 0..N : q = x.pos /\ q = o + k
    BY <1>4, <2>1
  <2>3. PICK e : e = d.read[d.fresh][s][q][n]
    OBVIOUS
  <2>4. /\ y.err = e.err /\ y.pos = e.pos /\ y.v[m] = e.v
        /\ \A i \in 1..(m - 1) : y.v[i] = x.v[i]
    BY <1>15, <2>1, <2>2, <2>3, Zenon DEF Stepped
  <2>5. Returned(e, d.kept[v][n], w.bytes, s, q)
    <3>1. Starts(w.bytes, s, q) /\ q \in 0..Len(s)
      BY <1>1, <1>2, <1>13, <1>14, <2>2
    <3> QED BY <1>12, <1>14, <1>15, <2>3, <3>1, PartReturns
  <2>6. l <= N - q <=> j <= N - o
    BY <1>1, <2>2
  <2>7. CASE j <= N - o
    <3>1. e = Done(d.kept[v][n], q + l)
      BY <1>1, <1>2, <1>13, <2>5, <2>6, <2>7 DEF Returned
    <3>2. e.err = "ok" /\ e.v = d.kept[v][n] /\ e.pos = q + l
      BY <3>1 DEF Done
    <3>3. q + l = o + j
      BY <1>9, <1>10, <2>2
    <3>4. ASSUME NEW i \in 1..m PROVE y.v[i] = cs[i].kept[vs[i]][ns[i]]
      <4>1. CASE i = m
        BY <1>11, <2>4, <3>2, <4>1
      <4>2. CASE i # m
        <5>1. i \in 1..(m - 1)
          BY <4>2
        <5> QED BY <2>1, <2>4, <5>1
      <4> QED BY <4>1, <4>2
    <3> QED BY <1>1, <1>2, <2>4, <2>7, <3>2, <3>3, <3>4 DEF RowReturned
  <2>8. CASE ~(j <= N - o)
    <3>1. e.err = "insufficient_data"
      BY <1>1, <1>2, <1>13, <2>5, <2>6, <2>8 DEF Returned
    <3> QED BY <1>1, <1>2, <2>4, <2>8, <3>1 DEF RowReturned
  <2> QED BY <2>7, <2>8
<1> QED BY <1>3, <1>4

\* A row of parts that have it has it.
LEMMA ReadAllReturns ==
  ASSUME NEW cs, NEW ns, NEW V, NEW M, NEW us, NEW vs, InRow(cs, ns, V, M, us),
         AllReturn(cs), FreshRow(cs, ns, us, vs), NEW s \in Seq(Bytes), NEW p \in 0..Len(s),
         NEW w, w = WriteAll(cs, vs, ns), w.err = "ok", Starts(w.bytes, s, p),
         NEW r, r = ReadAll(cs, us, ns, s, p)
  PROVE  /\ w.bytes \in Seq(Bytes)
         /\ RowReturned(cs, ns, vs, Len(cs), r, w.bytes, s, p)
<1>1. /\ Len(cs) \in Nat /\ M \in Nat /\ Len(cs) <= M
      /\ \A i \in 1..Len(cs) :
             /\ Typed(cs[i]) /\ ns[i] \in Nat /\ Returns(cs[i]) /\ us[i] = cs[i].fresh
             /\ vs[i] \in cs[i].values /\ ns[i] \in cs[i].fits[vs[i]][ns[i]]
  BY DEF InRow, AllReturn, FreshRow
<1>2. PICK N \in Nat : N = Len(cs)
  BY <1>1
<1>3. PICK g : r = g[N] /\ Rounds(cs, ns, M, V, us, s, p, g)
  BY <1>2, RowRounds
<1>4. PICK f : w = f[N] /\ AllWrote(cs, vs, ns, s, p, f)
  <2>1. \E f : w = f[Len(cs)] /\ AllWrote(cs, vs, ns, s, p, f)
    BY <1>1, WriteRow
  <2> QED BY <1>2, <2>1
<1> DEFINE T == {k \in Nat : RowReturned(cs, ns, vs, k, g[k], f[k].bytes, s, p)}
<1>5. 0 \in T
  <2>1. g[0] = Done(us, p) /\ f[0] = Wrote(<<>>)
    BY <1>3, <1>4, Zenon DEF Rounds, AllWrote
  <2>2. g[0].err = "ok" /\ g[0].pos = p /\ f[0].bytes = <<>> /\ Len(<<>>) = 0
    BY <2>1 DEF Done, Wrote
  <2>3. p = p + 0 /\ 0 <= Len(s) - p
    OBVIOUS
  <2>4. RowReturned(cs, ns, vs, 0, g[0], f[0].bytes, s, p)
    BY <2>2, <2>3 DEF RowReturned
  <2> QED BY <2>4
<1>6. ASSUME NEW k \in 0..(N - 1), k \in T PROVE k + 1 \in T
  <2>1. PICK m \in 1..N : m = k + 1 /\ m - 1 = k
    OBVIOUS
  <2>2. PICK x, y : x = g[m - 1] /\ y = g[m]
    OBVIOUS
  <2>3. PICK a, c : a = f[m - 1].bytes /\ c = f[m].bytes
    OBVIOUS
  <2>4. k \in 0..Len(cs) /\ m \in 0..Len(cs) /\ m \in 1..Len(cs) /\ m \in (k + 1)..M
    BY <1>1, <1>2, <2>1
  <2>5. Stepped(cs[m], ns[m], s, m, x, y)
    BY <1>3, <2>2, <2>4, RoundStep
  <2>6. x.v[m] = cs[m].fresh
    <3>1. g[k].v[m] = us[m]
      BY <1>3, <2>4, Zenon DEF Rounds
    <3> QED BY <1>1, <2>1, <2>2, <2>4, <3>1
  <2>7. Added(cs[m], ns[m], vs[m], s, p, a, c)
    <3>1. PICK u : u = cs[m].write[vs[m]][ns[m]]
      OBVIOUS
    <3>2. a \in Seq(Bytes) /\ c \in Seq(Bytes)
      BY <1>4, <2>1, <2>3, <2>4 DEF AllWrote
    <3>3. /\ u.err = "ok" /\ u.bytes \in Seq(Bytes) /\ Len(c) = Len(a) + Len(u.bytes)
          /\ p + Len(a) <= Len(s) => Starts(u.bytes, s, p + Len(a))
      BY <1>4, <2>3, <2>4, <3>1 DEF AllWrote
    <3>4. vs[m] \in cs[m].values /\ ns[m] \in Nat /\ ns[m] \in cs[m].fits[vs[m]][ns[m]]
      BY <1>1, <2>4
    <3> QED BY <3>1, <3>2, <3>3, <3>4 DEF Added
  <2>8. RowReturned(cs, ns, vs, k, x, a, s, p)
    BY <1>6, <2>1, <2>2, <2>3
  <2>9. RowReturned(cs, ns, vs, m, y, c, s, p)
    <3>1. m \in Nat /\ k \in Nat /\ m = k + 1 /\ Returns(cs[m])
      BY <1>1, <2>1, <2>4
    <3> QED BY <2>5, <2>6, <2>7, <2>8, <3>1, RowReturnedStep
  <2> QED BY <2>1, <2>2, <2>3, <2>9
<1> HIDE DEF T
<1>7. N \in T
  <2>1. \A k \in 0..N : k \in T
    BY <1>5, <1>6, Upwards
  <2> QED BY <2>1
<1>8. RowReturned(cs, ns, vs, N, g[N], f[N].bytes, s, p)
  BY <1>7 DEF T
<1>9. f[N].bytes \in Seq(Bytes)
  <2>1. N \in 0..Len(cs)
    BY <1>2
  <2> QED BY <1>4, <2>1 DEF AllWrote
<1> QED BY <1>2, <1>3, <1>4, <1>8, <1>9

\* Tuples and structs.
LEMMA RowReturns ==
  ASSUME NEW t, NEW cs, NEW c, Made(t, cs, c), Typed(c), t.k \in {"tuple", "struct"},
         \A i \in 1..Len(cs) : Typed(cs[i]) /\ Returns(cs[i])
  PROVE  Returns(c)
<1>1. PICK N \in Nat : N = Len(cs)
  BY DEF Made
<1>2. PICK V : V = UNION {cs[i].values : i \in 1..N}
  OBVIOUS
<1>3. \A i \in 1..N : cs[i].values \subseteq V
  BY <1>2
<1>4. PICK ns : ns = PartCounts(t, cs)
  OBVIOUS
<1>5. /\ \A i \in 1..N : ns[i] \in Nat
      /\ \A v, n : Write(t, cs, v, n) = WriteAll(cs, v, ns)
      /\ \A v, s, p, n : Read(t, cs, v, s, p, n) = ReadAll(cs, v, ns, s, p)
      /\ c.values = Members(cs) /\ c.fresh = [i \in 1..N |-> cs[i].fresh]
  BY <1>1, <1>4, RowIs, MadeOf
<1>6. c.values = {v \in [1..N -> V] : \A i \in 1..N : v[i] \in cs[i].values}
  <2>1. Members(cs) = {v \in [1..N -> V] : \A i \in 1..N : v[i] \in cs[i].values}
    BY <1>1, <1>3, MembersAre
  <2>2. c.values = Members(cs)
    BY <1>5
  <2> QED BY <2>1, <2>2
<1>7. PICK us : us = c.fresh
  OBVIOUS
<1>8. InRow(cs, ns, V, N, us) /\ AllReturn(cs)
  <2>1. us \in c.values
    BY <1>7 DEF Typed
  <2>2. us \in [1..N -> V] /\ Len(cs) \in Nat /\ Len(cs) <= N
    BY <1>1, <1>6, <2>1
  <2>3. \A i \in 1..Len(cs) :
            Typed(cs[i]) /\ us[i] \in cs[i].values /\ cs[i].values \subseteq V /\ ns[i] \in Nat
    BY <1>1, <1>3, <1>5, <1>6, <2>1
  <2> QED BY <2>2, <2>3 DEF InRow, AllReturn
<1>9. ASSUME NEW v \in c.values, NEW n \in Nat, NEW m \in Nat, NEW s \in Seq(Bytes),
             NEW p \in 0..Len(s), m \in Fits(t, cs, v, n),
             NEW w, w = Write(t, cs, v, n), w.err = "ok", Starts(w.bytes, s, p)
      PROVE  Returned(Read(t, cs, c.fresh, s, p, m), Kept(t, cs, v, n), w.bytes, s, p)
  <2>1. \A i \in 1..N : ns[i] \in cs[i].fits[v[i]][ns[i]]
    <3>1. Fits(t, cs, v, n) =
              {l \in Nat : LET os == PartCounts(t, cs)
                           IN  \A i \in 1..Len(cs) : os[i] \in cs[i].fits[v[i]][os[i]]}
      BY DEF Fits
    <3> QED BY <1>1, <1>4, <1>9, <3>1
  <2>2. FreshRow(cs, ns, us, v)
    BY <1>1, <1>5, <1>6, <1>7, <2>1 DEF FreshRow
  <2>3. PICK r : r = ReadAll(cs, us, ns, s, p)
    OBVIOUS
  <2>4. w = WriteAll(cs, v, ns) /\ Read(t, cs, c.fresh, s, p, m) = r
    BY <1>5, <1>7, <1>9, <2>3
  <2>5. RowReturned(cs, ns, v, Len(cs), r, w.bytes, s, p)
    BY <1>8, <1>9, <2>2, <2>3, <2>4, ReadAllReturns
  <2>6. r \in [err : Errors, v : [1..N -> V], pos : p..Len(s)]
    BY <1>8, <2>3, RowKept
  <2>7. Kept(t, cs, v, n) = [i \in 1..N |-> cs[i].kept[v[i]][ns[i]]]
    BY <1>1, <1>4 DEF Kept
  <2>8. CASE Len(w.bytes) <= Len(s) - p
    <3>1. /\ r.err = "ok" /\ r.pos = p + Len(w.bytes)
          /\ \A i \in 1..N : r.v[i] = cs[i].kept[v[i]][ns[i]]
      BY <1>1, <2>5, <2>8 DEF RowReturned
    <3>2. r.v \in [1..N -> V] /\ r = [err |-> r.err, v |-> r.v, pos |-> r.pos]
      BY <2>6
    <3>3. r.v = Kept(t, cs, v, n)
      BY <2>7, <3>1, <3>2
    <3>4. r = Done(Kept(t, cs, v, n), p + Len(w.bytes))
      BY <3>1, <3>2, <3>3 DEF Done
    <3> QED BY <2>4, <2>8, <3>4 DEF Returned
  <2>9. CASE ~(Len(w.bytes) <= Len(s) - p)
    BY <2>4, <2>5, <2>9 DEF RowReturned, Returned
  <2> QED BY <2>8, <2>9
<1> QED BY <1>9, ReturnsIf

\* Byte for byte.
Single(c) ==
    \A v \in c.values : \A n \in Nat : c.write[v][n].err = "ok" => Len(c.write[v][n].bytes) = 1

\* A byte is encoded in one.
LEMMA ByteSingle ==
  ASSUME NEW t, NEW cs, NEW c, Made(t, cs, c), t.k = "byte"
  PROVE  Single(c)
<1> SUFFICES ASSUME NEW v \in c.values, NEW n \in Nat, c.write[v][n].err = "ok"
             PROVE  Len(c.write[v][n].bytes) = 1
  BY DEF Single
<1>1. PICK w : w = c.write[v][n]
  OBVIOUS
<1>2. w = Write(t, cs, v, n)
  BY <1>1 DEF Made
<1>3. w = IF n \in {Default, 1} THEN Wrote(<<v>>) ELSE Refused("invalid_size")
  BY <1>2 DEF Write, WriteScalar
<1>4. w.bytes = <<v>>
  BY <1>1, <1>3 DEF Wrote, Refused
<1> QED BY <1>1, <1>4

\* So that a row of bytes has the length that is asked for before they are read.
LEMMA SingleRow ==
  ASSUME NEW cs, NEW vs, NEW ns, Len(cs) \in Nat,
         \A i \in 1..Len(cs) :
             Typed(cs[i]) /\ vs[i] \in cs[i].values /\ ns[i] \in Nat /\ Single(cs[i]),
         NEW s \in Seq(Bytes), NEW p \in 0..Len(s), NEW w, w = WriteAll(cs, vs, ns),
         w.err = "ok", Starts(w.bytes, s, p)
  PROVE  Len(w.bytes) = Len(cs)
<1>1. PICK N \in Nat : N = Len(cs)
  OBVIOUS
<1>2. PICK f : w = f[N] /\ AllWrote(cs, vs, ns, s, p, f)
  <2>1. \E f : w = f[Len(cs)] /\ AllWrote(cs, vs, ns, s, p, f)
    BY WriteRow
  <2> QED BY <1>1, <2>1
<1> DEFINE T == {k \in Nat : Len(f[k].bytes) = k}
<1>3. 0 \in T
  <2>1. f[0] = Wrote(<<>>)
    BY <1>2 DEF AllWrote
  <2>2. f[0].bytes = <<>>
    BY <2>1 DEF Wrote
  <2> QED BY <2>2
<1>4. ASSUME NEW k \in 0..(N - 1), k \in T PROVE k + 1 \in T
  <2>1. PICK m \in 1..N : m = k + 1 /\ m - 1 = k
    OBVIOUS
  <2>2. PICK u : u = cs[m].write[vs[m]][ns[m]]
    OBVIOUS
  <2>3. u.err = "ok" /\ Len(f[m].bytes) = Len(f[k].bytes) + Len(u.bytes)
    BY <1>1, <1>2, <2>1, <2>2 DEF AllWrote
  <2>4. Len(u.bytes) = 1
    <3>1. m \in 1..Len(cs)
      BY <1>1
    <3> QED BY <2>2, <2>3, <3>1 DEF Single
  <2> QED BY <1>4, <2>1, <2>3, <2>4
<1> HIDE DEF T
<1>5. N \in T
  <2>1. \A k \in 0..N : k \in T
    BY <1>3, <1>4, Upwards, Zenon
  <2> QED BY <2>1
<1> QED BY <1>1, <1>2, <1>5 DEF T

\* Parts that are not read are left alone.
LEMMA RowLeft ==
  ASSUME NEW cs, NEW ns, NEW V, NEW M, NEW vs, InRow(cs, ns, V, M, vs),
         NEW s \in Seq(Bytes), NEW p \in 0..Len(s), NEW r, r = ReadAll(cs, vs, ns, s, p)
  PROVE  \A i \in (Len(cs) + 1)..M : r.v[i] = vs[i]
<1>1. PICK g : r = g[Len(cs)] /\ Rounds(cs, ns, M, V, vs, s, p, g)
  BY RowRounds
<1>2. Len(cs) \in 0..Len(cs)
  BY DEF InRow
<1> QED BY <1>1, <1>2, Zenon DEF Rounds

\* Told without a count.
Plain(c) == c.plain = {v \in c.values : Default \in c.fits[v][Default]}

\* Arrays.
LEMMA ArrayReturns ==
  ASSUME NEW t, NEW cs, NEW c, Made(t, cs, c), Typed(c), t.k = "array", Typed(cs[1]),
         Returns(cs[1]), t.of[1].k = "byte" => Single(cs[1]),
         Plain(cs[1])
  PROVE  Returns(c)
<1>1. /\ t.extent \in Nat /\ Fresh(t, cs) = [i \in 1..t.extent |-> cs[1].fresh]
      /\ c.values = [1..t.extent -> cs[1].values] /\ c.fresh = Fresh(t, cs)
      /\ \A n \in Nat : ArrayCount(t, n) \in Nat
      /\ \A v, n : Write(t, cs, v, n) = WriteArray(t, cs, v, n)
      /\ \A v, s, p, n : Read(t, cs, v, s, p, n) = ReadArray(t, cs, v, s, p, n)
  BY ArrayIs, MadeOf
<1>2. PICK M \in Nat : M = t.extent
  BY <1>1
<1>3. PICK d, V : d = cs[1] /\ V = d.values
  OBVIOUS
<1>4. /\ c.values = [1..M -> V] /\ c.fresh = [i \in 1..M |-> d.fresh] /\ d.fresh \in V
      /\ Typed(d) /\ Returns(d) /\ Default \in Nat
  BY <1>1, <1>2, <1>3, Numbers DEF Typed
<1>5. PICK us : us = c.fresh
  OBVIOUS
<1>6. ASSUME NEW v \in c.values, NEW n \in Nat, NEW m \in Nat, NEW s \in Seq(Bytes),
             NEW p \in 0..Len(s), m \in Fits(t, cs, v, n),
             NEW w, w = Write(t, cs, v, n), w.err = "ok", Starts(w.bytes, s, p)
      PROVE  Returned(Read(t, cs, c.fresh, s, p, m), Kept(t, cs, v, n), w.bytes, s, p)
  <2>1. PICK count \in Nat : count = ArrayCount(t, n)
    BY <1>1
  <2>2. ArrayCount(t, m) = count /\ \A i \in 1..count : v[i] \in d.plain
    <3>1. Fits(t, cs, v, n) = {l \in Nat : /\ ArrayCount(t, l) = ArrayCount(t, n)
                                           /\ \A i \in 1..ArrayCount(t, n) : v[i] \in cs[1].plain}
      BY DEF Fits
    <3> QED BY <1>3, <1>6, <2>1, <3>1
  <2>3. PICK ds, ns : ds = Same(d, count) /\ ns = Same(Default, count)
    OBVIOUS
  <2>4. Len(ds) = count /\ \A i \in 1..count : ds[i] = d /\ ns[i] = Default
    BY <2>3, SameIs
  <2>5. count <= M /\ w = WriteAll(ds, v, ns)
    <3>1. w = IF count > M THEN Refused("count_out_of_range") ELSE WriteAll(ds, v, ns)
      BY <1>1, <1>2, <1>3, <1>6, <2>1, <2>3 DEF WriteArray
    <3> QED BY <1>6, <3>1 DEF Refused
  <2>6. PICK r : r = ReadAll(ds, us, ns, s, p)
    OBVIOUS
  <2>7. PICK z : z = Read(t, cs, c.fresh, s, p, m)
    OBVIOUS
  <2>8. z = IF t.of[1].k = "byte" /\ count > Len(s) - p
            THEN Failed("insufficient_data", us, p) ELSE r
    <3>1. z = ReadArray(t, cs, us, s, p, m)
      BY <1>1, <1>5, <2>7
    <3>2. z = IF count > M THEN Failed("count_out_of_range", us, p)
              ELSE IF t.of[1].k = "byte" /\ count > Len(s) - p
              THEN Failed("insufficient_data", us, p) ELSE r
      BY <1>2, <1>3, <2>2, <2>3, <2>6, <3>1 DEF ReadArray
    <3>3. ~(count > M)
      BY <2>5
    <3> QED BY <3>2, <3>3
  <2>9. us \in [1..M -> V] /\ \A i \in 1..M : us[i] = d.fresh
    BY <1>4, <1>5
  <2>10. InRow(ds, ns, V, M, us) /\ AllReturn(ds)
    <3>1. Len(ds) \in Nat /\ Len(ds) <= M
      BY <2>4, <2>5
    <3>2. \A i \in 1..Len(ds) :
              Typed(ds[i]) /\ us[i] \in ds[i].values /\ ds[i].values \subseteq V /\ ns[i] \in Nat
      BY <1>3, <1>4, <2>4, <2>5, <2>9
    <3> QED BY <1>4, <2>4, <2>9, <3>1, <3>2 DEF InRow, AllReturn
  <2>11. FreshRow(ds, ns, us, v)
    <3>1. ASSUME NEW i \in 1..count
          PROVE  us[i] = d.fresh /\ v[i] \in d.values /\ Default \in d.fits[v[i]][Default]
      <4>1. i \in 1..M
        BY <2>5
      <4> QED BY <1>3, <2>2, <2>9, <4>1 DEF Plain
    <3> QED BY <2>4, <3>1 DEF FreshRow
  <2>12. w.bytes \in Seq(Bytes) /\ RowReturned(ds, ns, v, Len(ds), r, w.bytes, s, p)
    BY <1>6, <2>5, <2>6, <2>10, <2>11, ReadAllReturns
  <2>13. r \in [err : Errors, v : [1..M -> V], pos : p..Len(s)]
    BY <2>6, <2>10, RowKept
  <2>14. CASE t.of[1].k = "byte" /\ count > Len(s) - p
    <3>1. z.err = "insufficient_data"
      BY <2>8, <2>14 DEF Failed
    <3>2. Len(w.bytes) = count
      <4>1. \A i \in 1..Len(ds) :
                Typed(ds[i]) /\ v[i] \in ds[i].values /\ ns[i] \in Nat /\ Single(ds[i])
        BY <1>3, <1>4, <2>2, <2>4, <2>14 DEF Plain
      <4>2. Len(ds) \in Nat
        BY <2>4
      <4>3. Len(w.bytes) = Len(ds)
        BY <1>6, <2>5, <4>1, <4>2, SingleRow
      <4> QED BY <2>4, <4>3
    <3>3. ~(Len(w.bytes) <= Len(s) - p)
      BY <2>14, <3>2
    <3> QED BY <2>7, <3>1, <3>3 DEF Returned
  <2>15. CASE ~(t.of[1].k = "byte" /\ count > Len(s) - p) /\ Len(w.bytes) <= Len(s) - p
    <3>1. /\ r.err = "ok" /\ r.pos = p + Len(w.bytes)
          /\ \A i \in 1..count : r.v[i] = d.kept[v[i]][Default]
      BY <2>4, <2>12, <2>15 DEF RowReturned
    <3>2. r.v \in [1..M -> V] /\ r = [err |-> r.err, v |-> r.v, pos |-> r.pos]
      BY <2>13
    <3>3. \A i \in (count + 1)..M : r.v[i] = us[i]
      BY <2>4, <2>6, <2>10, RowLeft
    <3>4. Kept(t, cs, v, n) =
              [i \in 1..M |-> IF i <= count THEN d.kept[v[i]][Default] ELSE d.fresh]
      BY <1>2, <1>3, <2>1 DEF Kept
    <3>5. ASSUME NEW i \in 1..M
          PROVE  r.v[i] = IF i <= count THEN d.kept[v[i]][Default] ELSE d.fresh
      <4>1. CASE i <= count
        BY <3>1, <4>1
      <4>2. CASE ~(i <= count)
        <5>1. i \in (count + 1)..M
          BY <4>2
        <5> QED BY <2>9, <3>3, <4>2, <5>1
      <4> QED BY <4>1, <4>2
    <3>6. r.v = Kept(t, cs, v, n)
      BY <3>2, <3>4, <3>5
    <3>7. r = Done(Kept(t, cs, v, n), p + Len(w.bytes))
      BY <3>1, <3>2, <3>6 DEF Done
    <3>8. z = r
      BY <2>8, <2>15
    <3> QED BY <2>7, <2>15, <3>7, <3>8 DEF Returned
  <2>16. CASE ~(t.of[1].k = "byte" /\ count > Len(s) - p) /\ ~(Len(w.bytes) <= Len(s) - p)
    <3>1. z = r
      BY <2>8, <2>16
    <3> QED BY <2>7, <2>12, <2>16, <3>1 DEF RowReturned, Returned
  <2> QED BY <2>14, <2>15, <2>16
<1> QED BY <1>6, ReturnsIf

\* One element more.
LEMMA PushReturnedStep ==
  ASSUME NEW d, Typed(d), Returns(d), NEW cs, NEW ns, NEW vs, NEW m \in Nat, m <= MaxCount,
         cs[m] = d, ns[m] = Default, NEW s \in Seq(Bytes), NEW p \in 0..Len(s),
         NEW x, NEW y, y = PushStep(d, s, x), NEW a, NEW c,
         NEW k0 \in Nat, m = k0 + 1, x.pos \in p..Len(s),
         x.err = "ok" => x.v \in Seq(d.values) /\ Len(x.v) = k0,
         Added(d, Default, vs[m], s, p, a, c), RowReturned(cs, ns, vs, k0, x, a, s, p)
  PROVE  RowReturned(cs, ns, vs, m, y, c, s, p)
<1>1. PICK v : v = vs[m]
  OBVIOUS
<1>2. PICK w : w = d.write[v][Default]
  OBVIOUS
<1>3. PICK b : b = w.bytes
  OBVIOUS
<1>4. /\ v \in d.values /\ Default \in Nat /\ Default \in d.fits[v][Default]
      /\ a \in Seq(Bytes) /\ c \in Seq(Bytes) /\ b \in Seq(Bytes)
      /\ w.err = "ok" /\ Len(c) = Len(a) + Len(b)
      /\ p + Len(a) <= Len(s) => Starts(b, s, p + Len(a))
  BY <1>1, <1>2, <1>3 DEF Added
<1>5. PICK k \in Nat : k = Len(a)
  BY <1>4
<1>6. PICK l \in Nat : l = Len(b)
  BY <1>4
<1>7. PICK j \in Nat : j = k + l
  OBVIOUS
<1>8. j = Len(c)
  BY <1>4, <1>5, <1>6, <1>7
<1>9. PICK N \in Nat : N = Len(s)
  OBVIOUS
<1>10. PICK o \in 0..N : o = p
  BY <1>9
<1>11. PICK q, e : q = x.pos /\ e = d.read[d.fresh][s][q][Default]
  OBVIOUS
<1>12. y = IF x.err # "ok" THEN x
           ELSE IF e.err # "ok" THEN [e EXCEPT !.v = x.v]
           ELSE IF Len(x.v) = MaxCount THEN Failed("bad_alloc", x.v, e.pos)
           ELSE Done(Append(x.v, e.v), e.pos)
  BY <1>11 DEF PushStep
<1>13. CASE ~(k <= N - o)
  <2>1. x.err = "insufficient_data"
    BY <1>5, <1>9, <1>10, <1>13 DEF RowReturned
  <2>2. y = x
    BY <1>12, <2>1
  <2>3. ~(j <= N - o)
    BY <1>7, <1>13
  <2> QED BY <1>8, <1>9, <1>10, <2>1, <2>2, <2>3 DEF RowReturned
<1>14. CASE k <= N - o
  <2>1. /\ x.err = "ok" /\ q = o + k
        /\ \A i \in 1..k0 : x.v[i] = cs[i].kept[vs[i]][ns[i]]
    BY <1>5, <1>9, <1>10, <1>11, <1>14 DEF RowReturned
  <2>2. q \in 0..N /\ q \in Nat
    BY <1>14, <2>1
  <2>3. Returned(e, d.kept[v][Default], w.bytes, s, q)
    <3>1. Starts(w.bytes, s, q) /\ q \in 0..Len(s)
      BY <1>3, <1>4, <1>5, <1>9, <1>10, <2>1, <2>2
    <3> QED BY <1>2, <1>4, <1>11, <3>1, PartReturns
  <2>4. l <= N - q <=> j <= N - o
    BY <1>7, <2>1
  <2>5. e = [err |-> e.err, v |-> e.v, pos |-> e.pos] /\ e.v \in d.values
    <3>1. q \in 0..Len(s) /\ e = d.read[d.fresh][s][q][Default]
      BY <1>9, <1>11, <2>2
    <3>2. e \in [err : Errors, v : d.values, pos : q..Len(s)]
      BY <1>4, <3>1 DEF Typed
    <3> QED BY <3>2
  <2>6. CASE j <= N - o
    <3>1. e = Done(d.kept[v][Default], q + l)
      BY <1>3, <1>6, <1>9, <2>3, <2>4, <2>6 DEF Returned
    <3>2. e.err = "ok" /\ e.v = d.kept[v][Default] /\ e.pos = q + l
      BY <3>1 DEF Done
    <3>3. q + l = o + j
      BY <1>7, <2>1
    <3>4. x.v \in Seq(d.values) /\ Len(x.v) = k0 /\ Len(x.v) # MaxCount
      BY <2>1, Numbers
    <3>5. y = Done(Append(x.v, e.v), e.pos)
      BY <1>12, <2>1, <3>2, <3>4
    <3>6. PICK u \in Seq(d.values), ev \in d.values : u = x.v /\ ev = e.v
      BY <2>5, <3>4
    <3>7. Append(u, ev)[m] = ev /\ \A i \in 1..k0 : Append(u, ev)[i] = u[i]
      BY <3>4, <3>6
    <3>8. y.err = "ok" /\ y.pos = o + j /\ y.v = Append(u, ev)
      BY <3>2, <3>3, <3>5, <3>6 DEF Done
    <3>9. ASSUME NEW i \in 1..m PROVE y.v[i] = cs[i].kept[vs[i]][ns[i]]
      <4>1. CASE i = m
        BY <1>1, <3>2, <3>6, <3>7, <3>8, <4>1
      <4>2. CASE i # m
        <5>1. i \in 1..k0
          BY <4>2
        <5> QED BY <2>1, <3>6, <3>7, <3>8, <5>1
      <4> QED BY <4>1, <4>2
    <3> QED BY <1>8, <1>9, <1>10, <2>6, <3>8, <3>9 DEF RowReturned
  <2>7. CASE ~(j <= N - o)
    <3>1. e.err = "insufficient_data"
      BY <1>3, <1>6, <1>9, <2>3, <2>4, <2>7 DEF Returned
    <3>2. y = [err |-> e.err, v |-> x.v, pos |-> e.pos]
      <4>1. y = [e EXCEPT !.v = x.v]
        BY <1>12, <2>1, <3>1
      <4> QED BY <2>5, <4>1
    <3>3. y.err = "insufficient_data"
      BY <3>1, <3>2
    <3> QED BY <1>8, <1>9, <1>10, <2>7, <3>3 DEF RowReturned
  <2> QED BY <2>6, <2>7
<1> QED BY <1>13, <1>14

\* Elements that have it, pushed back, have it together.
LEMMA PushReturns ==
  ASSUME NEW d, Typed(d), Returns(d), NEW m \in Nat, m <= MaxCount, NEW vs,
         \A i \in 1..m : vs[i] \in d.values /\ Default \in d.fits[vs[i]][Default],
         NEW s \in Seq(Bytes), NEW p \in 0..Len(s),
         NEW w, w = WriteAll(Same(d, m), vs, Same(Default, m)), w.err = "ok",
         Starts(w.bytes, s, p), NEW r, r = PushBack(d, s, p, m)
  PROVE  Returned(r, [i \in 1..m |-> d.kept[vs[i]][Default]], w.bytes, s, p)
<1>1. PICK cs, ns : cs = Same(d, m) /\ ns = Same(Default, m)
  OBVIOUS
<1>2. Len(cs) = m /\ \A i \in 1..m : cs[i] = d /\ ns[i] = Default
  BY <1>1, SameIs
<1>3. PICK g : r = g[m] /\ Pushes(d, s, p, m, g)
  BY PushRounds
<1>4. PICK f : w = f[m] /\ AllWrote(cs, vs, ns, s, p, f)
  <2>1. Len(cs) \in Nat
    BY <1>2
  <2>2. \A i \in 1..Len(cs) : Typed(cs[i]) /\ vs[i] \in cs[i].values /\ ns[i] \in Nat
    BY <1>2, Numbers
  <2>3. w = WriteAll(cs, vs, ns)
    BY <1>1
  <2>4. \E f : w = f[Len(cs)] /\ AllWrote(cs, vs, ns, s, p, f)
    BY <2>1, <2>2, <2>3, WriteRow
  <2> QED BY <1>2, <2>4
<1>5. \A k \in 0..m : /\ g[k].pos \in p..Len(s)
                      /\ g[k].err = "ok" => g[k].v \in Seq(d.values) /\ Len(g[k].v) = k
  <2>1. ASSUME NEW k \in 0..m
        PROVE  /\ g[k].pos \in p..Len(s)
               /\ g[k].err = "ok" => g[k].v \in Seq(d.values) /\ Len(g[k].v) = k
    <3>1. /\ g[k] \in [err : Errors, v : Seq(d.values), pos : p..Len(s)]
          /\ g[k].err = "ok" => Len(g[k].v) = k
      BY <1>3 DEF Pushes
    <3> QED BY <3>1
  <2> QED BY <2>1
<1> DEFINE T == {k \in Nat : RowReturned(cs, ns, vs, k, g[k], f[k].bytes, s, p)}
<1>6. 0 \in T
  <2>1. g[0] = Done(<<>>, p) /\ f[0] = Wrote(<<>>)
    BY <1>3, <1>4 DEF Pushes, AllWrote
  <2>2. g[0].err = "ok" /\ g[0].pos = p /\ f[0].bytes = <<>> /\ Len(<<>>) = 0
    BY <2>1 DEF Done, Wrote
  <2>3. p = p + 0 /\ 0 <= Len(s) - p
    OBVIOUS
  <2>4. RowReturned(cs, ns, vs, 0, g[0], f[0].bytes, s, p)
    BY <2>2, <2>3 DEF RowReturned
  <2> QED BY <2>4
<1>7. ASSUME NEW k \in 0..(m - 1), k \in T PROVE k + 1 \in T
  <2>1. PICK l \in 1..m : l = k + 1 /\ l - 1 = k
    OBVIOUS
  <2>2. PICK x, y : x = g[l - 1] /\ y = g[l]
    OBVIOUS
  <2>3. PICK a, c : a = f[l - 1].bytes /\ c = f[l].bytes
    OBVIOUS
  <2>4. k \in 0..Len(cs) /\ l \in 0..Len(cs) /\ l \in 1..Len(cs) /\ k \in 0..m
    BY <1>2, <2>1
  <2>5. y = PushStep(d, s, x)
    BY <1>3, <2>2 DEF Pushes
  <2>6. x.pos \in p..Len(s) /\ (x.err = "ok" => x.v \in Seq(d.values) /\ Len(x.v) = k)
    BY <1>5, <2>1, <2>2, <2>4
  <2>7. Added(d, Default, vs[l], s, p, a, c)
    <3>1. PICK u : u = cs[l].write[vs[l]][ns[l]]
      OBVIOUS
    <3>2. a \in Seq(Bytes) /\ c \in Seq(Bytes)
      BY <1>4, <2>1, <2>3, <2>4 DEF AllWrote
    <3>3. /\ u.err = "ok" /\ u.bytes \in Seq(Bytes) /\ Len(c) = Len(a) + Len(u.bytes)
          /\ p + Len(a) <= Len(s) => Starts(u.bytes, s, p + Len(a))
      BY <1>4, <2>3, <2>4, <3>1 DEF AllWrote
    <3>4. u = d.write[vs[l]][Default]
      BY <1>2, <3>1
    <3>5. vs[l] \in d.values /\ Default \in Nat /\ Default \in d.fits[vs[l]][Default]
      BY Numbers
    <3> QED BY <3>2, <3>3, <3>4, <3>5 DEF Added
  <2>8. RowReturned(cs, ns, vs, k, x, a, s, p)
    BY <1>7, <2>1, <2>2, <2>3
  <2>9. RowReturned(cs, ns, vs, l, y, c, s, p)
    <3>1. l \in Nat /\ k \in Nat /\ l = k + 1 /\ l <= MaxCount /\ cs[l] = d /\ ns[l] = Default
      BY <1>2, <2>1, Numbers
    <3> QED BY <2>5, <2>6, <2>7, <2>8, <3>1, PushReturnedStep
  <2> QED BY <2>1, <2>2, <2>3, <2>9
<1> HIDE DEF T
<1>8. m \in T
  <2>1. \A k \in 0..m : k \in T
    BY <1>6, <1>7, Upwards
  <2> QED BY <2>1
<1>9. RowReturned(cs, ns, vs, m, r, w.bytes, s, p)
  BY <1>3, <1>4, <1>8 DEF T
<1>10. CASE Len(w.bytes) <= Len(s) - p
  <2>1. /\ r.err = "ok" /\ r.pos = p + Len(w.bytes)
        /\ \A i \in 1..m : r.v[i] = d.kept[vs[i]][Default]
    BY <1>2, <1>9, <1>10 DEF RowReturned
  <2>2. PICK z : z = [i \in 1..m |-> d.kept[vs[i]][Default]]
    OBVIOUS
  <2>3. r = [err |-> r.err, v |-> r.v, pos |-> r.pos] /\ r.v \in Seq(d.values) /\ Len(r.v) = m
    <3>1. m \in 0..m
      OBVIOUS
    <3>2. r \in [err : Errors, v : Seq(d.values), pos : p..Len(s)]
      BY <1>3, <3>1 DEF Pushes
    <3>3. r = [err |-> r.err, v |-> r.v, pos |-> r.pos]
      BY <3>2
    <3> QED BY <1>3, <1>5, <2>1, <3>1, <3>3
  <2>4. r.v = z
    <3>1. r.v \in [1..m -> d.values]
      BY <2>3
    <3> QED BY <2>1, <2>2, <3>1
  <2>5. r = Done(z, p + Len(w.bytes))
    BY <2>1, <2>3, <2>4 DEF Done
  <2> QED BY <1>10, <2>2, <2>5 DEF Returned
<1>11. CASE ~(Len(w.bytes) <= Len(s) - p)
  BY <1>9, <1>11 DEF RowReturned, Returned
<1> QED BY <1>10, <1>11

\* So do the scalars of a contiguous container.
LEMMA BlockReturns ==
  ASSUME NEW t, t.width \in Nat \ {0}, NEW v \in Seq([1..t.width -> Bytes]), NEW m \in 0..Len(v),
         NEW s \in Seq(Bytes), NEW p \in 0..Len(s),
         NEW b, b = WriteBlock(t, v, m).bytes, Starts(b, s, p)
  PROVE  /\ Len(b) = m * t.width
         /\ Len(b) <= Len(s) - p => Chunks(t, s, p, m) = SubSeq(v, 1, m)
<1>1. PICK w \in Nat \ {0} : w = t.width
  OBVIOUS
<1>2. PICK a : a = WriteBlock(t, v, m)
  OBVIOUS
<1>3. /\ Len(a.bytes) = m * t.width /\ m * t.width \in Nat
      /\ \A j \in 1..(m * t.width) :
             a.bytes[j] = v[((j - 1) \div t.width) + 1][((j - 1) % t.width) + 1]
  BY <1>2, BlockBytes
<1>4. /\ b = a.bytes /\ Len(b) = m * w /\ m * w \in Nat /\ m \in Nat
      /\ \A j \in 1..(m * w) : b[j] = v[((j - 1) \div w) + 1][((j - 1) % w) + 1]
  <2>1. b = a.bytes
    BY <1>2
  <2>2. /\ Len(a.bytes) = m * w /\ m * w \in Nat
        /\ \A j \in 1..(m * w) : a.bytes[j] = v[((j - 1) \div w) + 1][((j - 1) % w) + 1]
    BY ONLY <1>1, <1>3
  <2>3. m \in Nat
    OBVIOUS
  <2>4. Len(b) = m * w
    BY ONLY <2>1, <2>2
  <2>5. \A j \in 1..(m * w) : b[j] = v[((j - 1) \div w) + 1][((j - 1) % w) + 1]
    BY ONLY <2>1, <2>2
  <2> QED BY ONLY <2>1, <2>2, <2>3, <2>4, <2>5
<1>5. PICK l \in Nat : l = m * w
  BY <1>4
<1>6. ASSUME Len(b) <= Len(s) - p PROVE Chunks(t, s, p, m) = SubSeq(v, 1, m)
  <2>1. ASSUME NEW i \in 1..m, NEW j \in 1..w PROVE s[p + (i - 1) * w + j] = v[i][j]
    <3>1. PICK h \in Nat : h = (i - 1) * w
      BY <1>4, Within
    <3>2. PICK k \in 1..l : k = h + j
      BY <1>4, <1>5, <3>1, Within
    <3>3. (k - 1) \div w = i - 1 /\ (k - 1) % w = j - 1
      <4>1. PICK e \in Nat : e = k - 1
        BY <3>2
      <4>2. w * (i - 1) = h
        BY <3>1
      <4>3. e = w * (i - 1) + (j - 1)
        BY <3>2, <4>1, <4>2
      <4>4. i - 1 \in Int /\ j - 1 \in 0..(w - 1)
        OBVIOUS
      <4> QED BY <4>1, <4>3, <4>4, DivideOnce
    <3>4. b[k] = v[i][j]
      <4>1. b[k] = v[((k - 1) \div w) + 1][((k - 1) % w) + 1]
        BY <1>4, <1>5
      <4>2. ((k - 1) \div w) + 1 = i /\ ((k - 1) % w) + 1 = j
        BY <3>3
      <4> QED BY <4>1, <4>2
    <3>5. s[p + k] = b[k]
      <4>1. p + k <= Len(s) /\ k \in 1..Len(b)
        BY <1>4, <1>5, <1>6
      <4> QED BY <4>1 DEF Starts
    <3>6. p + (i - 1) * w + j = p + k
      <4>1. p + h + j = p + k
        BY <3>2
      <4> QED BY <3>1, <4>1
    <3> QED BY <3>4, <3>5, <3>6
  <2>2. PICK B : B = [1..w -> Bytes]
    OBVIOUS
  <2>3. PICK u : u = SubSeq(v, 1, m)
    OBVIOUS
  <2>4. v \in Seq(B) /\ m <= Len(v)
    BY <1>1, <2>2
  <2>5. u \in Seq(B) /\ Len(u) = m /\ \A i \in 1..m : u[i] = v[i] /\ v[i] \in B
    BY <1>4, <2>3, <2>4
  <2>6. PICK x : x = [i \in 1..m |-> [j \in 1..w |-> s[p + (i - 1) * w + j]]]
    OBVIOUS
  <2>7. \A i \in 1..m : x[i] = u[i]
    <3>1. ASSUME NEW i \in 1..m PROVE x[i] = v[i]
      <4>1. x[i] = [j \in 1..w |-> s[p + (i - 1) * w + j]]
        BY <2>6
      <4>2. v[i] \in [1..w -> Bytes]
        BY <2>2, <2>5
      <4> QED BY <2>1, <4>1, <4>2
    <3> QED BY <2>5, <3>1
  <2>8. x = u
    <3>1. u \in [1..m -> B]
      BY <2>5
    <3> QED BY <2>6, <2>7, <3>1
  <2>9. Chunks(t, s, p, m) = x
    BY <1>1, <2>6 DEF Chunks
  <2> QED BY <2>3, <2>8, <2>9
<1> QED BY <1>1, <1>4, <1>6

\* Containers.
LEMMA ContainerReturns ==
  ASSUME NEW t, NEW cs, NEW c, Made(t, cs, c), Typed(c), t.k \in {"list", "block"},
         t.k = "list" => Typed(cs[1]) /\ Returns(cs[1]) /\ Plain(cs[1])
  PROVE  Returns(c)
<1>1. /\ t.limit \in Nat /\ MaxCount \in Nat /\ Room(t) <= MaxCount /\ Room(t) <= t.limit
      /\ Room(t) \in Nat
      /\ c.values = {v \in Seq(Elements(t, cs)) : Len(v) <= Room(t)}
      /\ \A v, n : Write(t, cs, v, n) = WriteContainer(t, cs, v, n)
      /\ \A v, s, p, n : Read(t, cs, v, s, p, n) = ReadContainer(t, cs, v, s, p, n)
  <2>1. c.values = Values(t, cs)
    BY MadeOf
  <2> QED BY <2>1, ContainerIs, Numbers
<1>2. ASSUME NEW v \in c.values, NEW n \in Nat, NEW m \in Nat, NEW s \in Seq(Bytes),
             NEW p \in 0..Len(s), m \in Fits(t, cs, v, n),
             NEW w, w = Write(t, cs, v, n), w.err = "ok", Starts(w.bytes, s, p)
      PROVE  Returned(Read(t, cs, c.fresh, s, p, m), Kept(t, cs, v, n), w.bytes, s, p)
  <2>1. v \in Seq(Elements(t, cs)) /\ Len(v) \in Nat /\ Len(v) <= MaxCount /\ Len(v) <= t.limit
    BY <1>1
  <2>2. PICK z, u : z = Read(t, cs, u, s, p, m) /\ u = c.fresh
    OBVIOUS
  <2>3. /\ w = (IF m > Len(v) THEN Refused("container_too_small")
                ELSE IF t.k = "block" THEN WriteBlock(t, v, m)
                ELSE WriteAll(Same(cs[1], m), v, Same(Default, m)))
        /\ m # Default
        /\ WriteCount(t, v, n) = m
    <3>1. WriteCount(t, v, n) = m /\ m # Default
      <4>1. CASE t.k = "list"
        BY <1>2, <4>1 DEF Fits
      <4>2. CASE t.k = "block"
        BY <1>2, <4>2 DEF Fits
      <4> QED BY <4>1, <4>2
    <3>2. w = WriteContainer(t, cs, v, n)
      BY <1>1, <1>2
    <3> QED BY <3>1, <3>2 DEF WriteContainer
  <2>4. m <= Len(v)
    <3>1. CASE m > Len(v)
      <4>1. w.err = "container_too_small"
        BY <2>3, <3>1 DEF Refused
      <4> QED BY <1>2, <4>1
    <3> QED BY <2>1, <3>1
  <2>5. m <= MaxCount /\ m <= t.limit /\ ~(m > Len(v)) /\ ~(m > t.limit) /\ ~(m > MaxCount)
    BY <1>1, <2>1, <2>4
  <2>6. z = IF t.k = "list" THEN ReadList(t, cs, s, p, m) ELSE ReadBlock(t, u, s, p, m)
    <3>1. z = ReadContainer(t, cs, u, s, p, m)
      BY <1>1, <2>2
    <3> QED BY <2>3, <2>5, <3>1 DEF ReadContainer
  <2>7. CASE t.k = "list"
    <3>1. PICK d : d = cs[1]
      OBVIOUS
    <3>2. z = PushBack(d, s, p, m)
      BY <2>5, <2>6, <2>7, <3>1 DEF ReadList
    <3>3. w = WriteAll(Same(d, m), v, Same(Default, m))
      BY <2>3, <2>5, <2>7, <3>1
    <3>4. Kept(t, cs, v, n) = [i \in 1..m |-> d.kept[v[i]][Default]]
      <4>1. Kept(t, cs, v, n) = [i \in 1..WriteCount(t, v, n) |-> cs[1].kept[v[i]][Default]]
        BY <2>7 DEF Kept
      <4> QED BY <2>3, <3>1, <4>1
    <3>5. \A i \in 1..m : v[i] \in d.values /\ Default \in d.fits[v[i]][Default]
      <4>1. \A i \in 1..m : v[i] \in d.plain
        BY <1>2, <2>7, <3>1 DEF Fits
      <4> QED BY <2>7, <3>1, <4>1 DEF Plain
    <3>6. Returned(z, [i \in 1..m |-> d.kept[v[i]][Default]], w.bytes, s, p)
      BY <1>2, <2>5, <2>7, <3>1, <3>2, <3>3, <3>5, PushReturns
    <3> QED BY <2>2, <3>4, <3>6
  <2>8. CASE t.k = "block"
    <3>1. t.width \in Nat \ {0} /\ v \in Seq([1..t.width -> Bytes]) /\ m \in 0..Len(v)
      <4>1. Elements(t, cs) = [1..t.width -> Bytes]
        BY <2>8 DEF Elements
      <4>2. t.width \in Nat \ {0}
        BY <1>2, <2>8, ContainerIs
      <4>3. m \in 0..Len(v)
        BY <2>1, <2>4
      <4> QED BY <2>1, <4>1, <4>2, <4>3
    <3>2. w = WriteBlock(t, v, m)
      BY <2>3, <2>5, <2>8
    <3>3. PICK b : b = w.bytes
      OBVIOUS
    <3>4. /\ Len(b) = m * t.width
          /\ Len(b) <= Len(s) - p => Chunks(t, s, p, m) = SubSeq(v, 1, m)
      BY <1>2, <3>1, <3>2, <3>3, BlockReturns, SMTT(30)
    <3>5. PICK l : l = m * t.width /\ l = Len(b)
      BY <3>4
    <3>6. z = IF l > Len(s) - p THEN Failed("insufficient_data", u, p)
              ELSE Done(Chunks(t, s, p, m), p + l)
      BY <2>5, <2>6, <2>8, <3>5 DEF ReadBlock
    <3>7. Kept(t, cs, v, n) = SubSeq(v, 1, m)
      <4>1. Kept(t, cs, v, n) = SubSeq(v, 1, WriteCount(t, v, n))
        BY <2>8 DEF Kept
      <4> QED BY <2>3, <4>1
    <3>8. l \in Nat
      <4>1. PICK o \in Nat \ {0} : o = t.width
        BY <3>1
      <4>2. m * o \in Nat
        OBVIOUS
      <4> QED BY <3>5, <4>1, <4>2
    <3>9. CASE l <= Len(s) - p
      <4>1. ~(l > Len(s) - p)
        BY <3>8, <3>9
      <4>2. z = Done(Kept(t, cs, v, n), p + l)
        BY <3>4, <3>5, <3>6, <3>7, <3>9, <4>1
      <4> QED BY <2>2, <3>3, <3>5, <3>9, <4>2 DEF Returned
    <3>10. CASE ~(l <= Len(s) - p)
      <4>1. l > Len(s) - p
        BY <3>8, <3>10
      <4>2. z.err = "insufficient_data"
        BY <3>6, <4>1 DEF Failed
      <4> QED BY <2>2, <3>3, <3>5, <3>10, <4>2 DEF Returned
    <3> QED BY <3>9, <3>10
  <2> QED BY <2>7, <2>8
<1> QED BY <1>2, ReturnsIf

\* The flag of an optional.
LEMMA FlagReturns ==
  ASSUME NEW f \in {0, 1}, NEW s \in Seq(Bytes), NEW p \in 0..Len(s)
  PROVE  /\ <<f>> \in Seq(Bytes)
         /\ Starts(<<f>>, s, p) => Returned(ReadBool(0, s, p, Default), f, <<f>>, s, p)
<1>1. <<f>> \in Seq(Bytes)
  BY Numbers DEF Bytes
<1>2. ASSUME Starts(<<f>>, s, p)
      PROVE  Returned(ReadBool(0, s, p, Default), f, <<f>>, s, p)
  <2>1. PICK r : r = ReadByte(0, s, p, Default)
    OBVIOUS
  <2>2. r = IF p >= Len(s) THEN Failed("insufficient_data", 0, p) ELSE Done(s[p + 1], p + 1)
    BY <2>1 DEF ReadByte
  <2>3. PICK z : z = ReadBool(0, s, p, Default)
    OBVIOUS
  <2>4. z = IF r.err = "ok" /\ r.v > 1 THEN Failed("invalid_value", 0, p) ELSE r
    BY <2>1, <2>3 DEF ReadBool
  <2>5. p \in Nat /\ Len(s) \in Nat /\ p <= Len(s) /\ Len(<<f>>) = 1 /\ <<f>>[1] = f
    OBVIOUS
  <2>6. CASE p >= Len(s)
    <3>1. r.err = "insufficient_data"
      BY <2>2, <2>6 DEF Failed
    <3>2. z.err = "insufficient_data" /\ ~(Len(<<f>>) <= Len(s) - p)
      BY <2>4, <2>5, <2>6, <3>1
    <3> QED BY <2>3, <3>2 DEF Returned
  <2>7. CASE ~(p >= Len(s))
    <3>1. s[p + 1] = f
      <4>1. p + 1 <= Len(s) /\ 1 \in 1..Len(<<f>>)
        BY <2>5, <2>7
      <4> QED BY <1>2, <2>5, <4>1 DEF Starts
    <3>2. r = Done(f, p + 1)
      BY <2>2, <2>7, <3>1
    <3>3. z = Done(f, p + 1)
      <4>1. ~(r.v > 1)
        BY <3>2 DEF Done
      <4> QED BY <2>4, <3>2, <4>1
    <3> QED BY <2>3, <2>5, <2>7, <3>3 DEF Returned
  <2> QED BY <2>6, <2>7
<1> QED BY <1>1, <1>2

\* A part u, read from behind a flag, an index or a count, whose bytes a were read as
\* x with the outcome h.
Behind(d, u, n, m, a, w, h, x, s, p) ==
    /\ Typed(d) /\ Returns(d) /\ u \in d.values /\ n \in Nat /\ m \in Nat /\ m \in d.fits[u][n]
    /\ a \in Seq(Bytes) /\ w = Then(Wrote(a), d.write[u][n]) /\ w.err = "ok"
    /\ Starts(w.bytes, s, p) /\ (Starts(a, s, p) => Returned(h, x, a, s, p))

\* Either all of it is there, and the part is read back, or more is asked for.
LEMMA BehindReturned ==
  ASSUME NEW s \in Seq(Bytes), NEW p \in 0..Len(s),
         NEW d, NEW u, NEW n, NEW m, NEW a, NEW w, NEW h, NEW x,
         Behind(d, u, n, m, a, w, h, x, s, p)
  PROVE  \/ h.err = "insufficient_data" /\ ~(Len(w.bytes) <= Len(s) - p)
         \/ /\ h.err = "ok" /\ h.v = x /\ h.pos \in 0..Len(s)
            /\ Returned(d.read[d.fresh][s][h.pos][m], d.kept[u][n], w.bytes, s, p)
<1>0. /\ Typed(d) /\ Returns(d) /\ u \in d.values /\ n \in Nat /\ m \in Nat /\ m \in d.fits[u][n]
      /\ a \in Seq(Bytes) /\ w = Then(Wrote(a), d.write[u][n]) /\ w.err = "ok"
      /\ Starts(w.bytes, s, p) /\ (Starts(a, s, p) => Returned(h, x, a, s, p))
  BY DEF Behind
<1>1. PICK e : e = d.write[u][n]
  OBVIOUS
<1>2. e \in Written
  BY <1>0, <1>1 DEF Typed
<1>3. e.bytes \in Seq(Bytes)
  BY <1>2 DEF Written
<1>4. e.err = "ok" /\ w.bytes = a \o e.bytes
  <2>1. w = Then(Wrote(a), e)
    BY <1>0, <1>1
  <2>2. PICK f : f = Wrote(a)
    OBVIOUS
  <2>3. f.bytes = a
    BY <2>2 DEF Wrote
  <2>4. w = Then(f, e) /\ w.err = "ok"
    BY <1>0, <2>1, <2>2
  <2>5. f.err = "ok" /\ e.err = "ok" /\ w.bytes = f.bytes \o e.bytes
    BY <2>4, ThenOk
  <2> QED BY <2>3, <2>5
<1>5. Len(w.bytes) = Len(a) + Len(e.bytes)
  BY <1>0, <1>3, <1>4, Joined
<1>6. /\ Starts(a, s, p)
      /\ Len(a) <= Len(s) - p => p + Len(a) \in 0..Len(s) /\ Starts(e.bytes, s, p + Len(a))
  BY <1>0, <1>3, <1>4, StartsJoined
<1>7. Returned(h, x, a, s, p)
  BY <1>0, <1>6
<1>8. Len(a) \in Nat /\ Len(e.bytes) \in Nat /\ Len(s) \in Nat /\ p \in Nat
  BY <1>0, <1>3
<1>9. CASE Len(a) <= Len(s) - p
  <2>1. PICK q : q = p + Len(a)
    OBVIOUS
  <2>2. h = Done(x, q)
    BY <1>7, <1>9, <2>1 DEF Returned
  <2>3. q \in 0..Len(s) /\ Starts(e.bytes, s, q)
    BY <1>6, <1>9, <2>1
  <2>4. PICK r : r = d.read[d.fresh][s][q][m]
    OBVIOUS
  <2>5. Returned(r, d.kept[u][n], e.bytes, s, q)
    BY <1>0, <1>1, <1>4, <2>3, <2>4, PartReturns
  <2>6. /\ q + Len(e.bytes) = p + Len(w.bytes)
        /\ (Len(e.bytes) <= Len(s) - q) <=> (Len(w.bytes) <= Len(s) - p)
    <3>1. PICK i \in Nat : i = Len(a)
      BY <1>8
    <3>2. PICK j \in Nat : j = Len(e.bytes)
      BY <1>8
    <3>3. PICK k \in Nat : k = Len(s)
      BY <1>8
    <3>4. Len(w.bytes) = i + j /\ q = p + i /\ p \in Nat
      BY <1>5, <1>8, <2>1, <3>1, <3>2
    <3>5. q + j = p + (i + j) /\ ((j <= k - q) <=> (i + j <= k - p))
      BY <3>4
    <3> QED BY <3>2, <3>3, <3>4, <3>5
  <2>7. Returned(r, d.kept[u][n], w.bytes, s, p)
    BY <2>5, <2>6 DEF Returned
  <2>8. h.err = "ok" /\ h.v = x /\ h.pos = q
    BY <2>2 DEF Done
  <2> QED BY <2>3, <2>4, <2>7, <2>8
<1>10. CASE ~(Len(a) <= Len(s) - p)
  <2>1. h.err = "insufficient_data"
    BY <1>7, <1>10 DEF Returned
  <2>2. ~(Len(w.bytes) <= Len(s) - p)
    BY <1>5, <1>8, <1>10
  <2> QED BY <2>1, <2>2
<1> QED BY <1>9, <1>10

\* Optionals.
LEMMA OptionalReturns ==
  ASSUME NEW t, NEW cs, NEW c, Made(t, cs, c), Typed(c), t.k = "optional",
         Typed(cs[1]), Returns(cs[1])
  PROVE  Returns(c)
<1>1. PICK d : d = cs[1]
  OBVIOUS
<1>2. /\ \A v \in c.values : v # <<>> => v[1] \in d.values /\ v = <<v[1]>>
      /\ c.fresh = <<>>
  <2>1. c.values = UpTo(d.values, 1) /\ c.fresh = <<>>
    BY <1>1, MadeOf, ZenonT(30) DEF Values, Fresh
  <2> QED BY <2>1, UpToOne
<1>3. ASSUME NEW v \in c.values, NEW n \in Nat, NEW m \in Nat, NEW s \in Seq(Bytes),
             NEW p \in 0..Len(s), m \in Fits(t, cs, v, n),
             NEW w, w = Write(t, cs, v, n), w.err = "ok", Starts(w.bytes, s, p)
      PROVE  Returned(Read(t, cs, c.fresh, s, p, m), Kept(t, cs, v, n), w.bytes, s, p)
  <2>1. PICK flag : flag = ReadBool(0, s, p, Default)
    OBVIOUS
  <2>2. PICK x : x = d.read[d.fresh][s][flag.pos][m]
    OBVIOUS
  <2>3. PICK z, u : z = Read(t, cs, u, s, p, m) /\ u = c.fresh
    OBVIOUS
  <2>4. z = IF flag.err # "ok" THEN Failed(flag.err, u, p)
            ELSE IF flag.v = 0 THEN Done(<<>>, flag.pos)
            ELSE [x EXCEPT !.v = <<@>>]
    <3>1. z = ReadOptional(cs, u, s, p, m)
      BY <2>3 DEF Read
    <3> QED BY <1>1, <2>1, <2>2, <3>1 DEF ReadOptional
  <2>5. w = IF v = <<>> THEN Wrote(<<0>>) ELSE Then(Wrote(<<1>>), d.write[v[1]][n])
    <3>1. w = WriteOptional(cs, v, n)
      BY <1>3 DEF Write
    <3> QED BY <1>1, <3>1 DEF WriteOptional
  <2>6. Kept(t, cs, v, n) = [i \in 1..Len(v) |-> d.kept[v[i]][n]]
    BY <1>1 DEF Kept
  <2>7. Fits(t, cs, v, n) = IF v = <<>> THEN Nat ELSE d.fits[v[1]][n]
    BY <1>1 DEF Fits
  <2>8. CASE v = <<>>
    <3>1. w.bytes = <<0>>
      BY <2>5, <2>8 DEF Wrote
    <3>2. Returned(flag, 0, <<0>>, s, p)
      BY <1>3, <2>1, <3>1, FlagReturns
    <3>3. Kept(t, cs, v, n) = <<>>
      BY <2>6, <2>8
    <3>4. CASE Len(<<0>>) <= Len(s) - p
      <4>1. flag = Done(0, p + Len(<<0>>))
        BY <3>2, <3>4 DEF Returned
      <4>2. z = Done(<<>>, p + Len(<<0>>))
        BY <2>4, <4>1 DEF Done
      <4> QED BY <2>3, <3>1, <3>3, <3>4, <4>2 DEF Returned
    <3>5. CASE ~(Len(<<0>>) <= Len(s) - p)
      <4>1. flag.err = "insufficient_data"
        BY <3>2, <3>5 DEF Returned
      <4>2. z.err = "insufficient_data"
        BY <2>4, <4>1 DEF Failed
      <4> QED BY <2>3, <3>1, <3>5, <4>2 DEF Returned
    <3> QED BY <3>4, <3>5
  <2>9. CASE v # <<>>
    <3>1. PICK y : y = v[1]
      OBVIOUS
    <3>2. y \in d.values /\ m \in d.fits[y][n] /\ w = Then(Wrote(<<1>>), d.write[y][n])
      BY <1>2, <1>3, <2>5, <2>7, <2>9, <3>1
    <3>3. /\ <<1>> \in Seq(Bytes)
          /\ Starts(<<1>>, s, p) => Returned(flag, 1, <<1>>, s, p)
      BY <2>1, FlagReturns
    <3>4. \/ flag.err = "insufficient_data" /\ ~(Len(w.bytes) <= Len(s) - p)
          \/ /\ flag.err = "ok" /\ flag.v = 1 /\ flag.pos \in 0..Len(s)
             /\ Returned(d.read[d.fresh][s][flag.pos][m], d.kept[y][n], w.bytes, s, p)
      <4>1. PICK a, f : a = <<1>> /\ f = 1
        OBVIOUS
      <4>2. Typed(d) /\ Returns(d)
        BY <1>1
      <4>3. w = Then(Wrote(a), d.write[y][n])
        BY <3>2, <4>1
      <4>4. a \in Seq(Bytes) /\ (Starts(a, s, p) => Returned(flag, f, a, s, p))
        BY <3>3, <4>1
      <4>5. \/ flag.err = "insufficient_data" /\ ~(Len(w.bytes) <= Len(s) - p)
            \/ /\ flag.err = "ok" /\ flag.v = f /\ flag.pos \in 0..Len(s)
               /\ Returned(d.read[d.fresh][s][flag.pos][m], d.kept[y][n], w.bytes, s, p)
        <5>1. Behind(d, y, n, m, a, w, flag, f, s, p)
          BY <1>3, <3>2, <4>2, <4>3, <4>4 DEF Behind
        <5> QED BY <5>1, BehindReturned
      <4> QED BY <4>1, <4>5
    <3>5. Kept(t, cs, v, n) = <<d.kept[y][n]>>
      <4>1. v = <<y>>
        BY <1>2, <2>9, <3>1
      <4> QED BY <2>6, <4>1
    <3>6. CASE flag.err = "insufficient_data" /\ ~(Len(w.bytes) <= Len(s) - p)
      <4>1. z.err = "insufficient_data"
        BY <2>4, <3>6 DEF Failed
      <4> QED BY <2>3, <3>6, <4>1 DEF Returned
    <3>7. CASE flag.err = "ok" /\ flag.v = 1 /\ flag.pos \in 0..Len(s)
               /\ Returned(x, d.kept[y][n], w.bytes, s, p)
      <4>1. x = [err |-> x.err, v |-> x.v, pos |-> x.pos]
        <5>1. x \in [err : Errors, v : d.values, pos : flag.pos..Len(s)]
          BY <1>1, <2>2, <3>7, Zenon DEF Typed
        <5> QED BY <5>1
      <4>2. z = [err |-> x.err, v |-> <<x.v>>, pos |-> x.pos]
        BY <2>4, <3>7, <4>1
      <4>3. CASE Len(w.bytes) <= Len(s) - p
        <5>1. x = Done(d.kept[y][n], p + Len(w.bytes))
          BY <3>7, <4>3 DEF Returned
        <5>2. z = Done(<<d.kept[y][n]>>, p + Len(w.bytes))
          BY <4>2, <5>1 DEF Done
        <5> QED BY <2>3, <3>5, <4>3, <5>2 DEF Returned
      <4>4. CASE ~(Len(w.bytes) <= Len(s) - p)
        <5>1. z.err = "insufficient_data"
          BY <3>7, <4>2, <4>4 DEF Returned
        <5> QED BY <2>3, <4>4, <5>1 DEF Returned
      <4> QED BY <4>3, <4>4
    <3> QED BY <2>2, <3>4, <3>6, <3>7
  <2> QED BY <2>8, <2>9
<1> QED BY <1>3, ReturnsIf

\* Smart pointers.
LEMMA PtrReturns ==
  ASSUME NEW t, NEW cs, NEW c, Made(t, cs, c), Typed(c), t.k = "ptr",
         Typed(cs[1]), Returns(cs[1])
  PROVE  Returns(c)
<1>1. PICK d : d = cs[1]
  OBVIOUS
<1>2. \A v \in c.values : v # <<>> => v[1] \in d.values /\ v = <<v[1]>>
  <2>1. c.values = UpTo(d.values, 1)
    <3>1. c.values = Values(t, cs)
      BY MadeOf
    <3>2. Values(t, cs) = UpTo(d.values, 1)
      BY <1>1 DEF Values
    <3> QED BY <3>1, <3>2
  <2> QED BY <2>1, UpToOne
<1>3. ASSUME NEW v \in c.values, NEW n \in Nat, NEW m \in Nat, NEW s \in Seq(Bytes),
             NEW p \in 0..Len(s), m \in Fits(t, cs, v, n),
             NEW w, w = Write(t, cs, v, n), w.err = "ok", Starts(w.bytes, s, p)
      PROVE  Returned(Read(t, cs, c.fresh, s, p, m), Kept(t, cs, v, n), w.bytes, s, p)
  <2>1. PICK x : x = d.read[d.fresh][s][p][m]
    OBVIOUS
  <2>2. PICK z, u : z = Read(t, cs, u, s, p, m) /\ u = c.fresh
    OBVIOUS
  <2>3. z = [x EXCEPT !.v = IF x.err = "ok" THEN <<@>> ELSE u]
    <3>1. z = ReadPtr(cs, u, s, p, m)
      BY <2>2 DEF Read
    <3> QED BY <1>1, <2>1, <3>1, Zenon DEF ReadPtr
  <2>4. Fits(t, cs, v, n) = IF v = <<>> THEN Nat ELSE d.fits[v[1]][n]
    BY <1>1 DEF Fits
  <2>5. v # <<>>
    <3>1. w = WritePtr(cs, v, n)
      BY <1>3 DEF Write
    <3>2. v = <<>> => w = Refused("null_pointer")
      BY <3>1 DEF WritePtr
    <3> QED BY <1>3, <3>2 DEF Refused
  <2>6. PICK y : y = v[1]
    OBVIOUS
  <2>7. y \in d.values /\ m \in d.fits[y][n] /\ v = <<y>>
    BY <1>2, <1>3, <2>4, <2>5, <2>6
  <2>8. w = d.write[y][n]
    <3>1. w = WritePtr(cs, v, n)
      BY <1>3 DEF Write
    <3> QED BY <1>1, <2>5, <2>6, <3>1 DEF WritePtr
  <2>9. Returned(x, d.kept[y][n], w.bytes, s, p)
    BY <1>1, <1>3, <2>1, <2>7, <2>8, PartReturns
  <2>10. Kept(t, cs, v, n) = <<d.kept[y][n]>>
    <3>1. Kept(t, cs, v, n) = [i \in 1..Len(v) |-> d.kept[v[i]][n]]
      BY <1>1 DEF Kept
    <3> QED BY <2>7, <3>1
  <2>11. x = [err |-> x.err, v |-> x.v, pos |-> x.pos]
    <3>1. x \in [err : Errors, v : d.values, pos : p..Len(s)]
      BY <1>1, <2>1 DEF Typed
    <3> QED BY <3>1
  <2>12. z = [err |-> x.err, v |-> IF x.err = "ok" THEN <<x.v>> ELSE u, pos |-> x.pos]
    BY <2>3, <2>11
  <2>13. CASE Len(w.bytes) <= Len(s) - p
    <3>1. x = Done(d.kept[y][n], p + Len(w.bytes))
      BY <2>9, <2>13 DEF Returned
    <3>2. z = Done(<<d.kept[y][n]>>, p + Len(w.bytes))
      BY <2>12, <3>1 DEF Done
    <3> QED BY <2>2, <2>10, <2>13, <3>2 DEF Returned
  <2>14. CASE ~(Len(w.bytes) <= Len(s) - p)
    <3>1. z.err = "insufficient_data"
      BY <2>9, <2>12, <2>14 DEF Returned
    <3> QED BY <2>2, <2>14, <3>1 DEF Returned
  <2> QED BY <2>13, <2>14
<1> QED BY <1>3, ReturnsIf

\* Variants.
LEMMA VariantReturns ==
  ASSUME NEW t, NEW cs, NEW c, Made(t, cs, c), Typed(c), t.k = "variant",
         \A i \in 1..Len(cs) : Typed(cs[i]) /\ Returns(cs[i]) /\ Plain(cs[i])
  PROVE  Returns(c)
<1>1. PICK N \in Nat : N = Len(cs) /\ N \in 1..Default /\ Default \in Nat
  BY VariantIs, Numbers, SMTT(30) DEF Made
<1>2. ASSUME NEW v \in c.values, NEW n \in Nat, NEW m \in Nat, NEW s \in Seq(Bytes),
             NEW p \in 0..Len(s), m \in Fits(t, cs, v, n),
             NEW w, w = Write(t, cs, v, n), w.err = "ok", Starts(w.bytes, s, p)
      PROVE  Returned(Read(t, cs, c.fresh, s, p, m), Kept(t, cs, v, n), w.bytes, s, p)
  <2>1. Fits(t, cs, v, n) = IF v = <<>> THEN Nat ELSE {j \in Nat : v[2] \in cs[v[1] + 1].plain}
    BY DEF Fits
  <2>2. v # <<>> /\ v[2] \in cs[v[1] + 1].plain
    <3>1. w = WriteVariant(cs, v)
      BY <1>2 DEF Write
    <3>2. v = <<>> => w = Refused("invalid_value")
      BY <3>1 DEF WriteVariant
    <3>3. v # <<>>
      BY <1>2, <3>2 DEF Refused
    <3> QED BY <1>2, <2>1, <3>3
  <2>3. PICK i \in 1..N : v[1] = i - 1 /\ v[1] + 1 = i
    <3>1. v \in Values(t, cs)
      BY MadeOf
    <3> QED BY <1>1, <2>2, <3>1, VariantIs
  <2>4. PICK k \in 0..Default : k = v[1] /\ k + 1 = i /\ k < N
    BY <1>1, <2>3
  <2>5. PICK d : d = cs[i]
    OBVIOUS
  <2>6. Typed(d) /\ Returns(d) /\ Plain(d)
    BY <1>1, <2>5
  <2>7. PICK y : y = v[2]
    OBVIOUS
  <2>8. y \in d.values /\ Default \in d.fits[y][Default]
    BY <2>2, <2>3, <2>5, <2>6, <2>7 DEF Plain
  <2>9. PICK a : a = WriteCompact[k]
    OBVIOUS
  <2>10. w = Then(Wrote(a), d.write[y][Default])
    <3>1. w = WriteVariant(cs, v)
      BY <1>2 DEF Write
    <3> QED BY <2>2, <2>3, <2>4, <2>5, <2>7, <2>9, <3>1 DEF WriteVariant
  <2>11. PICK h : h = ReadCompact(s, p)
    OBVIOUS
  <2>12. a \in Seq(Bytes) /\ (Starts(a, s, p) => Returned(h, k, a, s, p))
    <3>1. a \in Seq(Bytes)
      <4>1. k \in Nat
        BY <1>1
      <4> QED BY <2>9, <4>1, Groups
    <3>2. Starts(a, s, p) => Returned(h, k, a, s, p)
      BY <2>9, <2>11, CompactStarts
    <3> QED BY <3>1, <3>2
  <2>13. PICK x : x = d.read[d.fresh][s][h.pos][Default]
    OBVIOUS
  <2>14. \/ h.err = "insufficient_data" /\ ~(Len(w.bytes) <= Len(s) - p)
         \/ /\ h.err = "ok" /\ h.v = k /\ h.pos \in 0..Len(s)
            /\ Returned(x, d.kept[y][Default], w.bytes, s, p)
    <3>1. Behind(d, y, Default, Default, a, w, h, k, s, p)
      BY ONLY <1>1, <1>2, <2>6, <2>8, <2>10, <2>12 DEF Behind
    <3> QED BY <2>13, <3>1, BehindReturned
  <2>15. PICK z, u : z = Read(t, cs, u, s, p, m) /\ u = c.fresh
    OBVIOUS
  <2>16. PICK g : g = cs[h.v + 1].read[cs[h.v + 1].fresh][s][h.pos][Default]
    OBVIOUS
  <2>17. z = IF h.err # "ok" THEN Failed(h.err, u, p)
             ELSE IF h.v >= N THEN Failed("invalid_value", u, h.pos)
             ELSE [g EXCEPT !.v = IF g.err = "ok" THEN <<h.v, @>> ELSE u]
    <3>1. z = ReadVariant(cs, u, s, p)
      BY <2>15 DEF Read
    <3> QED BY <1>1, <2>11, <2>16, <3>1, Zenon DEF ReadVariant
  <2>18. Kept(t, cs, v, n) = <<k, d.kept[y][Default]>>
    <3>1. Kept(t, cs, v, n) =
            IF v = <<>> THEN <<>> ELSE <<v[1], cs[v[1] + 1].kept[v[2]][Default]>>
      BY DEF Kept
    <3> QED BY <2>2, <2>3, <2>4, <2>5, <2>7, <3>1
  <2>19. CASE h.err = "insufficient_data" /\ ~(Len(w.bytes) <= Len(s) - p)
    <3>1. z.err = "insufficient_data"
      BY <2>17, <2>19 DEF Failed
    <3> QED BY <2>15, <2>19, <3>1 DEF Returned
  <2>20. CASE h.err = "ok" /\ h.v = k /\ h.pos \in 0..Len(s)
              /\ Returned(x, d.kept[y][Default], w.bytes, s, p)
    <3>1. x = [err |-> x.err, v |-> x.v, pos |-> x.pos]
      <4>1. x \in [err : Errors, v : d.values, pos : h.pos..Len(s)]
        BY <1>1, <2>6, <2>13, <2>20, Zenon DEF Typed
      <4> QED BY <4>1
    <3>2. g = x
      BY <2>4, <2>5, <2>13, <2>16, <2>20, Zenon
    <3>3. ~(h.v >= N)
      BY <1>1, <2>4, <2>20
    <3>4. z = [err |-> x.err, v |-> IF x.err = "ok" THEN <<k, x.v>> ELSE u, pos |-> x.pos]
      <4>1. z = [x EXCEPT !.v = IF x.err = "ok" THEN <<k, @>> ELSE u]
        BY <2>17, <2>20, <3>2, <3>3
      <4> QED BY <3>1, <4>1
    <3>5. CASE Len(w.bytes) <= Len(s) - p
      <4>1. x = Done(d.kept[y][Default], p + Len(w.bytes))
        BY <2>20, <3>5 DEF Returned
      <4>2. z = Done(<<k, d.kept[y][Default]>>, p + Len(w.bytes))
        BY <3>4, <4>1 DEF Done
      <4> QED BY <2>15, <2>18, <3>5, <4>2 DEF Returned
    <3>6. CASE ~(Len(w.bytes) <= Len(s) - p)
      <4>1. z.err = "insufficient_data"
        BY <2>20, <3>4, <3>6 DEF Returned
      <4> QED BY <2>15, <3>6, <4>1 DEF Returned
    <3> QED BY <3>5, <3>6
  <2> QED BY <2>14, <2>19, <2>20
<1> QED BY <1>2, ReturnsIf

\* Containers behind their sizes.
LEMMA SizedReturns ==
  ASSUME NEW c, Typed(c), Returns(c), NEW v \in c.values, Len(v) \in Nat,
         Len(v) \in c.fits[v][Default], NEW s \in Seq(Bytes), NEW p \in 0..Len(s),
         NEW max \in Nat, Len(v) <= max, NEW w, w = WriteWithSize(c, v), w.err = "ok",
         Starts(w.bytes, s, p), NEW r, r = ReadWithSize(c, c.fresh, s, p, max)
  PROVE  Returned(r, c.kept[v][Default], w.bytes, s, p)
<1>1. PICK e : e = Then(Wrote(WriteCompact[Len(v)]), c.write[v][Default])
  OBVIOUS
<1>2. w = IF Len(v) >= Default THEN Refused("count_out_of_range")
          ELSE IF e.err # "ok" THEN Refused(e.err) ELSE e
  BY <1>1 DEF WriteWithSize
<1>3. ~(Len(v) >= Default) /\ e.err = "ok" /\ w = e
  BY <1>2 DEF Refused
<1>4. PICK k \in 0..Default : k = Len(v) /\ k < Default /\ k <= max /\ k \in Nat /\ Default \in Nat
  BY <1>3, Numbers
<1>5. PICK a : a = WriteCompact[k]
  OBVIOUS
<1>6. PICK h : h = ReadCompact(s, p)
  OBVIOUS
<1>7. a \in Seq(Bytes) /\ (Starts(a, s, p) => Returned(h, k, a, s, p))
  <2>1. a \in Seq(Bytes)
    BY <1>4, <1>5, Groups
  <2>2. Starts(a, s, p) => Returned(h, k, a, s, p)
    BY <1>5, <1>6, CompactStarts
  <2> QED BY <2>1, <2>2
<1>8. w = Then(Wrote(a), c.write[v][Default]) /\ k \in c.fits[v][Default]
  BY <1>1, <1>3, <1>4, <1>5
<1>9. PICK x, u : x = c.read[u][s][h.pos][h.v] /\ u = c.fresh
  OBVIOUS
<1>10. \/ h.err = "insufficient_data" /\ ~(Len(w.bytes) <= Len(s) - p)
       \/ /\ h.err = "ok" /\ h.v = k /\ h.pos \in 0..Len(s)
          /\ Returned(c.read[c.fresh][s][h.pos][k], c.kept[v][Default], w.bytes, s, p)
  <2>1. Behind(c, v, Default, k, a, w, h, k, s, p)
    BY <1>4, <1>7, <1>8 DEF Behind
  <2> QED BY <2>1, BehindReturned
<1>11. r = IF h.err # "ok" THEN Failed(h.err, u, p)
           ELSE IF h.v > max \/ h.v >= Default THEN Failed("count_out_of_range", u, p)
           ELSE IF x.err # "ok" THEN [x EXCEPT !.pos = p] ELSE x
  BY <1>6, <1>9 DEF ReadWithSize
<1>12. CASE h.err = "insufficient_data" /\ ~(Len(w.bytes) <= Len(s) - p)
  <2>1. r.err = "insufficient_data"
    BY <1>11, <1>12 DEF Failed
  <2> QED BY <1>12, <2>1 DEF Returned
<1>13. CASE h.err = "ok" /\ h.v = k /\ h.pos \in 0..Len(s)
            /\ Returned(c.read[c.fresh][s][h.pos][k], c.kept[v][Default], w.bytes, s, p)
  <2>1. Returned(x, c.kept[v][Default], w.bytes, s, p)
    BY <1>9, <1>13
  <2>2. x = [err |-> x.err, v |-> x.v, pos |-> x.pos]
    <3>1. x \in [err : Errors, v : c.values, pos : h.pos..Len(s)]
      BY <1>4, <1>9, <1>13 DEF Typed
    <3> QED BY <3>1
  <2>3. r = IF x.err # "ok" THEN [x EXCEPT !.pos = p] ELSE x
    BY <1>4, <1>11, <1>13
  <2>4. CASE Len(w.bytes) <= Len(s) - p
    <3>1. x = Done(c.kept[v][Default], p + Len(w.bytes))
      BY <2>1, <2>4 DEF Returned
    <3>2. r = x
      BY <2>3, <3>1 DEF Done
    <3> QED BY <2>4, <3>1, <3>2 DEF Returned
  <2>5. CASE ~(Len(w.bytes) <= Len(s) - p)
    <3>1. x.err = "insufficient_data"
      BY <2>1, <2>5 DEF Returned
    <3>2. r = [err |-> x.err, v |-> x.v, pos |-> p]
      BY <2>2, <2>3, <3>1
    <3> QED BY <2>5, <3>1, <3>2 DEF Returned
  <2> QED BY <2>4, <2>5
<1> QED BY <1>10, <1>12, <1>13

\* Size-prefixed containers.
LEMMA PrefixedReturns ==
  ASSUME NEW t, NEW cs, NEW c, Made(t, cs, c), Typed(c), t.k = "prefixed",
         Typed(cs[1]), Returns(cs[1]), \A v \in cs[1].values : Len(v) \in Nat
  PROVE  Returns(c)
<1>1. PICK d : d = cs[1]
  OBVIOUS
<1>2. c.values = d.values /\ c.fresh = d.fresh /\ t.max \in Nat
  BY <1>1, Numbers, MadeOf DEF Values, Fresh, Made, WellFormed
<1>3. ASSUME NEW v \in c.values, NEW n \in Nat, NEW m \in Nat, NEW s \in Seq(Bytes),
             NEW p \in 0..Len(s), m \in Fits(t, cs, v, n),
             NEW w, w = Write(t, cs, v, n), w.err = "ok", Starts(w.bytes, s, p)
      PROVE  Returned(Read(t, cs, c.fresh, s, p, m), Kept(t, cs, v, n), w.bytes, s, p)
  <2>1. Fits(t, cs, v, n) = {j \in Nat : Len(v) \in d.fits[v][Default]}
    BY <1>1 DEF Fits
  <2>2. w = IF Len(v) > t.max THEN Refused("count_out_of_range") ELSE WriteWithSize(d, v)
    <3>1. w = WritePrefixed(t, cs, v)
      BY <1>3 DEF Write
    <3> QED BY <1>1, <3>1 DEF WritePrefixed
  <2>3. ~(Len(v) > t.max) /\ w = WriteWithSize(d, v)
    BY <1>3, <2>2 DEF Refused
  <2>4. Len(v) \in Nat /\ Len(v) <= t.max /\ Len(v) \in d.fits[v][Default] /\ v \in d.values
    BY <1>1, <1>2, <1>3, <2>1, <2>3
  <2>5. PICK z : z = ReadWithSize(d, d.fresh, s, p, t.max)
    OBVIOUS
  <2>6. Returned(z, d.kept[v][Default], w.bytes, s, p)
    BY <1>1, <1>2, <1>3, <2>3, <2>4, <2>5, SizedReturns
  <2>7. Read(t, cs, c.fresh, s, p, m) = z
    BY <1>1, <1>2, <2>5 DEF Read
  <2>8. Kept(t, cs, v, n) = d.kept[v][Default]
    BY <1>1 DEF Kept
  <2> QED BY <2>6, <2>7, <2>8
<1> QED BY <1>3, ReturnsIf

\* The values that are read back without a count.
LEMMA MadePlain ==
  ASSUME NEW t, NEW cs, NEW c, Made(t, cs, c)
  PROVE  Plain(c)
<1>1. c.plain = {v \in c.values : Default \in Fits(t, cs, v, Default)}
  BY DEF Made
<1>2. \A v \in c.values : c.fits[v][Default] = Fits(t, cs, v, Default)
  BY Numbers DEF Made
<1>3. {v \in c.values : Default \in Fits(t, cs, v, Default)}
          = {v \in c.values : Default \in c.fits[v][Default]}
  BY <1>2
<1> QED BY <1>1, <1>3 DEF Plain

\* Every codec reads back what it writes, with the counts that fit, and asks for more data
\* where what it wrote is cut short.
THEOREM EveryReturns == \A t \in Universe : Returns(Codec[t])
<1> DEFINE T == {t \in Universe : Returns(Codec[t])}
<1>1. ASSUME NEW t \in Universe, \A i \in 1..Len(t.of) : t.of[i] \in T
      PROVE  t \in T
  <2>1. PICK c, cs : c = Codec[t] /\ cs = PartsOf(t)
    OBVIOUS
  <2>2. /\ Made(t, cs, c) /\ Typed(c)
        /\ \A i \in 1..Len(t.of) : t.of[i] \in Universe /\ cs[i] = Codec[t.of[i]]
    BY <2>1, AllMade, EveryTyped
  <2>3. Len(cs) = Len(t.of) /\ t.k \in Kinds /\ WellFormed(t)
    BY <2>2 DEF Made, WellFormed
  <2>4. \A i \in 1..Len(cs) : Typed(cs[i]) /\ Returns(cs[i]) /\ Plain(cs[i])
    <3>1. \A i \in 1..Len(t.of) : Plain(cs[i])
      BY <2>2, AllMade, MadePlain
    <3> QED BY <1>1, <2>2, <2>3, <3>1, EveryTyped
  <2>5. ASSUME t.k \in {"optional", "ptr", "array", "list", "prefixed"}
        PROVE  /\ Typed(cs[1]) /\ Returns(cs[1]) /\ Plain(cs[1])
               /\ \E u \in Universe : u = t.of[1] /\ Made(u, PartsOf(u), cs[1])
    <3>1. Len(t.of) = 1 /\ 1 \in 1..Len(cs) /\ 1 \in 1..Len(t.of)
      BY <2>3, <2>5, SMTT(30) DEF WellFormed
    <3>2. t.of[1] \in Universe /\ cs[1] = Codec[t.of[1]]
      BY <2>2, <3>1
    <3>3. Made(t.of[1], PartsOf(t.of[1]), cs[1])
      BY <3>2, AllMade
    <3> QED BY <2>4, <3>1, <3>2, <3>3
  <2>6. Returns(c)
    <3>1. CASE t.k \in {"byte", "bool", "unit"}
      BY <2>2, <3>1, ScalarReturns
    <3>2. CASE t.k = "optional"
      BY <2>2, <2>5, <3>2, OptionalReturns
    <3>3. CASE t.k = "ptr"
      BY <2>2, <2>5, <3>3, PtrReturns
    <3>4. CASE t.k \in {"tuple", "struct"}
      BY <2>2, <2>4, <3>4, RowReturns
    <3>5. CASE t.k = "array"
      <4>1. t.of[1].k = "byte" => Single(cs[1])
        BY <2>5, <3>5, ByteSingle
      <4> QED BY <2>2, <2>5, <3>5, <4>1, ArrayReturns
    <3>6. CASE t.k \in {"list", "block"}
      BY <2>2, <2>5, <3>6, ContainerReturns
    <3>7. CASE t.k = "prefixed"
      <4>1. t.of[1].k \in {"list", "block"}
        BY <2>3, <3>7 DEF WellFormed
      <4>2. PICK u \in Universe : u = t.of[1] /\ Made(u, PartsOf(u), cs[1])
        BY <2>5, <3>7
      <4>3. \A v \in cs[1].values : Len(v) \in Nat
        BY <4>1, <4>2, Lengths
      <4> QED BY <2>2, <2>5, <3>7, <4>3, PrefixedReturns
    <3>8. CASE t.k = "variant"
      BY <2>2, <2>4, <3>8, VariantReturns
    <3> QED BY <2>3, <3>1, <3>2, <3>3, <3>4, <3>5, <3>6, <3>7, <3>8 DEF Kinds
  <2> QED BY <2>1, <2>6
<1> HIDE DEF T
<1>2. Universe \subseteq T
  BY <1>1, AllTypes
<1> QED BY <1>2 DEF T

\* What has just been appended to s is read back from where s ended.
LEMMA AppendedReturns ==
  ASSUME NEW s \in Seq(Bytes), NEW b \in Seq(Bytes), NEW z, z = s \o b
  PROVE  /\ z \in Seq(Bytes) /\ Len(s) \in 0..Len(z) /\ Starts(b, z, Len(s))
         /\ \A r, v : Returned(r, v, b, z, Len(s)) => r = Done(v, Len(z))
<1>1. /\ z \in Seq(Bytes) /\ Len(z) = Len(s) + Len(b)
      /\ \A i \in 1..Len(b) : z[Len(s) + i] = b[i]
  BY Joined
<1>2. Starts(b, z, Len(s))
  BY <1>1 DEF Starts
<1>3. PICK j \in Nat : j = Len(s)
  OBVIOUS
<1>4. PICK k \in Nat : k = Len(b)
  OBVIOUS
<1>5. Len(z) = j + k /\ k <= (j + k) - j /\ j \in 0..(j + k)
  BY <1>1, <1>3, <1>4
<1>6. Len(b) <= Len(z) - Len(s) /\ Len(s) + Len(b) = Len(z)
  BY <1>3, <1>4, <1>5
<1>7. \A r, v : Returned(r, v, b, z, Len(s)) => r = Done(v, Len(z))
  BY <1>6 DEF Returned
<1> QED BY <1>1, <1>2, <1>3, <1>5, <1>7

\* What set and set_atomic append is read back, with every count that fits, and so is what
\* set_with_size appends (the round trips of the tests, for any type and any buffer).
THEOREM RoundTripHolds == Spec => RoundTrip
<1> DEFINE Back ==
      last'.err = "ok" =>
          /\ last'.op \in {"set", "set_atomic"} =>
                \A m \in Counts \cup {Default} :
                    m \in C.fits[target][last'.n] =>
                        C.read[C.fresh][buf'][Len(buf)][m] =
                            Done(C.kept[target][last'.n], Len(buf'))
          /\ last'.op = "set_with_size" /\ Len(target) \in C.fits[target][Default] =>
                ReadWithSize(C, C.fresh, buf', Len(buf), Len(target)) =
                    Done(C.kept[target][Default], Len(buf'))
<1>1. ASSUME IInv, Next PROVE Back
  <2>1. /\ target \in C.values /\ buf \in Seq(Bytes) /\ type \in Types
        /\ Typed(C) /\ Returns(C)
        /\ Sized => Len(target) \in Nat
    BY <1>1, OurCodec, EveryReturns DEF IInv, TypeOK
  <2>2. ASSUME NEW n \in Counts \cup {Default}, Set(n) \/ SetAtomic(n) PROVE Back
    <3>1. PICK w : w = C.write[target][n]
      OBVIOUS
    <3>2. n \in Nat
      BY CallCounts
    <3>3. w \in Written
      BY <2>1, <3>1, <3>2 DEF Typed
    <3>4. w.bytes \in Seq(Bytes)
      BY <3>3 DEF Written
    <3>5. /\ last'.err = w.err /\ last'.n = n /\ last'.op # "set_with_size"
          /\ w.err = "ok" => buf' = buf \o w.bytes
      BY <2>2, <3>1 DEF Set, SetAtomic, Appended
    <3>6. ASSUME w.err = "ok", NEW m \in Counts \cup {Default}, m \in C.fits[target][n]
          PROVE  C.read[C.fresh][buf'][Len(buf)][m] = Done(C.kept[target][n], Len(buf'))
      <4>1. PICK z : z = buf'
        OBVIOUS
      <4>2. PICK b : b = buf
        OBVIOUS
      <4>3. b \in Seq(Bytes) /\ z = b \o w.bytes
        BY <2>1, <3>5, <3>6, <4>1, <4>2
      <4>4. /\ z \in Seq(Bytes) /\ Len(b) \in 0..Len(z) /\ Starts(w.bytes, z, Len(b))
            /\ \A r, v : Returned(r, v, w.bytes, z, Len(b)) => r = Done(v, Len(z))
        BY <3>4, <4>3, AppendedReturns
      <4>5. m \in Nat
        BY CallCounts
      <4>6. Returned(C.read[C.fresh][z][Len(b)][m], C.kept[target][n], w.bytes, z, Len(b))
        BY <2>1, <3>1, <3>2, <3>6, <4>4, <4>5 DEF Returns
      <4>7. C.read[C.fresh][z][Len(b)][m] = Done(C.kept[target][n], Len(z))
        BY <4>4, <4>6
      <4> QED BY <4>1, <4>2, <4>7
    <3> QED BY <3>5, <3>6
  <2>3. ASSUME SetWithSize PROVE Back
    <3>1. PICK w : w = WriteWithSize(C, target)
      OBVIOUS
    <3>2. Sized /\ Len(target) \in Nat
      BY <2>1, <2>3 DEF SetWithSize
    <3>3. w \in Written
      BY <2>1, <3>1, <3>2, WriteWithSizeTyped
    <3>4. w.bytes \in Seq(Bytes)
      BY <3>3 DEF Written
    <3>5. /\ last'.err = w.err /\ last'.op = "set_with_size"
          /\ w.err = "ok" => buf' = buf \o w.bytes
      BY <2>3, <3>1 DEF SetWithSize, Appended
    <3>6. ASSUME w.err = "ok", Len(target) \in C.fits[target][Default]
          PROVE  ReadWithSize(C, C.fresh, buf', Len(buf), Len(target)) =
                     Done(C.kept[target][Default], Len(buf'))
      <4>1. PICK z : z = buf'
        OBVIOUS
      <4>2. PICK b : b = buf
        OBVIOUS
      <4>3. b \in Seq(Bytes) /\ z = b \o w.bytes
        BY <2>1, <3>5, <3>6, <4>1, <4>2
      <4>4. /\ z \in Seq(Bytes) /\ Len(b) \in 0..Len(z) /\ Starts(w.bytes, z, Len(b))
            /\ \A r, v : Returned(r, v, w.bytes, z, Len(b)) => r = Done(v, Len(z))
        BY <3>4, <4>3, AppendedReturns
      <4>5. PICK max \in Nat : max = Len(target) /\ Len(target) <= max
        BY <3>2
      <4>6. PICK p \in 0..Len(z) : p = Len(b)
        BY <4>4
      <4>7. PICK r : r = ReadWithSize(C, C.fresh, z, p, max)
        OBVIOUS
      <4>8. Returned(r, C.kept[target][Default], w.bytes, z, p)
        BY <2>1, <3>1, <3>2, <3>6, <4>4, <4>5, <4>6, <4>7, SizedReturns
      <4>9. r = Done(C.kept[target][Default], Len(z))
        BY <4>4, <4>6, <4>8
      <4> QED BY <4>1, <4>2, <4>5, <4>6, <4>7, <4>9
    <3> QED BY <3>5, <3>6
  <2>4. ASSUME NEW n \in Counts \cup {Default}, GetTo(n) \/ Get(n) \/ GetAtomic(n) PROVE Back
    <3>1. last'.op \in {"get_to", "get", "get_atomic"}
      BY <2>4 DEF GetTo, Get, GetAtomic, InPlace, ViaNew
    <3> QED BY <3>1
  <2>5. ASSUME NEW max \in Counts, GetToWithSize(max) \/ GetToWithSizeAtomic(max) PROVE Back
    <3>1. last'.op \in {"get_to_with_size", "get_to_with_size_atomic"}
      BY <2>5 DEF GetToWithSize, GetToWithSizeAtomic, InPlace, ViaNew
    <3> QED BY <3>1
  <2>6. ASSUME Parse PROVE Back
    <3>1. last'.op = "parse"
      BY <2>6 DEF Parse
    <3> QED BY <3>1
  <2> QED BY <1>1, <2>2, <2>3, <2>4, <2>5, <2>6 DEF Next
<1>2. IInv /\ [Next]_vars => [Back]_vars
  BY <1>1
<1> QED BY Initial, Inductive, <1>2, PTL DEF Spec, RoundTrip

\* parse takes exactly the encodings: what it took is one, and what it refused is the
\* encoding of no value that can be told from what follows it (WIRE_FORMAT.md).
THEOREM ParseExactHolds == Spec => ParseExact
<1> DEFINE Exactly ==
      last'.op = "parse" =>
          LET Encodes(v) == C.write[v][Default] = Wrote(buf)
          IN  IF last'.err = "ok" THEN Encodes(target')
              ELSE \A v \in C.plain : ~Encodes(v)
<1>1. ASSUME IInv, Next PROVE Exactly
  <2>1. /\ buf \in Seq(Bytes) /\ type \in Types /\ Typed(C) /\ C.fresh \in C.values
        /\ Returns(C) /\ Canonical(C) /\ Plain(C) /\ Default \in Nat
    <3>1. /\ buf \in Seq(Bytes) /\ type \in Types /\ type \in Universe /\ Typed(C)
          /\ C = Codec[type] /\ Made(type, PartsOf(type), C)
      BY <1>1, OurCodec DEF IInv
    <3>2. Plain(C)
      BY <3>1, MadePlain
    <3>3. Returns(C) /\ Canonical(C)
      BY <3>1, EveryReturns, EveryCanonical
    <3>4. C.fresh \in C.values
      BY <3>1 DEF Typed
    <3> QED BY <3>1, <3>2, <3>3, <3>4, Numbers
  <2>2. ASSUME Parse PROVE Exactly
    <3>1. PICK b : b = buf
      OBVIOUS
    <3>2. b \in Seq(Bytes) /\ Len(b) \in Nat /\ 0 \in 0..Len(b)
      BY <2>1, <3>1
    <3>3. PICK x : x = C.read[C.fresh][b][0][Default]
      OBVIOUS
    <3>4. /\ x = [err |-> x.err, v |-> x.v, pos |-> x.pos] /\ x.v \in C.values
          /\ x.pos \in Nat /\ x.pos <= Len(b)
      BY <2>1, <3>2, <3>3, FreshRead
    <3>5. PICK r : r = FullyConsumed(x)
      OBVIOUS
    <3>6. r = IF x.err = "ok" /\ x.pos < Len(b) THEN [x EXCEPT !.err = "trailing_data"] ELSE x
      BY <3>1, <3>5 DEF FullyConsumed
    <3>7. last'.err = r.err /\ (r.err = "ok" => target' = r.v)
      BY <2>2, <3>1, <3>3, <3>5 DEF Parse
    <3>8. ASSUME r.err = "ok" PROVE C.write[r.v][Default] = Wrote(b)
      <4>1. ~(x.err = "ok" /\ x.pos < Len(b))
        <5>1. [x EXCEPT !.err = "trailing_data"]
                  = [err |-> "trailing_data", v |-> x.v, pos |-> x.pos]
          BY <3>4
        <5> QED BY <3>6, <3>8, <5>1
      <4>2. r = x /\ x.err = "ok" /\ x.pos = Len(b)
        BY <3>2, <3>4, <3>6, <3>8, <4>1
      <4>3. C.write[x.v][Default] = Wrote(SubSeq(b, 0 + 1, Len(b)))
        <5>1. C.write[x.v][Default] = Wrote(SubSeq(b, 0 + 1, x.pos))
          <6>1. PICK p \in 0..Len(b) : p = 0
            BY <3>2
          <6>2. PICK u \in C.values : u = C.fresh
            BY <2>1
          <6>3. x = C.read[u][b][p][Default]
            BY <3>3, <6>1, <6>2
          <6>4. Canonical(C) /\ b \in Seq(Bytes) /\ Default \in Nat /\ x.err = "ok"
            BY <2>1, <3>2, <4>2
          <6>5. C.write[x.v][Default] = Wrote(SubSeq(b, p + 1, x.pos))
            BY <6>3, <6>4, PartCanonical
          <6> QED BY <6>1, <6>5
        <5> QED BY <4>2, <5>1
      <4>4. SubSeq(b, 0 + 1, Len(b)) = b
        <5>1. /\ SubSeq(b, 0 + 1, Len(b)) \in Seq(Bytes)
              /\ Len(SubSeq(b, 0 + 1, Len(b))) = Len(b)
              /\ \A i \in 1..Len(b) : SubSeq(b, 0 + 1, Len(b))[i] = b[i]
          BY <3>2
        <5> QED BY <3>2, <5>1, SameSequence
      <4> QED BY <4>2, <4>3, <4>4
    <3>9. ASSUME NEW v \in C.plain, C.write[v][Default] = Wrote(b)
          PROVE  r.err = "ok"
      <4>1. v \in C.values /\ Default \in C.fits[v][Default]
        BY <2>1 DEF Plain
      <4>2. PICK w : w = C.write[v][Default]
        OBVIOUS
      <4>3. w.err = "ok" /\ w.bytes = b
        BY <3>9, <4>2 DEF Wrote
      <4>4. Starts(w.bytes, b, 0)
        BY <4>3 DEF Starts
      <4>5. Returned(x, C.kept[v][Default], w.bytes, b, 0)
        BY <2>1, <3>2, <3>3, <4>1, <4>2, <4>3, <4>4, PartReturns
      <4>6. x = Done(C.kept[v][Default], Len(b))
        <5>1. Len(w.bytes) <= Len(b) - 0 /\ 0 + Len(w.bytes) = Len(b)
          BY <3>2, <4>3
        <5> QED BY <4>5, <5>1 DEF Returned
      <4>7. x.err = "ok" /\ ~(x.pos < Len(b))
        BY <3>2, <4>6 DEF Done
      <4> QED BY <3>6, <4>7
    <3>10. CASE r.err = "ok"
      BY <3>1, <3>7, <3>8, <3>10
    <3>11. CASE r.err # "ok"
      BY <3>1, <3>7, <3>9, <3>11
    <3> QED BY <3>10, <3>11
  <2>3. ASSUME NEW n \in Counts \cup {Default},
               Set(n) \/ SetAtomic(n) \/ GetTo(n) \/ Get(n) \/ GetAtomic(n)
        PROVE  Exactly
    <3>1. Set(n) \/ SetAtomic(n) => last'.op \in {"set", "set_atomic"}
      BY DEF Set, SetAtomic, Appended
    <3>2. GetTo(n) => last'.op = "get_to"
      BY DEF GetTo, InPlace
    <3>3. Get(n) \/ GetAtomic(n) => last'.op \in {"get", "get_atomic"}
      BY DEF Get, GetAtomic, ViaNew
    <3>4. last'.op # "parse"
      BY <2>3, <3>1, <3>2, <3>3
    <3> QED BY <3>4
  <2>4. ASSUME NEW max \in Counts, GetToWithSize(max) \/ GetToWithSizeAtomic(max)
        PROVE  Exactly
    <3>1. last'.op \in {"get_to_with_size", "get_to_with_size_atomic"}
      BY <2>4 DEF GetToWithSize, GetToWithSizeAtomic, InPlace, ViaNew
    <3> QED BY <3>1
  <2>5. ASSUME SetWithSize PROVE Exactly
    <3>1. last'.op = "set_with_size"
      BY <2>5 DEF SetWithSize, Appended
    <3> QED BY <3>1
  <2> QED BY <1>1, <2>2, <2>3, <2>4, <2>5 DEF Next
<1>2. IInv /\ [Next]_vars => [Exactly]_vars
  BY <1>1
<1> QED BY Initial, Inductive, <1>2, PTL DEF Spec, ParseExact

\* What is left of a buffer begins as an encoding does.
LEMMA CutStarts ==
  ASSUME NEW b \in Seq(Bytes), NEW s \in Seq(Bytes), NEW p \in 0..Len(s),
         NEW left, left = Len(s) - p, left < Len(b),
         SubSeq(s, p + 1, Len(s)) = SubSeq(b, 1, left)
  PROVE  Starts(b, s, p) /\ ~(Len(b) <= Len(s) - p)
<1>1. left \in Nat /\ p \in Nat /\ Len(s) \in Nat /\ Len(b) \in Nat /\ p <= Len(s)
  OBVIOUS
<1>2. \A i \in 1..left : SubSeq(s, p + 1, Len(s))[i] = s[p + i]
  BY <1>1, Stretch
<1>3. \A i \in 1..left : SubSeq(b, 1, left)[i] = b[i]
  BY <1>1
<1>4. ASSUME NEW i \in 1..Len(b), p + i <= Len(s) PROVE s[p + i] = b[i]
  <2>1. i \in 1..left
    BY <1>1, <1>4
  <2> QED BY <1>2, <1>3, <2>1
<1> QED BY <1>1, <1>4 DEF Starts

\* Data that could still become the encoding of a value that can be told from what follows it
\* is refused as insufficient_data, whatever the object that is read into held.
THEOREM TruncationReportedHolds == Spec => TruncationReported
<1> DEFINE Cutoff ==
      LET left == Len(buf) - pos
      IN  \E v \in C.plain :
              LET w == C.write[v][Default]
              IN  /\ w.err = "ok"
                  /\ left < Len(w.bytes)
                  /\ SubSeq(buf, pos + 1, Len(buf)) = SubSeq(w.bytes, 1, left)
<1> DEFINE Waits ==
      last'.op \in InPlaceOps /\ last'.n = Default =>
          LET left == Len(buf) - pos
          IN  (\E v \in C.plain :
                    LET w == C.write[v][Default]
                    IN  /\ w.err = "ok"
                        /\ left < Len(w.bytes) /\ SubSeq(buf, pos + 1, Len(buf)) = SubSeq(w.bytes, 1, left))
                 => last'.err = "insufficient_data"
<1>1. ASSUME IInv, Next PROVE Waits
  <2>1. /\ buf \in Seq(Bytes) /\ pos \in 0..Len(buf) /\ target \in C.values /\ Typed(C)
        /\ C.fresh \in C.values /\ Returns(C) /\ Forgets(C) /\ Plain(C) /\ Default \in Nat
    <3>1. /\ buf \in Seq(Bytes) /\ pos \in 0..Len(buf) /\ target \in C.values
          /\ type \in Types /\ type \in Universe /\ Typed(C)
          /\ C = Codec[type] /\ Made(type, PartsOf(type), C)
      BY <1>1, OurCodec DEF IInv, TypeOK
    <3>2. Plain(C)
      BY <3>1, MadePlain
    <3>3. Returns(C) /\ Forgets(C)
      BY <3>1, EveryReturns, EveryForgets
    <3>4. C.fresh \in C.values
      BY <3>1 DEF Typed
    <3> QED BY <3>1, <3>2, <3>3, <3>4, Numbers
  <2>2. PICK x : x = C.read[C.fresh][buf][pos][Default]
    OBVIOUS
  <2>3. ASSUME Cutoff PROVE x.err = "insufficient_data"
    <3>1. PICK v \in C.plain :
              LET w == C.write[v][Default]
              IN  /\ w.err = "ok"
                  /\ Len(buf) - pos < Len(w.bytes)
                  /\ SubSeq(buf, pos + 1, Len(buf)) = SubSeq(w.bytes, 1, Len(buf) - pos)
      BY <2>3
    <3>2. v \in C.values /\ Default \in C.fits[v][Default]
      BY <2>1 DEF Plain
    <3>3. PICK w : w = C.write[v][Default]
      OBVIOUS
    <3>4. w \in Written
      BY <2>1, <3>2, <3>3 DEF Typed
    <3>5. w.bytes \in Seq(Bytes)
      BY <3>4 DEF Written
    <3>6. PICK s, p : s = buf /\ p = pos
      OBVIOUS
    <3>7. /\ s \in Seq(Bytes) /\ p \in 0..Len(s) /\ w.err = "ok" /\ Len(s) - p < Len(w.bytes)
          /\ SubSeq(s, p + 1, Len(s)) = SubSeq(w.bytes, 1, Len(s) - p)
      BY <2>1, <3>1, <3>3, <3>6
    <3>8. Starts(w.bytes, s, p) /\ ~(Len(w.bytes) <= Len(s) - p)
      BY <3>5, <3>7, CutStarts
    <3>9. Returned(x, C.kept[v][Default], w.bytes, s, p)
      BY <2>1, <2>2, <3>2, <3>3, <3>6, <3>7, <3>8, PartReturns
    <3> QED BY <3>8, <3>9 DEF Returned
  <2>4. ASSUME NEW n \in Counts \cup {Default}, GetTo(n) PROVE Waits
    <3>1. PICK r : r = C.read[target][buf][pos][n]
      OBVIOUS
    <3>2. last'.err = r.err /\ last'.n = n
      BY <2>4, <3>1 DEF GetTo, InPlace
    <3>3. n = Default => r.err = x.err
      <4>1. Alike(C, Default, C.read[C.fresh][buf][pos][Default], C.read[target][buf][pos][Default])
        BY <2>1 DEF Forgets
      <4> QED BY <2>2, <3>1, <4>1 DEF Alike
    <3>4. last'.n = Default /\ Cutoff => last'.err = "insufficient_data"
      BY <2>3, <3>2, <3>3
    <3> QED BY <3>4
  <2>5. ASSUME NEW n \in Counts \cup {Default}, Get(n) \/ GetAtomic(n) PROVE Waits
    <3>1. PICK r : r = C.read[C.fresh][buf][pos][n]
      OBVIOUS
    <3>2. last'.err = r.err /\ last'.n = n
      BY <2>5, <3>1 DEF Get, GetAtomic, ViaNew
    <3>3. n = Default => r = x
      BY <2>2, <3>1
    <3>4. last'.n = Default /\ Cutoff => last'.err = "insufficient_data"
      BY <2>3, <3>2, <3>3
    <3> QED BY <3>4
  <2>6. ASSUME NEW n \in Counts \cup {Default}, Set(n) \/ SetAtomic(n) PROVE Waits
    <3>1. last'.op \in {"set", "set_atomic"}
      BY <2>6 DEF Set, SetAtomic, Appended
    <3> QED BY <3>1 DEF InPlaceOps
  <2>7. ASSUME NEW max \in Counts, GetToWithSize(max) \/ GetToWithSizeAtomic(max) PROVE Waits
    <3>1. last'.op \in {"get_to_with_size", "get_to_with_size_atomic"}
      BY <2>7 DEF GetToWithSize, GetToWithSizeAtomic, InPlace, ViaNew
    <3> QED BY <3>1 DEF InPlaceOps
  <2>8. ASSUME SetWithSize \/ Parse PROVE Waits
    <3>1. last'.op \in {"set_with_size", "parse"}
      BY <2>8 DEF SetWithSize, Appended, Parse
    <3> QED BY <3>1 DEF InPlaceOps
  <2> QED BY <1>1, <2>4, <2>5, <2>6, <2>7, <2>8 DEF Next
<1>2. IInv /\ [Next]_vars => [Waits]_vars
  BY <1>1
<1> QED BY Initial, Inductive, <1>2, PTL DEF Spec, TruncationReported

=============================================================================
