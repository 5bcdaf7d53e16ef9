---------------------------- MODULE StreamsProofs ----------------------------
(***************************************************************************)
(* Proofs about Streams, for any number of objects and any size: no read   *)
(* yields anything but bytes of the stream, moved from or not, and the     *)
(* objects are the independent values of StreamValues.                     *)
(***************************************************************************)
EXTENDS Streams, TLAPS

USE StreamsAssumption

\* An object given a whole new state.
LEMMA BecomesType ==
  ASSUME TypeOK, NEW s \in Objects, NEW b \in Bytes, NEW p \in 0..MaxSize, NEW e \in Endian,
         NEW st \in {"none", "known", "moved"}, st = "known" => p <= Len(b),
         Becomes(s, b, p, e, st), hand' \in Bytes
  PROVE  TypeOK'
<1>1. /\ buf' \in [Objects -> Bytes] /\ pos' \in [Objects -> 0..MaxSize]
      /\ endian' \in [Objects -> Endian] /\ state' \in [Objects -> {"none", "known", "moved"}]
  BY DEF Becomes, TypeOK
<1>2. ASSUME NEW r \in Objects, state'[r] = "known" PROVE pos'[r] <= Len(buf'[r])
  <2>1. CASE r = s
    BY <1>2, <2>1 DEF Becomes, TypeOK
  <2>2. CASE r # s
    BY <1>2, <2>2 DEF Becomes, TypeOK
  <2> QED BY <2>1, <2>2
<1> QED BY <1>1, <1>2 DEF TypeOK

LEMMA Empty == <<>> \in Bytes /\ Len(<<>>) = 0 /\ 0 \in 0..MaxSize
BY DEF Bytes

LEMMA Filled ==
  ASSUME NEW n \in Nat, NEW byte \in Byte
  PROVE  Fill(n, byte) \in Seq(Byte) /\ Len(Fill(n, byte)) = n
BY DEF Fill

\* What the type invariant says of one object.
LEMMA ObjectType ==
  ASSUME TypeOK, NEW s \in Objects
  PROVE  /\ buf[s] \in Seq(Byte) /\ Len(buf[s]) \in 0..MaxSize /\ buf[s] \in Bytes
         /\ pos[s] \in 0..MaxSize /\ endian[s] \in Endian
         /\ state[s] \in {"none", "known", "moved"}
         /\ state[s] = "known" => pos[s] <= Len(buf[s])
         /\ hand \in Seq(Byte) /\ Len(hand) \in 0..MaxSize
BY DEF TypeOK, Bytes

LEMMA JoinedType ==
  ASSUME NEW a \in Seq(Byte), NEW b \in Seq(Byte), Len(a) + Len(b) <= MaxSize
  PROVE  /\ a \o b \in Bytes /\ Len(a \o b) = Len(a) + Len(b) /\ Len(a) <= Len(a \o b)
BY DEF Bytes

\* What a resize leaves.
LEMMA ResizedType ==
  ASSUME NEW b \in Seq(Byte), NEW n \in 0..MaxSize, NEW byte \in Byte
  PROVE  LET r == IF n <= Len(b) THEN SubSeq(b, 1, n) ELSE b \o Fill(n - Len(b), byte)
         IN  r \in Bytes /\ Len(r) = n
<1>1. Len(b) \in Nat /\ n \in Nat
  OBVIOUS
<1>2. CASE n <= Len(b)
  <2>1. SubSeq(b, 1, n) \in Seq(Byte) /\ Len(SubSeq(b, 1, n)) = n
    BY <1>1, <1>2
  <2> QED BY <1>2, <2>1 DEF Bytes
<1>3. CASE n > Len(b)
  <2>1. n - Len(b) \in Nat
    BY <1>1, <1>3
  <2>2. Fill(n - Len(b), byte) \in Seq(Byte) /\ Len(Fill(n - Len(b), byte)) = n - Len(b)
    BY <2>1, Filled
  <2>3. b \o Fill(n - Len(b), byte) \in Seq(Byte) /\ Len(b \o Fill(n - Len(b), byte)) = n
    BY <1>1, <2>2
  <2>4. ~(n <= Len(b))
    BY <1>1, <1>3
  <2> QED BY <2>3, <2>4 DEF Bytes
<1> QED BY <1>1, <1>2, <1>3

\* A read stays inside the stream.
LEMMA GetInside ==
  ASSUME TypeOK, NEW s \in Objects, NEW n \in 1..MaxSize, Get(s, n)
  PROVE  /\ pos[s] + n <= Len(buf[s])
         /\ hand' = [k \in 1..n |-> buf[s][pos[s] + k]]
         /\ hand' \in Bytes
<1>1. /\ buf[s] \in Seq(Byte) /\ Len(buf[s]) \in Nat /\ pos[s] \in Nat /\ n \in Nat /\ n >= 1
      /\ n <= MaxSize /\ n <= Remaining(s)
  BY ObjectType DEF Get
<1>2. pos[s] + n <= Len(buf[s])
  BY <1>1 DEF Remaining
<1>3. \A k \in 1..n : pos[s] + k \in 1..Len(buf[s])
  BY <1>1, <1>2
<1>4. hand' = [k \in 1..n |-> buf[s][pos[s] + k]]
  BY <1>3 DEF Get, ByteAt
<1>5. hand' \in Seq(Byte) /\ Len(hand') = n
  <2>1. \A k \in 1..n : buf[s][pos[s] + k] \in Byte
    BY <1>1, <1>3
  <2> QED BY <1>1, <1>4, <2>1
<1> QED BY <1>1, <1>2, <1>4, <1>5 DEF Bytes

LEMMA InitType == Init => TypeOK
<1> SUFFICES ASSUME Init PROVE TypeOK
  OBVIOUS
<1>1. buf \in [Objects -> Bytes] /\ pos \in [Objects -> 0..MaxSize] /\ hand \in Bytes
  BY Empty DEF Init
<1> QED BY <1>1 DEF Init, TypeOK, Endian

LEMMA OneType == ASSUME TypeOK, NEW s \in Objects, OnOne(s) PROVE TypeOK'
<1>o. /\ buf[s] \in Seq(Byte) /\ Len(buf[s]) \in 0..MaxSize /\ buf[s] \in Bytes
      /\ pos[s] \in 0..MaxSize /\ endian[s] \in Endian
      /\ state[s] \in {"none", "known", "moved"}
      /\ state[s] = "known" => pos[s] <= Len(buf[s])
      /\ hand \in Seq(Byte) /\ Len(hand) \in 0..MaxSize
  BY ObjectType
<1>h. hand \in Bytes
  BY DEF TypeOK
<1>1. ASSUME NEW e \in Endian, Construct(s, e) PROVE TypeOK'
  BY <1>1, <1>h, Empty, BecomesType DEF Construct
<1>2. ASSUME NEW e \in Endian, SetEndian(s, e) PROVE TypeOK'
  BY <1>2 DEF SetEndian, TypeOK
<1>3. ASSUME NEW n \in 0..MaxSize, NEW byte \in Byte, ConstructFilled(s, n, byte) PROVE TypeOK'
  <2>1. Fill(n, byte) \in Bytes /\ "little" \in Endian /\ 0 <= Len(Fill(n, byte))
    BY Filled DEF Bytes, Endian
  <2> QED BY <1>3, <1>h, <2>1, Empty, BecomesType DEF ConstructFilled
<1>4. ASSUME NEW n \in 0..MaxSize, NEW byte \in Byte, Resize(s, n, byte) PROVE TypeOK'
  <2> DEFINE r == IF n <= Len(buf[s]) THEN SubSeq(buf[s], 1, n)
                                      ELSE buf[s] \o Fill(n - Len(buf[s]), byte)
  <2>1. r \in Bytes /\ Len(r) = n
    BY <1>o, ResizedType
  <2>2. PosAfterResize(s, n) \in 0..MaxSize /\ PosAfterResize(s, n) <= n
    BY <1>o DEF PosAfterResize
  <2>3. Becomes(s, r, PosAfterResize(s, n), endian[s], state[s]) /\ hand' \in Bytes
    BY <1>4, <1>h DEF Resize
  <2> HIDE DEF r
  <2> QED BY <1>o, <2>1, <2>2, <2>3, BecomesType
<1>5. ASSUME ConstructFrom(s) PROVE TypeOK'
  <2>1. hand' \in Bytes /\ "little" \in Endian /\ 0 <= Len(hand)
    BY <1>5, <1>h, <1>o, Empty DEF ConstructFrom, Endian
  <2> QED BY <1>5, <1>h, <2>1, Empty, BecomesType DEF ConstructFrom
<1>6. ASSUME Destroy(s) PROVE TypeOK'
  <2>1. "little" \in Endian
    BY DEF Endian
  <2> QED BY <1>6, <1>h, <2>1, Empty, BecomesType DEF Destroy
<1>7. ASSUME MoveToItself(s) PROVE TypeOK'
  <2>1. PICK b \in {buf[s], <<>>} : Becomes(s, b, pos[s], endian[s], "moved")
    BY <1>7 DEF MoveToItself
  <2>2. b \in Bytes /\ hand' \in Bytes
    BY <1>7, <1>o, <1>h, Empty DEF MoveToItself
  <2> QED BY <1>o, <2>1, <2>2, BecomesType
<1>8. ASSUME NEW b \in Seq(Byte), Appends(s, b) PROVE TypeOK'
  <2>1. buf[s] \o b \in Bytes /\ Len(buf[s]) <= Len(buf[s] \o b)
    BY <1>8, <1>o, JoinedType DEF Appends
  <2>2. state[s] = "known" => pos[s] <= Len(buf[s] \o b)
    BY <1>o, <2>1 DEF Bytes
  <2>3. Becomes(s, buf[s] \o b, pos[s], endian[s], state[s]) /\ hand' \in Bytes
    BY <1>8, <1>h DEF Appends
  <2> QED BY <1>o, <2>1, <2>2, <2>3, BecomesType
<1>9. ASSUME AppendArray(s) PROVE TypeOK'
  BY <1>8, <1>9, <1>o DEF AppendArray
<1>10. ASSUME NEW byte \in Byte, Set(s, byte) PROVE TypeOK'
  <2>1. <<byte>> \in Seq(Byte)
    OBVIOUS
  <2> QED BY <1>8, <1>10, <2>1 DEF Set
<1>11. ASSUME Clear(s) PROVE TypeOK'
  BY <1>11, <1>o, <1>h, Empty, BecomesType DEF Clear
<1>12. ASSUME TakeBuffer(s) PROVE TypeOK'
  BY <1>12, <1>o, Empty, BecomesType DEF TakeBuffer
<1>13. ASSUME NEW byte \in Byte, Assign(s, byte) PROVE TypeOK'
  <2>1. <<byte>> \in Bytes /\ 0 <= Len(<<byte>>)
    BY <1>13 DEF Assign, Bytes
  <2> QED BY <1>13, <1>o, <1>h, <2>1, Empty, BecomesType DEF Assign
<1>14. ASSUME NEW n \in 1..MaxSize, Get(s, n) PROVE TypeOK'
  <2>1. hand' \in Bytes /\ pos[s] + n <= Len(buf[s])
    BY <1>14, GetInside
  <2>2. pos[s] + n \in 0..MaxSize
    BY <1>o, <2>1
  <2>3. pos' \in [Objects -> 0..MaxSize]
    BY <1>14, <2>2 DEF Get, TypeOK
  <2>4. \A r \in Objects : state'[r] = "known" => pos'[r] <= Len(buf'[r])
    BY <1>14, <2>1 DEF Get, TypeOK
  <2> QED BY <1>14, <2>1, <2>3, <2>4 DEF Get, TypeOK
<1>15. ASSUME NEW p \in 0..MaxSize, Seek(s, p) PROVE TypeOK'
  BY <1>15 DEF Seek, TypeOK
<1> QED BY <1>1, <1>2, <1>3, <1>4, <1>5, <1>6, <1>7, <1>9, <1>10, <1>11, <1>12, <1>13, <1>14, <1>15
        DEF OnOne

LEMMA TwoType ==
  ASSUME TypeOK, NEW s \in Objects, NEW t \in Objects, OnTwo(s, t)
  PROVE  TypeOK'
<1>o. \A r \in Objects :
        /\ buf[r] \in Seq(Byte) /\ Len(buf[r]) \in 0..MaxSize /\ buf[r] \in Bytes
        /\ pos[r] \in 0..MaxSize /\ endian[r] \in Endian
        /\ state[r] \in {"none", "known", "moved"}
        /\ state[r] = "known" => pos[r] <= Len(buf[r])
  BY ObjectType
<1>h. hand \in Bytes
  BY DEF TypeOK
<1>1. CASE Copy(s, t)
  BY <1>1, <1>o, <1>h, BecomesType DEF Copy, CopiedPos
<1>2. CASE Move(s, t)
  <2>1. /\ buf' \in [Objects -> Bytes] /\ pos' \in [Objects -> 0..MaxSize]
        /\ endian' \in [Objects -> Endian] /\ state' \in [Objects -> {"none", "known", "moved"}]
    BY <1>2, Empty DEF Move, TypeOK
  <2>2. ASSUME NEW r \in Objects, state'[r] = "known" PROVE pos'[r] <= Len(buf'[r])
    <3>1. r # s
      BY <1>2, <2>2 DEF Move, TypeOK
    <3>2. CASE r = t
      BY <1>2, <2>2, <3>1, <3>2 DEF Move, TypeOK
    <3>3. CASE r # t
      BY <1>2, <2>2, <3>1, <3>3 DEF Move, TypeOK
    <3> QED BY <3>2, <3>3
  <2> QED BY <1>2, <1>h, <2>1, <2>2 DEF Move, TypeOK
<1>3. ASSUME Alive(s), Alive(t), Len(buf[s]) + Len(buf[t]) <= MaxSize
      PROVE  /\ buf[s] \o buf[t] \in Bytes /\ Mixed(s, t) \in {"none", "known", "moved"}
             /\ Mixed(s, t) = "known" => pos[s] <= Len(buf[s] \o buf[t])
  <2>1. buf[s] \o buf[t] \in Bytes /\ Len(buf[s]) <= Len(buf[s] \o buf[t])
    BY <1>3, <1>o, JoinedType
  <2>2. Mixed(s, t) = "known" => state[s] = "known"
    BY <1>3, <1>o DEF Mixed, Alive
  <2>3. PICK joined \in Nat, l \in Nat, p \in Nat :
           joined = Len(buf[s] \o buf[t]) /\ l = Len(buf[s]) /\ p = pos[s]
    <3>1. buf[s] \o buf[t] \in Seq(Byte) /\ pos[s] \in Nat /\ Len(buf[s]) \in Nat
      BY <2>1, <1>o DEF Bytes
    <3>2. \A q \in Seq(Byte) : Len(q) \in Nat
      OBVIOUS
    <3> QED BY <3>1, <3>2
  <2>4. Mixed(s, t) = "known" => pos[s] <= Len(buf[s] \o buf[t])
    <3>1. l <= joined /\ (state[s] = "known" => p <= l)
      BY <2>1, <2>3, <1>o
    <3>2. state[s] = "known" => p <= joined
      BY <3>1
    <3>3. state[s] = "known" => pos[s] <= Len(buf[s] \o buf[t])
      BY <2>3, <3>2
    <3> QED BY <2>2, <3>3
  <2> QED BY <2>1, <2>4 DEF Mixed
<1>4. CASE AppendStream(s, t)
  <2>1. /\ Alive(s) /\ Alive(t) /\ Len(buf[s]) + Len(buf[t]) <= MaxSize
        /\ Becomes(s, buf[s] \o buf[t], pos[s], endian[s], Mixed(s, t)) /\ hand' \in Bytes
    BY <1>4, <1>h DEF AppendStream
  <2> QED BY <1>3, <1>o, <2>1, BecomesType
<1>5. ASSUME NEW u \in Objects, Plus(s, t, u) PROVE TypeOK'
  <2>1. /\ Alive(s) /\ Alive(t) /\ Len(buf[s]) + Len(buf[t]) <= MaxSize
        /\ Becomes(u, buf[s] \o buf[t], pos[s], endian[s], Mixed(s, t)) /\ hand' \in Bytes
    BY <1>5, <1>h DEF Plus
  <2> QED BY <1>3, <1>o, <2>1, BecomesType
<1> QED BY <1>1, <1>2, <1>4, <1>5 DEF OnTwo

LEMMA StepType == TypeOK /\ [Next]_vars => TypeOK'
<1>1. ASSUME TypeOK, Next PROVE TypeOK'
  BY <1>1, OneType, TwoType DEF Next
<1>2. ASSUME TypeOK, UNCHANGED vars PROVE TypeOK'
  BY <1>2 DEF vars, TypeOK
<1> QED BY <1>1, <1>2

\* For any objects and sizes: whatever is called on a stream that was moved
\* from, no read yields anything but bytes of a stream, and the position of
\* every other stream stays inside.
THEOREM TypeCorrect == Spec => []TypeOK
BY InitType, StepType, PTL DEF Spec

----------------------------------------------------------------------------
(* Streams implements StreamValues.                                        *)

\* The value of an object given a whole new state.
LEMMA BecomesValue ==
  ASSUME TypeOK, NEW s \in Objects, NEW b, NEW p, NEW e, NEW st, Becomes(s, b, p, e, st)
  PROVE  value' = [value EXCEPT ![s] = View(st, b, p, e)]
<1>1. \A r \in Objects : View(state'[r], buf'[r], pos'[r], endian'[r]) =
         IF r = s THEN View(st, b, p, e) ELSE View(state[r], buf[r], pos[r], endian[r])
  <2> SUFFICES ASSUME NEW r \in Objects
               PROVE  View(state'[r], buf'[r], pos'[r], endian'[r]) =
                        IF r = s THEN View(st, b, p, e)
                                 ELSE View(state[r], buf[r], pos[r], endian[r])
    OBVIOUS
  <2>1. CASE r = s
    <3>1. state'[r] = st /\ buf'[r] = b /\ pos'[r] = p /\ endian'[r] = e
      BY <2>1 DEF Becomes, TypeOK
    <3> QED BY <2>1, <3>1
  <2>2. CASE r # s
    <3>1. state'[r] = state[r] /\ buf'[r] = buf[r] /\ pos'[r] = pos[r] /\ endian'[r] = endian[r]
      BY <2>2 DEF Becomes, TypeOK
    <3> QED BY <2>2, <3>1
  <2> QED BY <2>1, <2>2
<1>2. value' = [r \in Objects |-> View(state'[r], buf'[r], pos'[r], endian'[r])]
  BY DEF value, View
<1> QED BY <1>1, <1>2 DEF value

\* What the value of one object is.
LEMMA Seen ==
  ASSUME TypeOK, NEW s \in Objects
  PROVE  /\ state[s] = "known" =>
               /\ value[s] = Contract!Known(buf[s], pos[s], endian[s])
               /\ value[s].is = "known" /\ value[s].bytes = buf[s]
               /\ value[s].at = pos[s] /\ value[s].order = endian[s]
         /\ state[s] = "moved" => value[s] = Contract!Unspecified /\ value[s].is = "unspecified"
         /\ state[s] = "none" => value[s] = Contract!None /\ value[s].is = "none"
         /\ Contract!IsKnown(s) <=> state[s] = "known"
         /\ Contract!Alive(s) <=> Alive(s)
         /\ state[s] \in {"none", "known", "moved"}
<1>1. value[s] = View(state[s], buf[s], pos[s], endian[s]) /\ state[s] \in {"none", "known", "moved"}
  BY DEF value, TypeOK
<1>2. CASE state[s] = "known"
  BY <1>1, <1>2 DEF View, Contract!Known, Contract!IsKnown, Contract!Alive, Contract!None, Alive
<1>3. CASE state[s] = "moved"
  BY <1>1, <1>3 DEF View, Contract!Unspecified, Contract!IsKnown, Contract!Alive, Contract!None, Alive
<1>4. CASE state[s] = "none"
  BY <1>1, <1>4 DEF View, Contract!IsKnown, Contract!Alive, Contract!None, Alive
<1> QED BY <1>1, <1>2, <1>3, <1>4

LEMMA Views ==
  ASSUME NEW b, NEW p, NEW e
  PROVE  /\ View("known", b, p, e) = Contract!Known(b, p, e)
         /\ View("moved", b, p, e) = Contract!Unspecified
         /\ View("none", b, p, e) = Contract!None
BY DEF View, Contract!Known, Contract!Unspecified, Contract!None

Stutters == value' = value /\ hand' = hand

\* Nothing shows on an object that was moved from.
LEMMA StaysUnspecified ==
  ASSUME TypeOK, NEW s \in Objects, state[s] = "moved", NEW b, NEW p, NEW e,
         Becomes(s, b, p, e, "moved")
  PROVE  value' = value
<1>1. value' = [value EXCEPT ![s] = Contract!Unspecified]
  BY BecomesValue, Views
<1>2. value[s] = Contract!Unspecified
  BY Seen
<1>3. value = [value EXCEPT ![s] = value[s]]
  BY DEF value
<1> QED BY <1>1, <1>2, <1>3

\* The operations that change some members only.
LEMMA PartlyBecomes ==
  ASSUME TypeOK, NEW s \in Objects
  PROVE  /\ \A p : Seek(s, p) => Becomes(s, buf[s], p, endian[s], state[s])
         /\ \A e : SetEndian(s, e) => Becomes(s, buf[s], pos[s], e, state[s])
         /\ \A n : Get(s, n) => Becomes(s, buf[s], pos[s] + n, endian[s], state[s])
BY DEF Seek, SetEndian, Get, Becomes, TypeOK

LEMMA OneStep ==
  ASSUME TypeOK, NEW s \in Objects, OnOne(s)
  PROVE  Contract!ValueNext \/ Stutters
<1>o. /\ buf[s] \in Seq(Byte) /\ Len(buf[s]) \in 0..MaxSize
      /\ pos[s] \in 0..MaxSize /\ endian[s] \in Endian
      /\ state[s] = "known" => pos[s] <= Len(buf[s])
      /\ hand \in Seq(Byte) /\ Len(hand) \in 0..MaxSize
  BY ObjectType
<1>v. /\ state[s] = "known" =>
           /\ value[s] = Contract!Known(buf[s], pos[s], endian[s])
           /\ value[s].is = "known" /\ value[s].bytes = buf[s]
           /\ value[s].at = pos[s] /\ value[s].order = endian[s]
      /\ state[s] = "moved" => value[s] = Contract!Unspecified
      /\ Contract!IsKnown(s) <=> state[s] = "known"
      /\ Contract!Alive(s) <=> Alive(s)
      /\ state[s] \in {"none", "known", "moved"}
  BY Seen
<1>k. /\ Alive(s) => state[s] = "known" \/ state[s] = "moved"
      /\ Endian = Contract!Order /\ "little" \in Contract!Order
  BY <1>v DEF Alive, Endian, Contract!Order
<1>z. <<>> \in Contract!Runs
  BY DEF Contract!Runs
<1>r. \A n \in 0..MaxSize, byte \in Byte : Fill(n, byte) \in Contract!Runs
  <2> SUFFICES ASSUME NEW n \in 0..MaxSize, NEW byte \in Byte PROVE Fill(n, byte) \in Contract!Runs
    OBVIOUS
  <2>1. CASE n = 0
    <3>1. Fill(n, byte) = <<>>
      BY <2>1 DEF Fill
    <3> QED BY <3>1, <1>z
  <2>2. CASE n # 0
    <3>1. n \in 1..MaxSize
      BY <2>2
    <3> QED BY <3>1 DEF Fill, Contract!Runs, Contract!Run
  <2> QED BY <2>1, <2>2
<1>e. \A byte \in Byte : MaxSize >= 1 => <<byte>> \in Contract!Runs
  <2> SUFFICES ASSUME NEW byte \in Byte, MaxSize >= 1 PROVE <<byte>> \in Contract!Runs
    OBVIOUS
  <2>1. Fill(1, byte) = <<byte>> /\ 1 \in 0..MaxSize
    BY DEF Fill
  <2> QED BY <1>r, <2>1
<1>n. ASSUME Contract!Born(s) \/ Contract!Dies(s) \/ Contract!Restarts(s) \/ Contract!IsTaken(s)
             \/ Contract!Grows(s) \/ Contract!Shrinks(s) \/ Contract!Reads(s) \/ Contract!Seeks(s)
             \/ Contract!Turns(s) \/ Contract!ReadsAnything(s) \/ Contract!MovesTo(s, s)
      PROVE  Contract!ValueNext
  BY <1>n DEF Contract!ValueNext
<1>b. ASSUME NEW bytes \in {hand} \cup Contract!Runs, NEW e \in Endian, ~Alive(s),
             Becomes(s, bytes, 0, e, "known"), hand' \in {hand, <<>>}
      PROVE  Contract!ValueNext
  <2>1. value' = [value EXCEPT ![s] = Contract!Known(bytes, 0, e)]
    BY <1>b, BecomesValue, Views
  <2>2. Contract!Born(s)
    BY <1>b, <1>v, <1>k, <2>1 DEF Contract!Born, Contract!Gives
  <2> QED BY <1>n, <2>2
<1>1. ASSUME NEW e \in Endian, Construct(s, e) PROVE Contract!ValueNext
  BY <1>1, <1>b, <1>z DEF Construct
<1>2. ASSUME NEW n \in 0..MaxSize, NEW byte \in Byte, ConstructFilled(s, n, byte)
      PROVE  Contract!ValueNext
  BY <1>2, <1>b, <1>r DEF ConstructFilled, Endian
<1>3. ASSUME ConstructFrom(s) PROVE Contract!ValueNext
  BY <1>3, <1>b DEF ConstructFrom, Endian
<1>4. ASSUME Destroy(s) PROVE Contract!ValueNext
  <2>1. value' = [value EXCEPT ![s] = Contract!None]
    BY <1>4, BecomesValue, Views DEF Destroy
  <2>2. Contract!Dies(s)
    BY <1>4, <1>v, <2>1 DEF Contract!Dies, Contract!Gives, Destroy
  <2> QED BY <1>n, <2>2
<1>5. ASSUME MoveToItself(s) PROVE Contract!ValueNext
  <2>1. PICK b \in {buf[s], <<>>} : Becomes(s, b, pos[s], endian[s], "moved")
    BY <1>5 DEF MoveToItself
  <2>2. value' = [value EXCEPT ![s] = Contract!Unspecified]
    BY <2>1, BecomesValue, Views
  <2>3. [[value EXCEPT ![s] = value[s]] EXCEPT ![s] = Contract!Unspecified]
          = [value EXCEPT ![s] = Contract!Unspecified]
    BY DEF value
  <2>4. Contract!MovesTo(s, s)
    BY <1>5, <1>v, <2>2, <2>3 DEF Contract!MovesTo, MoveToItself
  <2> QED BY <1>n, <2>4
<1>6. ASSUME NEW bytes \in Contract!Runs, Alive(s), Becomes(s, bytes, 0, endian[s], "known"),
             hand' = hand
      PROVE  Contract!ValueNext
  <2>1. value' = [value EXCEPT ![s] = Contract!Known(bytes, 0, endian[s])]
    BY <1>6, BecomesValue, Views
  <2>2. Contract!Restarts(s)
    BY <1>6, <1>o, <1>v, <1>k, <2>1 DEF Contract!Restarts, Contract!Gives
  <2> QED BY <1>n, <2>2
<1>7. ASSUME Clear(s) PROVE Contract!ValueNext
  BY <1>7, <1>6, <1>z DEF Clear
<1>8. ASSUME NEW byte \in Byte, Assign(s, byte) PROVE Contract!ValueNext
  BY <1>8, <1>6, <1>e DEF Assign
<1>9. ASSUME TakeBuffer(s) PROVE Contract!ValueNext
  <2>1. value' = [value EXCEPT ![s] = Contract!Known(<<>>, 0, endian[s])]
    BY <1>9, BecomesValue, Views DEF TakeBuffer
  <2>2. Contract!IsTaken(s)
    BY <1>9, <1>o, <1>v, <1>k, <2>1 DEF Contract!IsTaken, Contract!Gives, TakeBuffer
  <2> QED BY <1>n, <2>2
<1>10. ASSUME NEW bytes \in {hand} \cup Contract!Runs, Appends(s, bytes)
       PROVE  Contract!ValueNext \/ Stutters
  <2>1. /\ Alive(s) /\ Becomes(s, buf[s] \o bytes, pos[s], endian[s], state[s]) /\ hand' = hand
    BY <1>10 DEF Appends
  <2>2. CASE state[s] = "known"
    <3>1. value' = [value EXCEPT ![s] = Contract!Known(buf[s] \o bytes, pos[s], endian[s])]
      BY <2>1, <2>2, BecomesValue, Views
    <3>2. Contract!Grows(s)
      BY <1>v, <2>1, <2>2, <3>1 DEF Contract!Grows, Contract!Gives
    <3> QED BY <1>n, <3>2
  <2>3. CASE state[s] = "moved"
    BY <2>1, <2>3, StaysUnspecified DEF Stutters
  <2> QED BY <1>k, <2>1, <2>2, <2>3
<1>11. ASSUME AppendArray(s) PROVE Contract!ValueNext \/ Stutters
  BY <1>10, <1>11 DEF AppendArray
<1>12. ASSUME NEW byte \in Byte, Set(s, byte) PROVE Contract!ValueNext \/ Stutters
  <2>1. MaxSize >= 1
    BY <1>12, <1>o DEF Set, Appends
  <2> QED BY <1>10, <1>12, <1>e, <2>1 DEF Set
<1>13. ASSUME NEW n \in 0..MaxSize, NEW byte \in Byte, Resize(s, n, byte)
       PROVE  Contract!ValueNext \/ Stutters
  <2> DEFINE r == IF n <= Len(buf[s]) THEN SubSeq(buf[s], 1, n)
                                      ELSE buf[s] \o Fill(n - Len(buf[s]), byte)
  <2>1. Becomes(s, r, PosAfterResize(s, n), endian[s], state[s]) /\ hand' = hand /\ Alive(s)
    BY <1>13 DEF Resize
  <2>2. CASE state[s] = "moved"
    BY <2>1, <2>2, StaysUnspecified DEF Stutters
  <2>3. CASE state[s] = "known" /\ n <= Len(buf[s])
    <3>1. r = SubSeq(buf[s], 1, n) /\ n \in 0..Len(buf[s])
      BY <1>o, <2>3
    <3>2. PosAfterResize(s, n) = IF pos[s] <= n THEN pos[s] ELSE n
      BY <1>o DEF PosAfterResize
    <3>3. value' = [value EXCEPT ![s] = Contract!Known(SubSeq(buf[s], 1, n), PosAfterResize(s, n),
                                                       endian[s])]
      BY <2>1, <2>3, <3>1, BecomesValue, Views
    <3>4. Contract!Shrinks(s)
      BY <1>v, <2>1, <2>3, <3>1, <3>2, <3>3 DEF Contract!Shrinks, Contract!Gives
    <3> QED BY <1>n, <3>4
  <2>4. CASE state[s] = "known" /\ ~(n <= Len(buf[s]))
    <3>1. n - Len(buf[s]) \in 0..MaxSize
      BY <1>o, <2>4
    <3>2. Fill(n - Len(buf[s]), byte) \in Contract!Runs
      BY <1>r, <3>1
    <3>3. PosAfterResize(s, n) = pos[s]
      BY <1>o, <2>4 DEF PosAfterResize
    <3>4. r = buf[s] \o Fill(n - Len(buf[s]), byte)
      BY <2>4
    <3>5. value' = [value EXCEPT ![s] = Contract!Known(buf[s] \o Fill(n - Len(buf[s]), byte), pos[s],
                                                       endian[s])]
      BY <2>1, <2>4, <3>3, <3>4, BecomesValue, Views
    <3>6. Contract!Grows(s)
      BY <1>v, <2>1, <2>4, <3>2, <3>5 DEF Contract!Grows, Contract!Gives
    <3> QED BY <1>n, <3>6
  <2> QED BY <1>k, <2>1, <2>2, <2>3, <2>4
<1>14. ASSUME NEW p \in 0..MaxSize, Seek(s, p) PROVE Contract!ValueNext \/ Stutters
  <2>1. Becomes(s, buf[s], p, endian[s], state[s]) /\ hand' = hand /\ Alive(s) /\ p \in 0..Len(buf[s])
    <3>1. p <= Len(buf[s]) /\ hand' = hand /\ Alive(s)
      BY <1>14 DEF Seek
    <3>2. Becomes(s, buf[s], p, endian[s], state[s])
      BY <1>14, PartlyBecomes
    <3>3. p \in 0..Len(buf[s])
      BY <1>o, <3>1
    <3> QED BY <3>1, <3>2, <3>3
  <2>2. CASE state[s] = "known"
    <3>1. value' = [value EXCEPT ![s] = Contract!Known(buf[s], p, endian[s])]
      BY <2>1, <2>2, BecomesValue, Views
    <3>2. Contract!Seeks(s)
      BY <1>v, <2>1, <2>2, <3>1 DEF Contract!Seeks, Contract!Gives
    <3> QED BY <1>n, <3>2
  <2>3. CASE state[s] = "moved"
    BY <2>1, <2>3, StaysUnspecified DEF Stutters
  <2> QED BY <1>k, <2>1, <2>2, <2>3
<1>15. ASSUME NEW e \in Endian, SetEndian(s, e) PROVE Contract!ValueNext \/ Stutters
  <2>1. Becomes(s, buf[s], pos[s], e, state[s]) /\ hand' = hand /\ Alive(s)
    BY <1>15, PartlyBecomes DEF SetEndian
  <2>2. CASE state[s] = "known"
    <3>1. value' = [value EXCEPT ![s] = Contract!Known(buf[s], pos[s], e)]
      BY <2>1, <2>2, BecomesValue, Views
    <3>2. Contract!Turns(s)
      BY <1>k, <1>v, <2>1, <2>2, <3>1 DEF Contract!Turns, Contract!Gives
    <3> QED BY <1>n, <3>2
  <2>3. CASE state[s] = "moved"
    BY <2>1, <2>3, StaysUnspecified DEF Stutters
  <2> QED BY <1>k, <2>1, <2>2, <2>3
<1>16. ASSUME NEW n \in 1..MaxSize, Get(s, n) PROVE Contract!ValueNext
  <2>1. /\ Becomes(s, buf[s], pos[s] + n, endian[s], state[s]) /\ Alive(s)
        /\ pos[s] + n <= Len(buf[s]) /\ hand' = [k \in 1..n |-> buf[s][pos[s] + k]] /\ hand' \in Seq(Byte)
    <3>1. Becomes(s, buf[s], pos[s] + n, endian[s], state[s])
      BY <1>16, PartlyBecomes
    <3> QED BY <1>16, <3>1, GetInside DEF Get, Bytes
  <2>2. CASE state[s] = "known"
    <3>1. value' = [value EXCEPT ![s] = Contract!Known(buf[s], pos[s] + n, endian[s])]
      BY <2>1, <2>2, BecomesValue, Views
    <3>2. n \in 1..(Len(buf[s]) - pos[s])
      BY <1>o, <2>1
    <3>3. Contract!Reads(s)
      BY <1>v, <2>1, <2>2, <3>1, <3>2 DEF Contract!Reads, Contract!Gives
    <3> QED BY <1>n, <3>3
  <2>3. CASE state[s] = "moved"
    <3>1. value' = value
      BY <2>1, <2>3, StaysUnspecified
    <3>2. Contract!ReadsAnything(s)
      BY <1>v, <2>1, <2>3, <3>1 DEF Contract!ReadsAnything
    <3> QED BY <1>n, <3>2
  <2> QED BY <1>k, <2>1, <2>2, <2>3
<1> QED BY <1>1, <1>2, <1>3, <1>4, <1>5, <1>7, <1>8, <1>9, <1>11, <1>12, <1>13, <1>14, <1>15, <1>16
        DEF OnOne

LEMMA TwoStep ==
  ASSUME TypeOK, NEW s \in Objects, NEW t \in Objects, OnTwo(s, t)
  PROVE  Contract!ValueNext
<1>v. \A r \in Objects :
      /\ state[r] = "known" =>
           /\ value[r] = Contract!Known(buf[r], pos[r], endian[r])
           /\ value[r].bytes = buf[r] /\ value[r].at = pos[r] /\ value[r].order = endian[r]
      /\ state[r] = "moved" => value[r] = Contract!Unspecified
      /\ Contract!IsKnown(r) <=> state[r] = "known"
      /\ Contract!Alive(r) <=> Alive(r)
      /\ state[r] \in {"none", "known", "moved"}
      /\ value[r] = View(state[r], buf[r], pos[r], endian[r])
  BY Seen DEF value
<1>1. CASE Copy(s, t)
  <2>1. value' = [value EXCEPT ![t] = View(state[s], buf[s], pos[s], endian[s])]
    BY <1>1, BecomesValue DEF Copy, CopiedPos
  <2>2. Contract!Copies(s, t)
    BY <1>1, <1>v, <2>1 DEF Copy, Contract!Copies, Contract!Gives
  <2> QED BY <2>2 DEF Contract!ValueNext
<1>2. CASE Move(s, t)
  <2>1. \A r \in Objects : View(state'[r], buf'[r], pos'[r], endian'[r]) =
           IF r = s THEN Contract!Unspecified ELSE IF r = t THEN value[s] ELSE value[r]
    <3> SUFFICES ASSUME NEW r \in Objects
                 PROVE  View(state'[r], buf'[r], pos'[r], endian'[r]) =
                          IF r = s THEN Contract!Unspecified ELSE IF r = t THEN value[s] ELSE value[r]
      OBVIOUS
    <3>1. CASE r = s
      <4>1. state'[r] = "moved"
        BY <1>2, <3>1 DEF Move, TypeOK
      <4> QED BY <3>1, <4>1, Views
    <3>2. CASE r # s /\ r = t
      <4>1. state'[r] = state[s] /\ buf'[r] = buf[s] /\ pos'[r] = pos[s] /\ endian'[r] = endian[s]
        BY <1>2, <3>2 DEF Move, TypeOK
      <4> QED BY <3>2, <4>1, <1>v
    <3>3. CASE r # s /\ r # t
      <4>1. state'[r] = state[r] /\ buf'[r] = buf[r] /\ pos'[r] = pos[r] /\ endian'[r] = endian[r]
        BY <1>2, <3>3 DEF Move, TypeOK
      <4> QED BY <3>3, <4>1, <1>v
    <3> QED BY <3>1, <3>2, <3>3
  <2>2. value' = [r \in Objects |-> View(state'[r], buf'[r], pos'[r], endian'[r])]
    BY DEF value, View
  <2>3. value' = [[value EXCEPT ![t] = value[s]] EXCEPT ![s] = Contract!Unspecified]
    BY <2>1, <2>2 DEF value
  <2>4. Contract!MovesTo(s, t)
    BY <1>2, <1>v, <2>3 DEF Move, Contract!MovesTo
  <2> QED BY <2>4 DEF Contract!ValueNext
<1>3. ASSUME NEW u \in Objects, Alive(s), Alive(t), hand' = hand,
             Becomes(u, buf[s] \o buf[t], pos[s], endian[s], Mixed(s, t))
      PROVE  Contract!ValueNext
  <2>1. value' = [value EXCEPT ![u] = View(Mixed(s, t), buf[s] \o buf[t], pos[s], endian[s])]
    BY <1>3, BecomesValue
  <2>2. View(Mixed(s, t), buf[s] \o buf[t], pos[s], endian[s]) = Contract!SumOf(s, t)
    <3>1. CASE state[s] = "known" /\ state[t] = "known"
      BY <3>1, <1>v, Views DEF Mixed, Contract!SumOf
    <3>2. CASE state[s] = "moved" \/ state[t] = "moved"
      BY <3>2, <1>v, Views DEF Mixed, Contract!SumOf
    <3> QED BY <1>3, <1>v, <3>1, <3>2 DEF Alive
  <2>3. Contract!Sums(s, t, u)
    BY <1>3, <1>v, <2>1, <2>2 DEF Contract!Sums, Contract!Gives
  <2> QED BY <2>3 DEF Contract!ValueNext
<1>4. CASE AppendStream(s, t)
  BY <1>3, <1>4 DEF AppendStream
<1>5. ASSUME NEW u \in Objects, Plus(s, t, u) PROVE Contract!ValueNext
  BY <1>3, <1>5 DEF Plus
<1> QED BY <1>1, <1>2, <1>4, <1>5 DEF OnTwo

LEMMA RefineInit == Init => Contract!ValueInit
BY DEF Init, Contract!ValueInit, value, View, Contract!None

LEMMA RefineStep == TypeOK /\ [Next]_vars => [Contract!ValueNext]_(Contract!valueVars)
<1>1. ASSUME TypeOK, Next PROVE Contract!ValueNext \/ Stutters
  BY <1>1, OneStep, TwoStep DEF Next
<1>2. ASSUME UNCHANGED vars PROVE Stutters
  BY <1>2 DEF vars, Stutters, value
<1> QED BY <1>1, <1>2 DEF Stutters, Contract!valueVars

\* For any objects and sizes, stream objects are independent values: copies
\* are equal, moves hand over, and only what was moved from is unspecified.
THEOREM Refinement == Spec => ContractSpec
<1>1. Init => Contract!ValueInit
  BY RefineInit
<1>2. TypeOK /\ [Next]_vars => [Contract!ValueNext]_(Contract!valueVars)
  BY RefineStep
<1> QED BY <1>1, <1>2, TypeCorrect, PTL DEF Spec, ContractSpec, Contract!ValueSpec

=============================================================================
