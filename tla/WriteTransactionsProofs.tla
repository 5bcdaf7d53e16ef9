---------------------- MODULE WriteTransactionsProofs ----------------------
(***************************************************************************)
(* Proofs about WriteTransactions, for any bytes, sizes and nesting: no    *)
(* call damages the prefix an enclosing call counts on, and so a rollback  *)
(* by size alone restores the bytes; and the outermost call keeps the      *)
(* promise of WriteContract.                                               *)
(***************************************************************************)
EXTENDS WriteTransactions, SequenceTheorems, TLAPS

USE WriteAssumption

\* Two frames stand for the same call.
SameCall(f, g) == f.api = g.api /\ f.at = g.at

\* A stack with the same calls as the present one.
SameStack(st) == /\ st \in Seq(Frame)
                 /\ Len(st) = Depth
                 /\ \A i \in 1..Depth : SameCall(st[i], stack[i])

---------------------------------------------------------------------------
(* Byte sequences and the stack.                                           *)

LEMMA ExtendsItself == ASSUME NEW a \in Seq(Byte) PROVE Extends(a, a)
BY DEF Extends

LEMMA ExtendsTransitive ==
  ASSUME NEW a \in Seq(Byte), NEW b \in Seq(Byte), NEW c \in Seq(Byte),
         Extends(b, a), Extends(c, b)
  PROVE  Extends(c, a)
BY DEF Extends

\* Bytes appended at the end leave what was there as a prefix.
LEMMA ExtendsOne ==
  ASSUME NEW a \in Seq(Byte), NEW x \in Byte
  PROVE  /\ Append(a, x) \in Seq(Byte)
         /\ Len(Append(a, x)) = Len(a) + 1
         /\ Extends(Append(a, x), a)
<1>1. /\ Append(a, x) \in Seq(Byte) /\ Len(Append(a, x)) = Len(a) + 1
      /\ \A i \in 1..Len(a) : Append(a, x)[i] = a[i]
  OBVIOUS
<1> QED BY <1>1 DEF Extends

LEMMA ExtendsMany ==
  ASSUME NEW a \in Seq(Byte), NEW b \in Seq(Byte)
  PROVE  /\ a \o b \in Seq(Byte)
         /\ Len(a \o b) = Len(a) + Len(b)
         /\ Extends(a \o b, a)
<1>1. /\ a \o b \in Seq(Byte) /\ Len(a \o b) = Len(a) + Len(b)
      /\ \A i \in 1..(Len(a) + Len(b)) :
           (a \o b)[i] = IF i <= Len(a) THEN a[i] ELSE b[i - Len(a)]
  BY ConcatProperties
<1>2. Len(a) \in Nat /\ Len(b) \in Nat
  OBVIOUS
<1>3. \A i \in 1..Len(a) : (a \o b)[i] = a[i]
  BY <1>1, <1>2
<1> QED BY <1>1, <1>2, <1>3 DEF Extends

\* What resize does to the bytes.
LEMMA ResizedBytes ==
  ASSUME buf \in Seq(Byte), NEW k \in Nat, NEW v \in Byte
  PROVE  /\ Resized(k, v) \in Seq(Byte)
         /\ Len(Resized(k, v)) = k
         /\ \A i \in 1..k : i <= Len(buf) => Resized(k, v)[i] = buf[i]
<1>1. \A i \in 1..k : (IF i <= Len(buf) THEN buf[i] ELSE v) \in Byte
  OBVIOUS
<1>2. Resized(k, v) \in [1..k -> Byte]
  BY <1>1 DEF Resized
<1>3. Resized(k, v) \in Seq(Byte)
  BY <1>2, SeqDef
<1>4. Len(Resized(k, v)) = k
  BY <1>2, <1>3
<1> QED BY <1>3, <1>4 DEF Resized

\* Resizing back to the length of an intact prefix leaves that prefix.
LEMMA ResizedToPrefix ==
  ASSUME buf \in Seq(Byte), NEW a \in Seq(Byte), Extends(buf, a)
  PROVE  Resized(Len(a), 0) = a
<1>1. Len(a) \in Nat /\ 0 \in Byte /\ Len(a) <= Len(buf)
  BY DEF Byte, Extends
<1>2. /\ Resized(Len(a), 0) \in Seq(Byte) /\ Len(Resized(Len(a), 0)) = Len(a)
      /\ \A i \in 1..Len(a) : i <= Len(buf) => Resized(Len(a), 0)[i] = buf[i]
  BY <1>1, ResizedBytes
<1>3. \A i \in 1..Len(a) : Resized(Len(a), 0)[i] = a[i]
  <2>1. Len(buf) \in Nat
    OBVIOUS
  <2> QED BY <1>1, <1>2, <2>1 DEF Extends
<1> QED BY <1>2, <1>3, SeqEqual

LEMMA TopFrame ==
  ASSUME stack \in Seq(Frame), stack # <<>>
  PROVE  /\ Depth \in Nat \ {0} /\ Depth \in 1..Depth
         /\ Top \in Frame /\ Top = stack[Depth] /\ Top.at \in Seq(Byte)
<1>1. Depth \in Nat \ {0} /\ stack[Depth] \in Frame
  BY EmptySeq DEF Depth
<1> QED BY <1>1 DEF Top, Frame

LEMMA BelowStack ==
  ASSUME stack \in Seq(Frame), stack # <<>>
  PROVE  /\ Below \in Seq(Frame)
         /\ Len(Below) = Depth - 1
         /\ \A i \in 1..(Depth - 1) : Below[i] = stack[i]
<1>1. Depth \in Nat \ {0} /\ Depth - 1 \in Nat /\ \A i \in 1..(Depth - 1) : stack[i] \in Frame
  BY TopFrame DEF Depth
<1>2. Below \in [1..(Depth - 1) -> Frame]
  BY <1>1 DEF Below
<1>3. Below \in Seq(Frame)
  BY <1>1, <1>2, SeqDef
<1> QED BY <1>1, <1>2, <1>3 DEF Below

LEMMA FramesTyped ==
  ASSUME TypeOK
  PROVE  \A i \in 1..Depth : stack[i] \in Frame /\ stack[i].at \in Seq(Byte)
<1> SUFFICES ASSUME NEW i \in 1..Depth PROVE stack[i] \in Frame
  BY DEF Frame
<1> QED BY ElementOfSeq DEF TypeOK, Depth

\* The library's own stages leave the calls on the stack what they are.
LEMMA StagedStack ==
  ASSUME stack \in Seq(Frame), stack # <<>>,
         NEW g \in Frame, SameCall(g, Top)
  PROVE  SameStack([stack EXCEPT ![Depth] = g])
<1>1. /\ Depth \in 1..Len(stack) /\ Depth = Len(stack) /\ Top = stack[Depth]
  BY TopFrame DEF Depth
<1>2. /\ [stack EXCEPT ![Depth] = g] \in Seq(Frame)
      /\ Len([stack EXCEPT ![Depth] = g]) = Len(stack)
      /\ \A j \in 1..Len(stack) :
            [stack EXCEPT ![Depth] = g][j] = IF j = Depth THEN g ELSE stack[j]
  BY <1>1, ExceptSeq
<1> QED BY <1>1, <1>2 DEF SameStack, SameCall

LEMMA SameStackItself == ASSUME stack \in Seq(Frame) PROVE SameStack(stack)
BY DEF SameStack, SameCall, Depth

---------------------------------------------------------------------------
(* What the steps do to the invariant.                                     *)

\* With the same calls in progress the buffer may grow.
LEMMA GrowInv ==
  ASSUME IInv, SameStack(stack'), buf' \in Seq(Byte), Len(buf') <= MaxSize,
         Extends(buf', buf), pos' = pos, raised' \in BOOLEAN
  PROVE  IInv'
<1>1. TypeOK /\ Depth' = Depth /\ Depth \in Nat
  BY DEF IInv, TypeOK, SameStack, Depth
<1>2. \A i \in 1..Depth : /\ stack'[i].at = stack[i].at
                          /\ stack'[i].api = stack[i].api
                          /\ stack[i].at \in Seq(Byte)
  BY FramesTyped DEF SameStack, SameCall, IInv
<1>3. TypeOK'
  <2>1. Len(buf) \in Nat /\ Len(buf') \in Nat /\ Len(buf) <= Len(buf')
    BY <1>1 DEF TypeOK, Extends
  <2>2. pos' \in 0..Len(buf')
    BY <1>1, <2>1 DEF TypeOK
  <2> QED BY <2>2 DEF TypeOK, SameStack
<1>4. PrefixesIntact'
  <2>1. ASSUME NEW i \in 1..Depth PROVE Extends(buf', stack'[i].at)
    <3>1. Extends(buf, stack[i].at)
      BY DEF IInv, PrefixesIntact
    <3> QED BY <1>1, <1>2, <3>1, ExtendsTransitive DEF TypeOK
  <2> QED BY <1>1, <2>1 DEF PrefixesIntact
<1>5. PrefixesNested' /\ CursorBelow' /\ AssignOutermost'
  BY <1>1, <1>2 DEF IInv, PrefixesNested, CursorBelow, AssignOutermost
<1> QED BY <1>3, <1>4, <1>5 DEF IInv

\* A nested call remembers the whole buffer, which extends every other prefix.
LEMMA EnterInv ==
  ASSUME IInv, NEW below, SameStack(below), NEW f \in Frame, f.at = buf,
         f.api # "assign", Enter(f, below)
  PROVE  IInv'
<1>1. /\ TypeOK /\ Depth \in Nat /\ stack' = Append(below, f)
      /\ buf' = buf /\ pos' = pos /\ raised' = raised
  BY DEF IInv, TypeOK, Depth, Enter
<1>2. /\ stack' \in Seq(Frame) /\ Depth' = Depth + 1
      /\ \A i \in 1..Depth : stack'[i] = below[i]
      /\ stack'[Depth + 1] = f
  BY <1>1 DEF SameStack, Depth
<1>3. \A i \in 1..Depth : /\ stack'[i].at = stack[i].at
                          /\ stack'[i].api = stack[i].api
                          /\ stack[i].at \in Seq(Byte)
                          /\ Extends(buf, stack[i].at)
  BY <1>1, <1>2, FramesTyped DEF SameStack, SameCall, IInv, PrefixesIntact
<1>4. buf \in Seq(Byte) /\ Extends(buf, buf) /\ pos <= Len(buf)
  BY <1>1, ExtendsItself DEF TypeOK
<1>5. \A i \in 1..(Depth + 1) : i \in 1..Depth \/ i = Depth + 1
  BY <1>1
<1>6. TypeOK'
  BY <1>1, <1>2 DEF TypeOK
<1>7. PrefixesIntact'
  BY <1>1, <1>2, <1>3, <1>4, <1>5 DEF PrefixesIntact
<1>8. PrefixesNested'
  <2>1. ASSUME NEW i \in 1..(Depth + 1), NEW j \in 1..(Depth + 1), i <= j
        PROVE  Extends(stack'[j].at, stack'[i].at)
    <3>1. CASE j = Depth + 1
      BY <1>2, <1>3, <1>4, <1>5, <3>1
    <3>2. CASE j \in 1..Depth
      <4>1. i \in 1..Depth
        BY <1>1, <2>1, <3>2
      <4> QED BY <1>3, <2>1, <3>2, <4>1 DEF IInv, PrefixesNested
    <3> QED BY <1>5, <3>1, <3>2
  <2> QED BY <1>2, <2>1 DEF PrefixesNested
<1>9. CursorBelow'
  BY <1>1, <1>2, <1>3, <1>4, <1>5 DEF IInv, CursorBelow
<1>10. AssignOutermost'
  BY <1>1, <1>2, <1>3, <1>5 DEF IInv, AssignOutermost
<1> QED BY <1>6, <1>7, <1>8, <1>9, <1>10 DEF IInv

\* The call on top is left; the buffer is as it was, or as the call found it.
LEMMA LeaveInv ==
  ASSUME IInv, stack # <<>>, stack' = Below, buf' \in {buf, Top.at},
         UNCHANGED <<pos, raised>>
  PROVE  IInv'
<1>1. /\ TypeOK /\ Depth \in Nat \ {0} /\ Depth \in 1..Depth
      /\ Top = stack[Depth] /\ Top.at \in Seq(Byte)
  BY TopFrame DEF IInv, TypeOK
<1>2. /\ stack' \in Seq(Frame) /\ Depth' = Depth - 1
      /\ \A i \in 1..(Depth - 1) : stack'[i] = stack[i] /\ i \in 1..Depth
  BY <1>1, BelowStack DEF TypeOK, Depth
<1>3. /\ Len(Top.at) <= Len(buf) /\ pos <= Len(Top.at)
      /\ \A i \in 1..(Depth - 1) : /\ Extends(buf, stack[i].at)
                                   /\ Extends(Top.at, stack[i].at)
  <2>1. Extends(buf, Top.at) /\ pos <= Len(Top.at)
    BY <1>1 DEF IInv, PrefixesIntact, CursorBelow
  <2>2. ASSUME NEW i \in 1..(Depth - 1)
        PROVE  Extends(buf, stack[i].at) /\ Extends(Top.at, stack[i].at)
    <3>1. i \in 1..Depth /\ i <= Depth
      BY <1>1
    <3> QED BY <1>1, <3>1 DEF IInv, PrefixesIntact, PrefixesNested
  <2> QED BY <2>1, <2>2 DEF Extends
<1>4. TypeOK'
  <2>1. Len(buf) \in Nat /\ Len(Top.at) \in Nat /\ pos \in Nat
    BY <1>1 DEF TypeOK
  <2>2. pos \in 0..Len(buf) /\ pos \in 0..Len(Top.at) /\ Len(Top.at) <= MaxSize
    BY <1>1, <1>3, <2>1 DEF TypeOK
  <2> QED BY <1>1, <1>2, <2>2 DEF TypeOK
<1>5. PrefixesIntact'
  BY <1>2, <1>3 DEF PrefixesIntact
<1>6. PrefixesNested'
  BY <1>2 DEF IInv, PrefixesNested
<1>7. CursorBelow' /\ AssignOutermost'
  BY <1>2 DEF IInv, CursorBelow, AssignOutermost
<1> QED BY <1>4, <1>5, <1>6, <1>7 DEF IInv

\* A rollback by size restores the bytes.
LEMMA RollbackBytes ==
  ASSUME IInv, stack # <<>>
  PROVE  /\ RolledBack(Top) = IF Top.api \in Atomic THEN Top.at ELSE buf
<1>1. /\ buf \in Seq(Byte) /\ Top.at \in Seq(Byte) /\ Extends(buf, Top.at)
  BY TopFrame DEF IInv, TypeOK, PrefixesIntact
<1>2. Resized(OldSize(Top), 0) = Top.at
  BY <1>1, ResizedToPrefix DEF OldSize
<1> QED BY <1>2 DEF RolledBack

\* The frames the functions push.
LEMMA CallTyped ==
  ASSUME TypeOK, NEW api \in Api, NEW stage \in {"count", "elements", "codec", "end"},
         NEW size \in Nat, NEW n \in 0..Default, NEW own \in BOOLEAN
  PROVE  /\ Call(api, stage, size, n, own) \in Frame
         /\ Call(api, stage, size, n, own).at = buf
         /\ Call(api, stage, size, n, own).api = api
BY DEF Call, Frame, TypeOK

LEMMA EnterCallInv ==
  ASSUME IInv, NEW below, SameStack(below),
         NEW api \in Api, api # "assign", NEW stage \in {"count", "elements", "codec", "end"},
         NEW size \in Nat, NEW n \in 0..Default, NEW own \in BOOLEAN,
         Enter(Call(api, stage, size, n, own), below)
  PROVE  IInv'
<1>1. PICK f \in Frame : /\ f = Call(api, stage, size, n, own)
                        /\ f.at = buf /\ f.api = api
  BY CallTyped DEF IInv
<1>2. Enter(f, below)
  BY <1>1
<1> QED BY <1>1, <1>2, EnterInv

\* Between calls.
LEMMA IdleInv ==
  ASSUME IInv, stack = <<>>, UNCHANGED <<stack, raised>>,
         buf' \in Seq(Byte), Len(buf') <= MaxSize, pos' \in 0..Len(buf')
  PROVE  IInv'
<1>1. TypeOK'
  BY DEF IInv, TypeOK
<1>2. Depth' = 0
  BY DEF Depth
<1> QED BY <1>1, <1>2 DEF IInv, PrefixesIntact, PrefixesNested, CursorBelow, AssignOutermost

LEMMA InitInv == Init => IInv
<1> SUFFICES ASSUME Init PROVE IInv
  OBVIOUS
<1>1. buf = <<>> /\ pos = 0 /\ stack = <<>> /\ raised = FALSE
  BY DEF Init
<1>2. TypeOK
  <2>1. <<>> \in Seq(Byte) /\ <<>> \in Seq(Frame) /\ Len(<<>>) = 0
    OBVIOUS
  <2>2. 0 \in 0..0 /\ 0 <= MaxSize
    OBVIOUS
  <2> QED BY <1>1, <2>1, <2>2 DEF TypeOK
<1>3. Depth = 0
  BY <1>1 DEF Depth
<1> QED BY <1>2, <1>3
        DEF IInv, PrefixesIntact, PrefixesNested, CursorBelow, AssignOutermost

LEMMA AssignInv == ASSUME IInv, Assign PROVE IInv'
<1> DEFINE f == [Call("assign", "codec", 0, Default, FALSE) EXCEPT !.at = <<>>]
<1>1. /\ stack = <<>> /\ buf' = <<>> /\ pos' = 0 /\ stack' = <<f>>
      /\ raised' = raised /\ TypeOK
  BY DEF Assign, InApplication, IInv
<1>2. f \in Frame /\ f.at = <<>> /\ f.api = "assign"
  <2>1. Call("assign", "codec", 0, Default, FALSE) \in Frame
    <3>1. "assign" \in Api /\ 0 \in Nat /\ Default \in 0..Default
      BY DEF Api, Default
    <3> QED BY <1>1, <3>1, CallTyped
  <2>2. <<>> \in Seq(Byte)
    OBVIOUS
  <2> QED BY <2>1, <2>2 DEF Frame, Call
<1> HIDE DEF f
<1>3. Depth' = 1 /\ stack' \in Seq(Frame) /\ \A i \in 1..Depth' : i = 1 /\ stack'[i] = f
  BY <1>1, <1>2 DEF Depth
<1>4. TypeOK'
  BY <1>1, <1>3 DEF TypeOK
<1>5. Extends(<<>>, <<>>)
  BY DEF Extends
<1>6. PrefixesIntact' /\ PrefixesNested'
  BY <1>1, <1>2, <1>3, <1>5 DEF PrefixesIntact, PrefixesNested
<1>7. CursorBelow' /\ AssignOutermost'
  BY <1>1, <1>2, <1>3 DEF CursorBelow, AssignOutermost
<1> QED BY <1>4, <1>6, <1>7 DEF IInv

LEMMA NextInv == ASSUME IInv, [Next]_vars PROVE IInv'
<1>a. /\ TypeOK /\ SameStack(stack) /\ buf \in Seq(Byte) /\ Extends(buf, buf)
      /\ Len(buf) \in Nat /\ Len(buf) <= MaxSize
  BY SameStackItself, ExtendsItself DEF IInv, TypeOK
<1>b. /\ {"set", "set_atomic", "set_with_size"} \subseteq Api \ {"assign"}
      /\ Default \in 0..Default /\ Default \in Nat /\ 0 \in Nat
  BY DEF Api, Default
<1>1. ASSUME NEW api \in {"set", "set_atomic"}, SetValue(api) PROVE IInv'
  <2>1. api \in Api /\ api # "assign" /\ Enter(Call(api, "codec", 0, Default, FALSE), stack)
    BY <1>1, <1>b DEF SetValue
  <2> QED BY <1>a, <1>b, <2>1, EnterCallInv
<1>2. ASSUME NEW api \in {"set", "set_atomic"}, NEW size \in 0..Default,
             NEW n \in Requests \cup {Default}, SetContainer(api, size, n)
      PROVE  IInv'
  <2>1. n \in 0..Default /\ size \in Nat
    BY DEF Default
  <2>2. api \in Api /\ api # "assign" /\ Enter(Call(api, "elements", size, n, FALSE), stack)
    BY <1>2, <1>b DEF SetContainer
  <2> QED BY <1>a, <2>1, <2>2, EnterCallInv
<1>3. ASSUME NEW size \in 0..Default, SetWithSize(size) PROVE IInv'
  <2>1. size \in Nat
    BY <1>b
  <2>2. Enter(Call("set_with_size", "count", size, Default, FALSE), stack)
    BY <1>3 DEF SetWithSize
  <2> QED BY <1>a, <1>b, <2>1, <2>2, EnterCallInv
<1>4. ASSUME NEW api \in {"set", "set_atomic", "set_with_size"}, SetOwn(api) PROVE IInv'
  <2> DEFINE stage == IF api = "set_with_size" THEN "count" ELSE "elements"
  <2>1. /\ api \in Api /\ stage \in {"count", "elements", "codec", "end"} /\ api # "assign"
        /\ Enter(Call(api, stage, Len(buf), Default, TRUE), stack)
    BY <1>4 DEF SetOwn, Api
  <2> HIDE DEF stage
  <2> QED BY <1>a, <1>b, <2>1, EnterCallInv
<1>5. ASSUME Assign PROVE IInv'
  BY <1>5, AssignInv
<1>6. ASSUME NEW b \in Fields, WriteField(b) PROVE IInv'
  <2>1. /\ b \in Byte /\ buf' = Append(buf, b) /\ Len(buf) < MaxSize
        /\ UNCHANGED <<pos, stack, raised>>
    BY <1>6 DEF WriteField, Byte
  <2>2. Len(buf') <= MaxSize /\ buf' \in Seq(Byte) /\ Extends(buf', buf)
    BY <1>a, <2>1, ExtendsOne
  <2>3. SameStack(stack')
    BY <1>a, <2>1
  <2> QED BY <1>a, <2>1, <2>2, <2>3, GrowInv DEF TypeOK
<1>7. ASSUME WriteCount PROVE IInv'
  <2> DEFINE g == [Top EXCEPT !.stage = "elements"]
  <2>1. /\ stack # <<>> /\ Top.size < Default /\ Len(buf) < MaxSize
        /\ buf' = Append(buf, Top.size) /\ UNCHANGED <<pos, raised>>
        /\ stack' = [stack EXCEPT ![Depth] = g]
    BY <1>7 DEF WriteCount, InLibrary, Countable, Top
  <2>2. Top \in Frame
    BY <1>a, <2>1, TopFrame DEF TypeOK
  <2>3. g \in Frame /\ SameCall(g, Top) /\ Top.size \in Byte
    <3>1. Top.size \in Nat
      BY <2>2 DEF Frame
    <3>2. PICK size \in Nat : size = Top.size
      BY <3>1
    <3>3. size \in Byte
      BY <1>b, <2>1, <3>2 DEF Byte, Default
    <3>4. g \in Frame
      BY <2>2 DEF Frame
    <3>5. SameCall(g, Top)
      BY <2>2 DEF Frame, SameCall
    <3> QED BY <3>2, <3>3, <3>4, <3>5
  <2> HIDE DEF g
  <2>4. SameStack(stack')
    BY <1>a, <2>1, <2>3, StagedStack DEF TypeOK
  <2>5. Len(buf') <= MaxSize /\ buf' \in Seq(Byte) /\ Extends(buf', buf)
    BY <1>a, <2>1, <2>3, ExtendsOne
  <2> QED BY <1>a, <2>1, <2>4, <2>5, GrowInv DEF TypeOK
<1>8. ASSUME WriteBlock PROVE IInv'
  <2>1. PICK content \in Blocks(Top) :
          /\ Len(buf) + Len(content) <= MaxSize
          /\ buf' = buf \o content
          /\ stack' = [stack EXCEPT ![Depth].stage = "end", ![Depth].written = Len(content)]
    BY <1>8 DEF WriteBlock
  <2> DEFINE g == [Top EXCEPT !.stage = "end", !.written = Len(content)]
  <2>2. stack # <<>> /\ UNCHANGED <<pos, raised>> /\ stack' = [stack EXCEPT ![Depth] = g]
    BY <1>8, <2>1 DEF WriteBlock, InLibrary, Top
  <2>3. Top \in Frame
    BY <1>a, <2>2, TopFrame DEF TypeOK
  <2>4. content \in Seq(Byte)
    <3>1. CASE Top.own
      BY <1>a, <3>1 DEF Blocks
    <3>2. CASE ~Top.own
      <4>1. PICK k \in Nat : content \in [1..k -> Fields]
        <5>1. Top.size \in Nat /\ Top.n \in Nat
          BY <2>3 DEF Frame
        <5> QED BY <3>2, <5>1 DEF Blocks
      <4>2. content \in [1..k -> Byte]
        BY <4>1 DEF Byte
      <4> QED BY <4>2, SeqDef
    <3> QED BY <3>1, <3>2
  <2>5. g \in Frame /\ SameCall(g, Top)
    <3>1. Len(content) \in Nat
      BY <2>4
    <3> QED BY <2>3, <3>1 DEF Frame, SameCall
  <2> HIDE DEF g
  <2>6. SameStack(stack')
    BY <1>a, <2>2, <2>5, StagedStack DEF TypeOK
  <2>7. Len(buf') <= MaxSize /\ buf' \in Seq(Byte) /\ Extends(buf', buf)
    BY <1>a, <2>1, <2>4, ExtendsMany
  <2> QED BY <1>a, <2>2, <2>6, <2>7, GrowInv DEF TypeOK
<1>9. ASSUME NextElement PROVE IInv'
  <2> DEFINE g == [Top EXCEPT !.written = @ + 1]
             below == [stack EXCEPT ![Depth] = g]
  <2>1. /\ stack # <<>>
        /\ Enter(Call("set", "codec", 0, Default, FALSE), below)
    BY <1>9 DEF NextElement, InLibrary, Top
  <2>2. Top \in Frame
    BY <1>a, <2>1, TopFrame DEF TypeOK
  <2>3. g \in Frame /\ SameCall(g, Top)
    BY <2>2 DEF Frame, SameCall
  <2> HIDE DEF g
  <2>4. SameStack(below)
    BY <1>a, <2>1, <2>3, StagedStack DEF TypeOK
  <2> HIDE DEF below
  <2> QED BY <1>a, <1>b, <2>1, <2>4, EnterCallInv
<1>10. ASSUME Fail PROVE IInv'
  <2>1. UNCHANGED <<buf, pos, stack>> /\ raised' = TRUE
    BY <1>10 DEF Fail
  <2>2. SameStack(stack')
    BY <1>a, <2>1
  <2> QED BY <1>a, <2>1, <2>2, GrowInv
<1>11. ASSUME Catch PROVE IInv'
  <2>1. UNCHANGED <<buf, pos, stack>> /\ raised' = FALSE
    BY <1>11 DEF Catch
  <2>2. SameStack(stack')
    BY <1>a, <2>1
  <2> QED BY <1>a, <2>1, <2>2, GrowInv
<1>12. ASSUME Return PROVE IInv'
  BY <1>12, LeaveInv DEF Return
<1>13. ASSUME Unwind PROVE IInv'
  BY <1>13, LeaveInv, RollbackBytes DEF Unwind
<1>14. ASSUME NEW k \in 0..MaxSize, NEW v \in Fields, Resize(k, v) PROVE IInv'
  <2>1. /\ stack = <<>> /\ UNCHANGED <<stack, raised>> /\ v \in Byte /\ k \in Nat
        /\ buf' = Resized(k, v) /\ pos' = PosAfterResize(k)
    BY <1>14 DEF Resize, InApplication, Byte
  <2>2. buf' \in Seq(Byte) /\ Len(buf') = k
    BY <1>a, <2>1, ResizedBytes
  <2>3. pos' \in 0..Len(buf')
    BY <1>a, <2>1, <2>2 DEF PosAfterResize, TypeOK
  <2> QED BY <2>1, <2>2, <2>3, IdleInv
<1>15. ASSUME Clear PROVE IInv'
  <2>1. stack = <<>> /\ UNCHANGED <<stack, raised>> /\ buf' = <<>> /\ pos' = 0
    BY <1>15 DEF Clear, InApplication
  <2> QED BY <2>1, IdleInv
<1>16. ASSUME NEW p \in 0..MaxSize, MoveTo(p) PROVE IInv'
  <2>1. /\ stack = <<>> /\ UNCHANGED <<buf, stack, raised>> /\ pos' = p
        /\ p \in 0..Len(buf)
    BY <1>16, <1>a DEF MoveTo, InApplication
  <2> QED BY <1>a, <2>1, IdleInv
<1>17. ASSUME UNCHANGED vars PROVE IInv'
  BY <1>17 DEF vars, IInv, TypeOK, PrefixesIntact, PrefixesNested, CursorBelow,
               AssignOutermost, Depth
<1> QED BY <1>1, <1>2, <1>3, <1>4, <1>5, <1>6, <1>7, <1>8, <1>9, <1>10, <1>11, <1>12,
           <1>13, <1>14, <1>15, <1>16, <1>17 DEF Next

---------------------------------------------------------------------------

\* The inductive invariant of the writing functions (byte_stream.hpp, set to
\* set_with_size): calls in progress remember nested prefixes of the buffer.
THEOREM Invariance == Spec => []IInv
<1>1. IInv /\ [Next]_vars => IInv'
  BY NextInv
<1> QED BY InitInv, <1>1, PTL DEF Spec

\* Sizes stay within max_size() and the read position within the buffer,
\* rollbacks included.
THEOREM TypeCorrect == Spec => []TypeOK
<1>1. IInv => TypeOK
  BY DEF IInv
<1> QED BY <1>1, Invariance, PTL

\* What an enclosing call found in the buffer stays there until that call
\* ends, whatever inner calls append, roll back and catch.
THEOREM PrefixesAreIntact == Spec => []PrefixesIntact
<1>1. IInv => PrefixesIntact
  BY DEF IInv
<1> QED BY <1>1, Invariance, PTL

\* set_atomic and set_with_size remember only a size, and yet an exception
\* leaves them with the very bytes they found, at every depth of nesting.
THEOREM RollbackIsExact == Spec => RollbackExact
<1> DEFINE Exact == raised /\ stack # <<>> /\ Len(stack') < Depth /\ Top.api \in Atomic
                      => buf' = Top.at
<1>1. ASSUME IInv, [Next]_vars, raised, stack # <<>>, Len(stack') < Depth, Top.api \in Atomic
      PROVE  buf' = Top.at
  <2>1. Depth = Len(stack) /\ Depth \in Nat /\ stack \in Seq(Frame)
    BY <1>1 DEF IInv, TypeOK, Depth
  <2>2. stack' # stack
    BY <1>1, <2>1
  <2>3. Unwind
    BY <1>1, <2>2 DEF Next, vars, SetValue, SetContainer, SetWithSize, SetOwn, Running,
       Assign, WriteField, WriteCount, WriteBlock, NextElement, InLibrary, Fail, Catch,
       Return, Resize, Clear, MoveTo
  <2> QED BY <1>1, <2>3, RollbackBytes DEF Unwind
<1>2. IInv /\ [Next]_vars => [Exact]_vars
  BY <1>1
<1> HIDE DEF Exact
<1>3. Spec => [][Exact]_vars
  BY <1>2, Invariance, PTL DEF Spec
<1> QED BY <1>3 DEF Exact, RollbackExact

---------------------------------------------------------------------------
(* The refinement of WriteContract.                                        *)

\* The outermost call is the bottom of the stack.
LEMMA OutermostFrame ==
  ASSUME TypeOK, stack # <<>>
  PROVE  /\ OutermostCall # <<>> /\ 1 \in 1..Depth
         /\ OutermostCall = <<[api |-> stack[1].api, at |-> stack[1].at]>>
         /\ OutermostCall[1].api = stack[1].api
         /\ OutermostCall[1].at = stack[1].at
<1>1. OutermostCall = <<[api |-> stack[1].api, at |-> stack[1].at]>>
  BY DEF OutermostCall
<1>2. 1 \in 1..Depth
  BY TopFrame DEF TypeOK
<1> QED BY <1>1, <1>2

\* A step during which the outermost call stays is work of that call.
LEMMA WorkStep ==
  ASSUME IInv, IInv', stack # <<>>, stack' # <<>>, SameCall(stack'[1], stack[1]),
         pos' = pos
  PROVE  Contract!Work
<1>1. OutermostCall # <<>> /\ OutermostCall' = OutermostCall
  BY OutermostFrame DEF IInv, SameCall, OutermostCall
<1>2. buf' \in Seq(Byte) /\ raised' \in BOOLEAN
  BY DEF IInv, TypeOK
<1>3. Extends(buf', OutermostCall[1].at)
  <2>1. 1 \in 1..Depth'
    BY TopFrame DEF IInv, TypeOK, Depth
  <2>2. Extends(buf', stack'[1].at)
    BY <2>1 DEF IInv, PrefixesIntact
  <2> QED BY <2>2, OutermostFrame DEF SameCall, IInv
<1> QED BY <1>1, <1>2, <1>3 DEF Contract!Work, Contract!Extends, Extends

LEMMA SameStackRefines ==
  ASSUME IInv, IInv', stack # <<>>, SameStack(stack'), pos' = pos
  PROVE  Contract!Next
<1>1. Depth \in Nat \ {0} /\ 1 \in 1..Depth /\ Len(stack') = Depth /\ stack' # <<>>
  BY TopFrame DEF IInv, TypeOK, SameStack
<1> QED BY <1>1, WorkStep DEF SameStack, Contract!Next

LEMMA EnterRefines ==
  ASSUME IInv, IInv', NEW below, SameStack(below), ~raised,
         NEW api \in Api, api # "assign", NEW f \in Frame, f.api = api, f.at = buf,
         Enter(f, below)
  PROVE  Contract!Next
<1>1. /\ stack' = Append(below, f) /\ UNCHANGED <<buf, pos, raised>>
      /\ Depth = Len(stack) /\ Depth \in Nat /\ TypeOK
      /\ below \in Seq(Frame) /\ Len(below) = Depth
  BY DEF Enter, IInv, TypeOK, Depth, SameStack
<1>2. CASE stack = <<>>
  <2>1. below = <<>>
    BY <1>1, <1>2
  <2>2. stack' # <<>> /\ stack'[1] = f
    BY <1>1, <2>1
  <2>3. OutermostCall = <<>> /\ OutermostCall' = <<[api |-> api, at |-> buf']>>
    BY <1>1, <1>2, <2>2 DEF OutermostCall
  <2> QED BY <1>1, <2>3 DEF Contract!Next, Contract!Begin
<1>3. CASE stack # <<>>
  <2>1. 1 \in 1..Depth
    BY <1>3, OutermostFrame DEF IInv
  <2>2. stack' # <<>> /\ stack'[1] = below[1]
    BY <1>1, <2>1
  <2> QED BY <1>1, <1>3, <2>1, <2>2, WorkStep DEF SameStack, SameCall, Contract!Next
<1> QED BY <1>2, <1>3

LEMMA EnterCallRefines ==
  ASSUME IInv, IInv', NEW below, SameStack(below), ~raised,
         NEW api \in Api, api # "assign", NEW stage \in {"count", "elements", "codec", "end"},
         NEW size \in Nat, NEW n \in 0..Default, NEW own \in BOOLEAN,
         Enter(Call(api, stage, size, n, own), below)
  PROVE  Contract!Next
<1>1. PICK f \in Frame : /\ f = Call(api, stage, size, n, own)
                        /\ f.at = buf /\ f.api = api
  BY CallTyped DEF IInv
<1>2. Enter(f, below)
  BY <1>1
<1> QED BY <1>1, <1>2, EnterRefines

\* A call that is left is the end of the outermost one, or its work.
LEMMA LeaveRefines ==
  ASSUME IInv, IInv', stack # <<>>, stack' = Below, UNCHANGED <<pos, raised>>,
         buf' = IF raised /\ Top.api \in Atomic THEN Top.at ELSE buf
  PROVE  Contract!Next
<1>1. /\ TypeOK /\ Depth \in Nat \ {0} /\ Top = stack[Depth]
      /\ Len(stack') = Depth - 1 /\ \A i \in 1..(Depth - 1) : stack'[i] = stack[i]
      /\ stack' \in Seq(Frame)
  BY TopFrame, BelowStack DEF IInv, TypeOK
<1>2. CASE Depth = 1
  <2>1. stack' = <<>> /\ Top = stack[1]
    BY <1>1, <1>2
  <2>2. /\ OutermostCall' = <<>> /\ OutermostCall # <<>>
        /\ OutermostCall[1].api = Top.api /\ OutermostCall[1].at = Top.at
    BY <1>1, <2>1, OutermostFrame DEF OutermostCall
  <2>3. CASE raised
    BY <2>2, <2>3 DEF Contract!Next, Contract!Fail
  <2>4. CASE ~raised
    BY <2>2, <2>4 DEF Contract!Next, Contract!Succeed
  <2> QED BY <2>3, <2>4
<1>3. CASE Depth # 1
  <2>1. stack' # <<>> /\ stack'[1] = stack[1]
    BY <1>1, <1>3
  <2> QED BY <2>1, WorkStep DEF SameCall, Contract!Next
<1> QED BY <1>2, <1>3

\* Between calls anything goes that keeps the read position in the buffer.
LEMMA IdleRefines ==
  ASSUME IInv, IInv', stack = <<>>, stack' = stack, raised' \in {raised, FALSE}
  PROVE  Contract!Next
<1>1. OutermostCall = <<>> /\ OutermostCall' = <<>>
  BY DEF OutermostCall
<1>2. buf' \in Seq(Byte) /\ pos' \in 0..Len(buf')
  BY DEF IInv, TypeOK
<1> QED BY <1>1, <1>2 DEF Contract!Next, Contract!Between

\* The library's own steps keep the calls on the stack.
LEMMA StageStack ==
  ASSUME IInv, stack # <<>>
  PROVE  /\ WriteCount => SameStack(stack')
         /\ WriteBlock => SameStack(stack')
         /\ SameStack([stack EXCEPT ![Depth].written = @ + 1])
<1>1. TypeOK /\ stack \in Seq(Frame) /\ Top \in Frame
  BY TopFrame DEF IInv, TypeOK
<1>2. ASSUME WriteCount PROVE SameStack(stack')
  <2> DEFINE g == [Top EXCEPT !.stage = "elements"]
  <2>1. stack' = [stack EXCEPT ![Depth] = g]
    BY <1>2 DEF WriteCount, Top
  <2>2. g \in Frame /\ SameCall(g, Top)
    BY <1>1 DEF Frame, SameCall
  <2> HIDE DEF g
  <2> QED BY <1>1, <2>1, <2>2, StagedStack
<1>3. ASSUME WriteBlock PROVE SameStack(stack')
  <2>1. PICK content \in Blocks(Top) :
          stack' = [stack EXCEPT ![Depth].stage = "end", ![Depth].written = Len(content)]
    BY <1>3 DEF WriteBlock
  <2> DEFINE g == [Top EXCEPT !.stage = "end", !.written = Len(content)]
  <2>2. stack' = [stack EXCEPT ![Depth] = g]
    BY <2>1 DEF Top
  <2>3. Len(content) \in Nat
    <3>1. CASE Top.own
      BY <1>1, <3>1 DEF Blocks, TypeOK
    <3>2. CASE ~Top.own
      <4>1. PICK k \in Nat : content \in [1..k -> Fields]
        <5>1. Top.size \in Nat /\ Top.n \in Nat
          BY <1>1 DEF Frame, Default
        <5> QED BY <3>2, <5>1 DEF Blocks
      <4>2. content \in Seq(Fields)
        BY <4>1, SeqDef
      <4> QED BY <4>2
    <3> QED BY <3>1, <3>2
  <2>4. g \in Frame /\ SameCall(g, Top)
    BY <1>1, <2>3 DEF Frame, SameCall
  <2> HIDE DEF g
  <2> QED BY <1>1, <2>2, <2>4, StagedStack
<1>4. SameStack([stack EXCEPT ![Depth].written = @ + 1])
  <2> DEFINE g == [Top EXCEPT !.written = @ + 1]
  <2>1. [stack EXCEPT ![Depth].written = @ + 1] = [stack EXCEPT ![Depth] = g]
    BY DEF Top
  <2>2. g \in Frame /\ SameCall(g, Top)
    <3>1. Top \in Frame
      BY <1>1
    <3> QED BY <3>1 DEF Frame, SameCall
  <2> HIDE DEF g
  <2> QED BY <1>1, <2>1, <2>2, StagedStack
<1> QED BY <1>2, <1>3, <1>4

\* Every step of the writing functions is one that WriteContract allows.
LEMMA NextRefines ==
  ASSUME IInv, IInv', [Next]_vars
  PROVE  [Contract!Next]_Contract!vars
<1>a. SameStack(stack) /\ TypeOK /\ Len(buf) \in Nat
  BY SameStackItself DEF IInv, TypeOK
<1>b. /\ {"set", "set_atomic", "set_with_size"} \subseteq Api \ {"assign"}
      /\ Default \in 0..Default /\ Default \in Nat /\ 0 \in Nat
  BY DEF Api, Default
<1>1. ASSUME NEW api \in {"set", "set_atomic"}, SetValue(api) PROVE Contract!Next
  <2>1. /\ api \in Api /\ api # "assign" /\ ~raised
        /\ Enter(Call(api, "codec", 0, Default, FALSE), stack)
    BY <1>1, <1>b DEF SetValue, Running
  <2> QED BY <1>a, <1>b, <2>1, EnterCallRefines
<1>2. ASSUME NEW api \in {"set", "set_atomic"}, NEW size \in 0..Default,
             NEW n \in Requests \cup {Default}, SetContainer(api, size, n)
      PROVE  Contract!Next
  <2>1. n \in 0..Default /\ size \in Nat
    BY DEF Default
  <2>2. /\ api \in Api /\ api # "assign" /\ ~raised
        /\ Enter(Call(api, "elements", size, n, FALSE), stack)
    BY <1>2, <1>b DEF SetContainer, Running
  <2> QED BY <1>a, <2>1, <2>2, EnterCallRefines
<1>3. ASSUME NEW size \in 0..Default, SetWithSize(size) PROVE Contract!Next
  <2>1. size \in Nat
    BY <1>b
  <2>2. ~raised /\ Enter(Call("set_with_size", "count", size, Default, FALSE), stack)
    BY <1>3 DEF SetWithSize, Running
  <2> QED BY <1>a, <1>b, <2>1, <2>2, EnterCallRefines
<1>4. ASSUME NEW api \in {"set", "set_atomic", "set_with_size"}, SetOwn(api)
      PROVE  Contract!Next
  <2> DEFINE stage == IF api = "set_with_size" THEN "count" ELSE "elements"
  <2>1. /\ api \in Api /\ stage \in {"count", "elements", "codec", "end"} /\ api # "assign"
        /\ ~raised /\ Enter(Call(api, stage, Len(buf), Default, TRUE), stack)
    BY <1>4 DEF SetOwn, Api, Running
  <2> HIDE DEF stage
  <2> QED BY <1>a, <1>b, <2>1, EnterCallRefines
<1>5. ASSUME Assign PROVE Contract!Next
  <2> DEFINE f == [Call("assign", "codec", 0, Default, FALSE) EXCEPT !.at = <<>>]
  <2>1. /\ stack = <<>> /\ ~raised /\ buf' = <<>> /\ pos' = 0 /\ stack' = <<f>>
        /\ raised' = raised
    BY <1>5 DEF Assign, InApplication
  <2>2. f.api = "assign" /\ f.at = <<>>
    BY DEF Call
  <2> HIDE DEF f
  <2>3. OutermostCall = <<>> /\ OutermostCall' = <<[api |-> "assign", at |-> buf']>>
    BY <2>1, <2>2 DEF OutermostCall
  <2>4. "assign" \in Api
    BY DEF Api
  <2> QED BY <2>1, <2>3, <2>4 DEF Contract!Next, Contract!Begin
<1>6. ASSUME NEW b \in Fields, WriteField(b) PROVE Contract!Next
  <2>1. stack # <<>> /\ SameStack(stack') /\ pos' = pos
    BY <1>6, <1>a DEF WriteField, InCodec
  <2> QED BY <2>1, SameStackRefines
<1>7. ASSUME WriteCount PROVE Contract!Next
  BY <1>7, StageStack, SameStackRefines DEF WriteCount, InLibrary
<1>8. ASSUME WriteBlock PROVE Contract!Next
  BY <1>8, StageStack, SameStackRefines DEF WriteBlock, InLibrary
<1>9. ASSUME NextElement PROVE Contract!Next
  <2> DEFINE below == [stack EXCEPT ![Depth].written = @ + 1]
  <2>1. /\ stack # <<>> /\ ~raised
        /\ Enter(Call("set", "codec", 0, Default, FALSE), below)
    BY <1>9 DEF NextElement, InLibrary
  <2>2. SameStack(below)
    BY <2>1, StageStack
  <2> HIDE DEF below
  <2> QED BY <1>b, <2>1, <2>2, EnterCallRefines
<1>10. ASSUME Fail PROVE Contract!Next
  BY <1>10, <1>a, SameStackRefines DEF Fail
<1>11. ASSUME Catch PROVE Contract!Next
  <2>1. UNCHANGED <<buf, pos, stack>> /\ raised' = FALSE
    BY <1>11 DEF Catch
  <2>2. CASE stack = <<>>
    BY <2>1, <2>2, IdleRefines
  <2>3. CASE stack # <<>>
    BY <1>a, <2>1, <2>3, SameStackRefines
  <2> QED BY <2>2, <2>3
<1>12. ASSUME Return PROVE Contract!Next
  BY <1>12, LeaveRefines DEF Return
<1>13. ASSUME Unwind PROVE Contract!Next
  BY <1>13, LeaveRefines, RollbackBytes DEF Unwind
<1>14. ASSUME NEW k \in 0..MaxSize, NEW v \in Fields, Resize(k, v) PROVE Contract!Next
  BY <1>14, IdleRefines DEF Resize, InApplication
<1>15. ASSUME Clear PROVE Contract!Next
  BY <1>15, IdleRefines DEF Clear, InApplication
<1>16. ASSUME NEW p \in 0..MaxSize, MoveTo(p) PROVE Contract!Next
  BY <1>16, IdleRefines DEF MoveTo, InApplication
<1>17. ASSUME UNCHANGED vars PROVE UNCHANGED Contract!vars
  BY <1>17 DEF vars, Contract!vars, OutermostCall
<1> QED BY <1>1, <1>2, <1>3, <1>4, <1>5, <1>6, <1>7, <1>8, <1>9, <1>10, <1>11, <1>12,
           <1>13, <1>14, <1>15, <1>16, <1>17 DEF Next

\* Whatever a codec nests, throws and catches, the application's own call ends
\* as WriteContract says: it has only appended, and an atomic call that fails
\* has not even done that.
THEOREM Refinement == Spec => ContractSpec
<1>1. Init => Contract!Init
  BY DEF Init, Contract!Init, OutermostCall
<1>2. IInv /\ IInv' /\ [Next]_vars => [Contract!Next]_Contract!vars
  BY NextRefines
<1> QED BY <1>1, <1>2, Invariance, PTL DEF Spec, ContractSpec, Contract!Spec

---------------------------------------------------------------------------
(* The work of set_with_size and of the container codec.                   *)

\* What a frame says of its own call.
CallOK(f) ==
  /\ f.api = "set_with_size" => ~f.own /\ f.n = Default /\ f.stage # "codec"
  /\ f.stage = "count" => f.api = "set_with_size"
  /\ f.own => f.size = Len(f.at)
  /\ f.n # Default => f.n \in Requests /\ ~f.own
  /\ f.stage = "elements" /\ f.n # Default /\ 0 \notin Requests => f.written <= f.n
  /\ f.stage = "end" => f.written = IF f.n = Default THEN f.size ELSE f.n

\* Bytes that begin with what the call found have its count next.
Counted(f, b) ==
  f.api = "set_with_size" /\ f.stage # "count" =>
     Len(f.at) < Len(b) /\ b[Len(f.at) + 1] = f.size

\* A call that has written nothing, and calls nothing before it does.
AtStart(f) == f.stage = "count" \/ (f.own /\ f.stage = "elements")

\* The count of a call is in the buffer, and in what the calls above it found,
\* so that no rollback of theirs removes it.
WorkOn(st, b) ==
  /\ \A i \in 1..Len(st) :
       /\ CallOK(st[i]) /\ Counted(st[i], b)
       /\ AtStart(st[i]) => st[i].at = b
  /\ \A i, j \in 1..Len(st) : i < j => ~AtStart(st[i]) /\ Counted(st[i], st[j].at)

WorkInv == WorkOn(stack, buf)

LEMMA CountedGrows ==
  ASSUME NEW f \in Frame, NEW b \in Seq(Byte), NEW c \in Seq(Byte),
         Extends(c, b), Counted(f, b)
  PROVE  Counted(f, c)
<1> SUFFICES ASSUME f.api = "set_with_size", f.stage # "count"
             PROVE  Len(f.at) < Len(c) /\ c[Len(f.at) + 1] = f.size
  BY DEF Counted
<1>1. PICK k \in Nat : k = Len(f.at)
  BY DEF Frame
<1>2. k < Len(b) /\ b[k + 1] = f.size
  BY <1>1 DEF Counted
<1>3. k + 1 \in 1..Len(b) /\ Len(b) <= Len(c) /\ k < Len(c)
  BY <1>2 DEF Extends
<1>4. c[k + 1] = b[k + 1]
  BY <1>3 DEF Extends
<1> QED BY <1>1, <1>2, <1>3, <1>4

\* The frame on top goes on, and the buffer may grow.
LEMMA TopWork ==
  ASSUME NEW st \in Seq(Frame), NEW b \in Seq(Byte), NEW c \in Seq(Byte), WorkOn(st, b),
         Extends(c, b), st # <<>>, NEW g \in Frame, g.at = st[Len(st)].at,
         CallOK(g), Counted(g, c), ~AtStart(g)
  PROVE  WorkOn([st EXCEPT ![Len(st)] = g], c)
<1>1. PICK d \in Nat : d = Len(st) /\ d \in 1..d
  BY EmptySeq
<1>2. PICK s \in Seq(Frame) : s = [st EXCEPT ![d] = g]
  BY <1>1, ExceptSeq
<1>3. Len(s) = d /\ s[d] = g /\ \A i \in 1..d : i # d => s[i] = st[i]
  BY <1>1, <1>2, ExceptSeq
<1>4. ASSUME NEW i \in 1..d, i # d
      PROVE  /\ st[i] \in Frame /\ CallOK(st[i]) /\ ~AtStart(st[i])
             /\ Counted(st[i], c) /\ Counted(st[i], g.at)
  <2>1. i < d /\ i \in 1..Len(st) /\ d \in 1..Len(st)
    BY <1>1, <1>4
  <2>2. st[i] \in Frame
    BY <2>1, ElementOfSeq
  <2>3. CallOK(st[i]) /\ Counted(st[i], b) /\ ~AtStart(st[i]) /\ Counted(st[i], st[d].at)
    BY <2>1 DEF WorkOn
  <2> QED BY <1>1, <2>2, <2>3, CountedGrows
<1>5. ASSUME NEW i \in 1..Len(s)
      PROVE  /\ CallOK(s[i]) /\ Counted(s[i], c)
             /\ AtStart(s[i]) => s[i].at = c
  <2>1. CASE i = d
    BY <1>3, <2>1 DEF AtStart
  <2>2. CASE i # d
    <3>1. s[i] = st[i] /\ i \in 1..d
      BY <1>3, <2>2
    <3> QED BY <1>4, <2>2, <3>1 DEF AtStart
  <2> QED BY <2>1, <2>2
<1>6. ASSUME NEW i \in 1..Len(s), NEW j \in 1..Len(s), i < j
      PROVE  ~AtStart(s[i]) /\ Counted(s[i], s[j].at)
  <2>1. i \in 1..d /\ j \in 1..d /\ i # d /\ s[i] = st[i]
    BY <1>1, <1>3, <1>6
  <2>2. CASE j = d
    BY <1>3, <1>4, <2>1, <2>2
  <2>3. CASE j # d
    <3>1. s[j] = st[j]
      BY <1>3, <2>1, <2>3
    <3>2. Counted(st[i], st[j].at)
      BY <1>1, <1>6, <2>1 DEF WorkOn
    <3> QED BY <1>4, <2>1, <3>1, <3>2
  <2> QED BY <2>2, <2>3
<1>7. WorkOn(s, c)
  BY <1>5, <1>6 DEF WorkOn
<1> QED BY <1>1, <1>2, <1>7

\* The frame on top stays as it is, when it is not at its start.
LEMMA GrowWork ==
  ASSUME NEW st \in Seq(Frame), NEW b \in Seq(Byte), NEW c \in Seq(Byte), WorkOn(st, b),
         Extends(c, b), st # <<>>, ~AtStart(st[Len(st)])
  PROVE  WorkOn(st, c)
<1>1. PICK d \in Nat : d = Len(st) /\ d \in 1..d
  BY EmptySeq
<1>2. PICK g \in Frame : g = st[d]
  BY <1>1, ElementOfSeq
<1>3. CallOK(g) /\ Counted(g, b)
  BY <1>1, <1>2 DEF WorkOn
<1>4. Counted(g, c)
  BY <1>3, CountedGrows
<1>5. [st EXCEPT ![d] = g] = st
  BY <1>1, <1>2
<1> QED BY <1>1, <1>2, <1>3, <1>4, <1>5, TopWork

\* A call is entered on top of one that is not at its start.
LEMMA EnterWork ==
  ASSUME NEW st \in Seq(Frame), NEW b \in Seq(Byte), WorkOn(st, b),
         st # <<>> => ~AtStart(st[Len(st)]),
         NEW f \in Frame, f.at = b, CallOK(f), Counted(f, b)
  PROVE  WorkOn(Append(st, f), b)
<1>1. PICK d \in Nat, s \in Seq(Frame) : d = Len(st) /\ s = Append(st, f)
  <2>1. Len(st) \in Nat /\ Append(st, f) \in Seq(Frame)
    OBVIOUS
  <2> QED BY <2>1
<1>2. Len(s) = d + 1 /\ s[d + 1] = f /\ \A i \in 1..d : s[i] = st[i]
  BY <1>1, AppendProperties
<1>3. \A i \in 1..(d + 1) : i # d + 1 => i \in 1..d
  BY <1>1
<1>4. ASSUME NEW i \in 1..d PROVE ~AtStart(st[i])
  <2>1. CASE i = d
    <3>1. st # <<>>
      BY <1>1, <2>1
    <3> QED BY <1>1, <2>1, <3>1
  <2>2. CASE i # d
    <3>1. i < d /\ d \in 1..d
      BY <1>1, <2>2
    <3> QED BY <1>1, <3>1 DEF WorkOn
  <2> QED BY <2>1, <2>2
<1>5. ASSUME NEW i \in 1..Len(s)
      PROVE  /\ CallOK(s[i]) /\ Counted(s[i], b)
             /\ AtStart(s[i]) => s[i].at = b
  <2>1. CASE i = d + 1
    BY <1>2, <2>1
  <2>2. CASE i # d + 1
    <3>1. i \in 1..d /\ s[i] = st[i]
      BY <1>2, <1>3, <2>2
    <3> QED BY <1>1, <3>1 DEF WorkOn
  <2> QED BY <2>1, <2>2
<1>6. ASSUME NEW i \in 1..Len(s), NEW j \in 1..Len(s), i < j
      PROVE  ~AtStart(s[i]) /\ Counted(s[i], s[j].at)
  <2>1. i \in 1..d /\ s[i] = st[i]
    BY <1>1, <1>2, <1>6
  <2>2. CASE j = d + 1
    <3>1. Counted(st[i], b)
      BY <1>1, <2>1 DEF WorkOn
    <3> QED BY <1>2, <1>4, <2>1, <2>2, <3>1
  <2>3. CASE j # d + 1
    <3>1. j \in 1..d /\ s[j] = st[j]
      BY <1>2, <1>3, <2>3
    <3>2. Counted(st[i], st[j].at)
      BY <1>1, <1>6, <2>1, <3>1 DEF WorkOn
    <3> QED BY <1>4, <2>1, <3>1, <3>2
  <2> QED BY <2>2, <2>3
<1>7. WorkOn(s, b)
  BY <1>5, <1>6 DEF WorkOn
<1> QED BY <1>1, <1>7

LEMMA NoWork == ASSUME NEW b \in Seq(Byte) PROVE WorkOn(<<>>, b)
BY DEF WorkOn

\* The call on top is left.
LEMMA LeaveWork ==
  ASSUME IInv, WorkInv, stack # <<>>, NEW c \in Seq(Byte), c = buf \/ c = Top.at
  PROVE  WorkOn(Below, c)
<1>1. PICK d \in Nat, s \in Seq(Frame) :
          d = Depth /\ d \in 1..d /\ s = Below /\ Len(s) = d - 1
  BY TopFrame, BelowStack DEF IInv, TypeOK
<1>2. \A i \in 1..(d - 1) : s[i] = stack[i]
  BY <1>1, BelowStack DEF IInv, TypeOK
<1>3. ASSUME NEW i \in 1..(d - 1)
      PROVE  CallOK(s[i]) /\ ~AtStart(s[i]) /\ Counted(s[i], c)
  <2>1. i \in 1..Len(stack) /\ d \in 1..Len(stack) /\ i < d /\ s[i] = stack[i]
    BY <1>1, <1>2 DEF Depth
  <2>2. CallOK(stack[i]) /\ Counted(stack[i], buf)
    BY <2>1 DEF WorkInv, WorkOn
  <2>3. ~AtStart(stack[i]) /\ Counted(stack[i], stack[d].at)
    BY <2>1 DEF WorkInv, WorkOn
  <2> QED BY <1>1, <2>1, <2>2, <2>3 DEF Top
<1>4. ASSUME NEW i \in 1..(d - 1), NEW j \in 1..(d - 1), i < j
      PROVE  Counted(s[i], s[j].at)
  <2>1. i \in 1..Len(stack) /\ j \in 1..Len(stack) /\ s[i] = stack[i] /\ s[j] = stack[j]
    BY <1>1, <1>2 DEF Depth
  <2> QED BY <1>4, <2>1 DEF WorkInv, WorkOn
<1>5. WorkOn(s, c)
  <2>1. ASSUME NEW i \in 1..(d - 1)
        PROVE  AtStart(s[i]) => s[i].at = c
    BY <1>3 DEF AtStart
  <2> QED BY <1>1, <1>3, <1>4, <2>1 DEF WorkOn
<1> QED BY <1>1, <1>5

\* A call entered from code of a codec or of the application.
LEMMA CallWork ==
  ASSUME IInv, WorkInv, Running, NEW f \in Frame, f.at = buf, CallOK(f), Counted(f, buf),
         Enter(f, stack)
  PROVE  WorkInv'
<1>1. stack \in Seq(Frame) /\ buf \in Seq(Byte)
  BY DEF IInv, TypeOK
<1>2. stack # <<>> => ~AtStart(stack[Len(stack)])
  BY DEF Running, InApplication, InCodec, Top, Depth, AtStart
<1>3. WorkOn(Append(stack, f), buf)
  BY <1>1, <1>2, EnterWork DEF WorkInv
<1> QED BY <1>3 DEF Enter, WorkInv

LEMMA InitWork == Init => WorkInv
<1> SUFFICES ASSUME Init PROVE WorkInv
  OBVIOUS
<1>1. stack = <<>> /\ buf \in Seq(Byte)
  BY DEF Init
<1> QED BY <1>1, NoWork DEF WorkInv

LEMMA NextWork ==
  ASSUME "set_with_size" \notin OwnContainers, IInv, WorkInv, [Next]_vars
  PROVE  WorkInv'
<1>a. /\ TypeOK /\ stack \in Seq(Frame) /\ buf \in Seq(Byte) /\ Extends(buf, buf)
      /\ WorkOn(stack, buf)
  BY ExtendsItself DEF IInv, TypeOK, WorkInv
<1>b. Default \in 0..Default /\ Default \in Nat /\ 0 \in Nat /\ Len(buf) \in Nat
  BY <1>a DEF Default
<1>c. stack # <<>> => Top \in Frame /\ Top = stack[Len(stack)] /\ Depth = Len(stack)
                       /\ CallOK(Top) /\ Counted(Top, buf)
                       /\ (AtStart(Top) => Top.at = buf)
  BY <1>a, TopFrame DEF WorkOn, Depth
<1>1. ASSUME NEW api \in {"set", "set_atomic"}, SetValue(api) PROVE WorkInv'
  <2>1. PICK f \in Frame : f = Call(api, "codec", 0, Default, FALSE)
    BY <1>a, <1>b, CallTyped DEF Api
  <2>2. f.at = buf /\ CallOK(f) /\ Counted(f, buf) /\ ~f.own
    BY <2>1 DEF Call, CallOK, Counted
  <2> QED BY <1>1, <2>1, <2>2, CallWork DEF SetValue
<1>2. ASSUME NEW api \in {"set", "set_atomic"}, NEW size \in 0..Default,
             NEW n \in Requests \cup {Default}, SetContainer(api, size, n)
      PROVE  WorkInv'
  <2>0. n \in 0..Default /\ size \in Nat /\ (n # Default => n \in Requests) /\ 0 <= n
    BY DEF Default
  <2>1. PICK f \in Frame : f = Call(api, "elements", size, n, FALSE)
    BY <1>a, <2>0, CallTyped DEF Api
  <2>2. f.at = buf /\ CallOK(f) /\ Counted(f, buf) /\ ~f.own
    BY <2>0, <2>1 DEF Call, CallOK, Counted
  <2> QED BY <1>2, <2>1, <2>2, CallWork DEF SetContainer
<1>3. ASSUME NEW size \in 0..Default, SetWithSize(size) PROVE WorkInv'
  <2>1. PICK f \in Frame : f = Call("set_with_size", "count", size, Default, FALSE)
    <3>1. size \in Nat /\ "set_with_size" \in Api
      BY <1>b DEF Api
    <3> QED BY <1>a, <1>b, <3>1, CallTyped
  <2>2. f.at = buf /\ CallOK(f) /\ Counted(f, buf) /\ ~f.own
    BY <2>1 DEF Call, CallOK, Counted
  <2> QED BY <1>3, <2>1, <2>2, CallWork DEF SetWithSize
<1>4. ASSUME NEW api \in {"set", "set_atomic", "set_with_size"}, SetOwn(api) PROVE WorkInv'
  <2>1. api # "set_with_size" /\ api \in Api
    BY <1>4 DEF SetOwn, Api
  <2>2. PICK f \in Frame : f = Call(api, "elements", Len(buf), Default, TRUE)
    BY <1>a, <1>b, <2>1, CallTyped
  <2>3. f.at = buf /\ CallOK(f) /\ Counted(f, buf) /\ f.size = Len(buf)
    BY <2>1, <2>2 DEF Call, CallOK, Counted
  <2> QED BY <1>4, <2>1, <2>2, <2>3, CallWork DEF SetOwn
<1>5. ASSUME Assign PROVE WorkInv'
  <2> DEFINE f == [Call("assign", "codec", 0, Default, FALSE) EXCEPT !.at = <<>>]
  <2>1. CallOK(f) /\ Counted(f, <<>>) /\ ~AtStart(f)
    BY DEF Call, CallOK, Counted, AtStart
  <2> HIDE DEF f
  <2>2. PICK st : st = <<f>> /\ Len(st) = 1 /\ \A i \in 1..Len(st) : i = 1 /\ st[i] = f
    <3>1. <<f>> = <<f>> /\ Len(<<f>>) = 1
      OBVIOUS
    <3>2. \A i \in 1..1 : i = 1
      OBVIOUS
    <3>3. <<f>>[1] = f
      OBVIOUS
    <3> QED BY <3>1, <3>2, <3>3
  <2>3. WorkOn(st, <<>>)
    BY <2>1, <2>2 DEF WorkOn
  <2>4. stack' = <<f>> /\ buf' = <<>>
    BY <1>5 DEF Assign, f
  <2> QED BY <2>2, <2>3, <2>4 DEF WorkInv
<1>6. ASSUME NEW b \in Fields, WriteField(b) PROVE WorkInv'
  <2>1. /\ b \in Byte /\ buf' = Append(buf, b) /\ stack' = stack
        /\ stack # <<>> /\ Top.stage = "codec"
    BY <1>6 DEF WriteField, Byte, InCodec
  <2>2. PICK c \in Seq(Byte) : c = buf' /\ Extends(c, buf)
    BY <1>a, <2>1, ExtendsOne
  <2>3. ~AtStart(stack[Len(stack)])
    BY <1>c, <2>1 DEF AtStart
  <2>4. WorkOn(stack, c)
    BY <1>a, <2>1, <2>2, <2>3, GrowWork
  <2> QED BY <2>1, <2>2, <2>4 DEF WorkInv
<1>7. ASSUME WriteCount PROVE WorkInv'
  <2> DEFINE g == [Top EXCEPT !.stage = "elements"]
  <2>1. /\ stack # <<>> /\ Top.stage = "count" /\ Top.size < Default
        /\ buf' = Append(buf, Top.size) /\ stack' = [stack EXCEPT ![Depth] = g]
    BY <1>7 DEF WriteCount, InLibrary, Countable, Top
  <2>2. PICK size \in Byte : size = Top.size
    <3>1. PICK k \in Nat : k = Top.size
      BY <1>c, <2>1 DEF Frame
    <3>2. k \in Byte
      BY <1>b, <2>1, <3>1 DEF Byte, Default
    <3> QED BY <3>1, <3>2
  <2>3. g \in Frame /\ g.at = Top.at /\ g.api = Top.api /\ g.size = size /\ g.stage = "elements"
          /\ g.own = Top.own /\ g.n = Top.n /\ g.written = Top.written
    BY <1>c, <2>1, <2>2 DEF Frame
  <2>4. PICK c \in Seq(Byte) : c = buf' /\ Extends(c, buf) /\ c = Append(buf, size)
    BY <1>a, <2>1, <2>2, ExtendsOne
  <2>5. CallOK(g) /\ ~AtStart(g)
    <3>1. CallOK(Top)
      BY <1>c, <2>1
    <3> QED BY <1>c, <2>1, <2>3, <3>1 DEF CallOK, AtStart
  <2>6. Counted(g, c)
    <3>1. g.at = buf
      <4> HIDE DEF g
      <4>1. Top.at = buf
        BY <1>c, <2>1 DEF AtStart
      <4> QED BY <2>3, <4>1
    <3>2. PICK k \in Nat : k = Len(buf)
      BY <1>b
    <3>3. k < Len(c) /\ c[k + 1] = size
      BY <1>a, <2>4, <3>2
    <3> QED BY <2>3, <3>1, <3>2, <3>3 DEF Counted
  <2> HIDE DEF g
  <2>7. WorkOn([stack EXCEPT ![Len(stack)] = g], c)
    BY <1>a, <1>c, <2>1, <2>3, <2>4, <2>5, <2>6, TopWork
  <2> QED BY <1>c, <2>1, <2>4, <2>7 DEF WorkInv
<1>8. ASSUME WriteBlock PROVE WorkInv'
  <2>1. PICK content \in Blocks(Top) :
          /\ buf' = buf \o content
          /\ stack' = [stack EXCEPT ![Depth].stage = "end", ![Depth].written = Len(content)]
    BY <1>8 DEF WriteBlock
  <2> DEFINE g == [Top EXCEPT !.stage = "end", !.written = Len(content)]
  <2>2. stack # <<>> /\ stack' = [stack EXCEPT ![Depth] = g] /\ Top.stage = "elements"
    BY <1>8, <2>1 DEF WriteBlock, InLibrary, Top
  <2>3. content \in Seq(Byte)
          /\ Len(content) = IF Top.n = Default THEN Top.size ELSE Top.n
    <3>1. CASE Top.own
      <4>1. content = buf /\ Top.at = buf /\ Top.n = Default /\ Top.size = Len(Top.at)
        BY <1>c, <2>2, <3>1 DEF Blocks, CallOK, AtStart
      <4> QED BY <1>a, <4>1
    <3>2. CASE ~Top.own
      <4>1. PICK k \in Nat : k = IF Top.n = Default THEN Top.size ELSE Top.n
        BY <1>c, <2>2 DEF Frame
      <4>2. content \in [1..k -> Fields]
        BY <3>2, <4>1 DEF Blocks
      <4>3. content \in [1..k -> Byte]
        BY <4>2 DEF Byte
      <4>4. content \in Seq(Byte) /\ Len(content) = k
        BY <4>3, SeqDef
      <4> QED BY <4>1, <4>4
    <3> QED BY <1>c, <2>2, <3>1, <3>2 DEF Frame
  <2>4. PICK z \in Nat : z = Len(content)
    BY <2>3
  <2>5. g \in Frame /\ g.at = Top.at /\ g.api = Top.api /\ g.size = Top.size /\ g.stage = "end"
          /\ g.own = Top.own /\ g.n = Top.n /\ g.written = z
    BY <1>c, <2>2, <2>4 DEF Frame
  <2>6. PICK c \in Seq(Byte) : c = buf' /\ Extends(c, buf)
    BY <1>a, <2>1, <2>3, ExtendsMany
  <2>7. CallOK(g) /\ ~AtStart(g)
    <3>1. CallOK(Top)
      BY <1>c, <2>2
    <3> HIDE DEF g
    <3> QED BY <2>3, <2>4, <2>5, <3>1 DEF CallOK, AtStart
  <2>8. Counted(g, c)
    <3> HIDE DEF g
    <3>1. Counted(Top, c)
      BY <1>a, <1>c, <2>2, <2>6, CountedGrows
    <3> QED BY <2>2, <2>5, <3>1 DEF Counted
  <2> HIDE DEF g
  <2>9. WorkOn([stack EXCEPT ![Len(stack)] = g], c)
    BY <1>a, <1>c, <2>2, <2>5, <2>6, <2>7, <2>8, TopWork
  <2> QED BY <1>c, <2>2, <2>6, <2>9 DEF WorkInv
<1>9. ASSUME NextElement PROVE WorkInv'
  <2> DEFINE g == [Top EXCEPT !.written = @ + 1]
             below == [stack EXCEPT ![Depth] = g]
             f == Call("set", "codec", 0, Default, FALSE)
  <2>1. /\ stack # <<>> /\ Top.stage = "elements" /\ ~Top.own /\ ~LoopDone(Top)
        /\ stack' = Append(below, f) /\ buf' = buf
    BY <1>9 DEF NextElement, InLibrary, Top, Enter
  <2>2. PICK w \in Nat : w = Top.written
    BY <1>c, <2>1 DEF Frame
  <2>3. g \in Frame /\ g.at = Top.at /\ g.api = Top.api /\ g.size = Top.size
          /\ g.stage = Top.stage /\ g.own = Top.own /\ g.n = Top.n /\ g.written = w + 1
    BY <1>c, <2>1, <2>2 DEF Frame
  <2>4. g.n # Default /\ 0 \notin Requests => g.written <= g.n
    <3> SUFFICES ASSUME Top.n # Default, 0 \notin Requests PROVE w + 1 <= Top.n
      BY <2>3
    <3>1. PICK n \in Nat : n = Top.n /\ n > 0 /\ w <= n
      <4>1. Top.n \in Requests /\ Top.written <= Top.n
        BY <1>c, <2>1 DEF CallOK
      <4>2. Top.n \in Nat
        BY <1>c, <2>1 DEF Frame
      <4> QED BY <2>2, <4>1, <4>2
    <3>2. ~(w > 0 /\ w = n)
      BY <2>1, <2>2, <3>1 DEF LoopDone
    <3> QED BY <3>1, <3>2
  <2>5. CallOK(g) /\ ~AtStart(g) /\ Counted(g, buf)
    <3>1. CallOK(Top) /\ Counted(Top, buf)
      BY <1>c, <2>1
    <3> HIDE DEF g
    <3> QED BY <2>1, <2>3, <2>4, <3>1 DEF CallOK, AtStart, Counted
  <2> HIDE DEF g
  <2>6. below \in Seq(Frame) /\ WorkOn(below, buf) /\ Len(below) = Len(stack)
          /\ below[Len(below)] = g
    <3>1. Len(stack) \in 1..Len(stack)
      BY <1>a, <2>1, EmptySeq
    <3>2. below = [stack EXCEPT ![Len(stack)] = g]
      BY <1>c, <2>1
    <3>3. WorkOn(below, buf)
      BY <1>a, <1>c, <2>1, <2>3, <2>5, <3>2, TopWork
    <3> HIDE DEF below
    <3>4. below \in Seq(Frame) /\ Len(below) = Len(stack)
      BY <1>a, <2>3, <3>1, <3>2, ExceptSeq
    <3>5. below[Len(stack)] = g
      BY <1>a, <3>1, <3>2
    <3> QED BY <3>3, <3>4, <3>5
  <2>7. f \in Frame /\ f.at = buf /\ CallOK(f) /\ Counted(f, buf)
    <3>1. f \in Frame
      BY <1>a, <1>b, CallTyped DEF Api
    <3> QED BY <3>1 DEF Call, CallOK, Counted
  <2> HIDE DEF below, f
  <2>8. WorkOn(Append(below, f), buf)
    BY <1>a, <2>5, <2>6, <2>7, EnterWork
  <2> QED BY <2>1, <2>8 DEF WorkInv
<1>10. ASSUME Fail \/ Catch \/ UNCHANGED vars PROVE WorkInv'
  <2>1. buf' = buf /\ stack' = stack
    BY <1>10 DEF Fail, Catch, vars
  <2> QED BY <1>a, <2>1 DEF WorkInv
<1>11. ASSUME Return PROVE WorkInv'
  <2>1. stack # <<>> /\ stack' = Below /\ buf' = buf
    BY <1>11 DEF Return
  <2> QED BY <1>a, <2>1, LeaveWork DEF WorkInv
<1>12. ASSUME Unwind PROVE WorkInv'
  <2>1. stack # <<>> /\ stack' = Below /\ (buf' = buf \/ buf' = Top.at)
    BY <1>12, RollbackBytes DEF Unwind
  <2>2. Top.at \in Seq(Byte)
    BY <1>c, <2>1 DEF Frame
  <2>3. PICK c \in Seq(Byte) : c = buf' /\ (c = buf \/ c = Top.at)
    BY <1>a, <2>1, <2>2
  <2>4. WorkOn(Below, c)
    BY <2>1, <2>3, LeaveWork
  <2> QED BY <2>1, <2>3, <2>4 DEF WorkInv
<1>13. ASSUME (\E k \in 0..MaxSize, v \in Fields : Resize(k, v)) \/ Clear
                \/ (\E p \in 0..MaxSize : MoveTo(p))
       PROVE  WorkInv'
  <2>1. stack' = <<>>
    BY <1>13 DEF Resize, Clear, MoveTo, InApplication
  <2>2. buf' \in Seq(Byte)
    BY NextInv DEF IInv, TypeOK
  <2>3. PICK c \in Seq(Byte) : c = buf'
    BY <2>2
  <2>4. WorkOn(<<>>, c)
    BY NoWork
  <2> QED BY <2>1, <2>3, <2>4 DEF WorkInv
<1> QED BY <1>1, <1>2, <1>3, <1>4, <1>5, <1>6, <1>7, <1>8, <1>9, <1>10, <1>11, <1>12,
           <1>13 DEF Next

\* A call that is left without an exception has returned.
LEMMA OnlyReturn ==
  ASSUME IInv, Next, ~raised, stack # <<>>, Len(stack') < Depth
  PROVE  Finished(Top) /\ buf' = buf
<1>1. Depth = Len(stack) /\ Depth \in Nat /\ stack \in Seq(Frame)
  BY DEF IInv, TypeOK, Depth
<1>2. stack' # stack
  BY <1>1
<1>3. ASSUME NEW b \in Seq(Frame), NEW f \in Frame, Len(b) = Depth, stack' = Append(b, f)
      PROVE  FALSE
  <2>1. Len(Append(b, f)) = Depth + 1
    BY <1>3
  <2> QED BY <1>1, <1>3, <2>1
<1>4. ASSUME NEW f, Enter(f, stack) PROVE FALSE
  <2>1. stack' = Append(stack, f) /\ stack' \in Seq(Frame)
    BY <1>4, NextInv DEF Enter, IInv, TypeOK
  <2>2. Len(Append(stack, f)) = Len(stack) + 1
    BY <1>1
  <2> QED BY <1>1, <2>1, <2>2
<1>5. ~NextElement
  <2> SUFFICES ASSUME NextElement PROVE FALSE
    OBVIOUS
  <2> DEFINE g == [Top EXCEPT !.written = @ + 1]
             below == [stack EXCEPT ![Depth] = g]
             f == Call("set", "codec", 0, Default, FALSE)
  <2>1. stack' = Append(below, f)
    BY DEF NextElement, Enter, Top
  <2>2. Top \in Frame /\ Depth \in 1..Len(stack)
    BY <1>1, TopFrame
  <2>3. g \in Frame
    BY <2>2 DEF Frame
  <2>4. f \in Frame
    <3>1. "set" \in Api /\ 0 \in Nat /\ Default \in 0..Default
      BY DEF Api, Default
    <3> QED BY <3>1, CallTyped DEF IInv
  <2> HIDE DEF g, f
  <2>5. below \in Seq(Frame) /\ Len(below) = Depth
    BY <1>1, <2>2, <2>3, ExceptSeq
  <2> QED BY <1>3, <2>1, <2>4, <2>5
<1>6. /\ \A api : ~SetValue(api) /\ ~SetOwn(api)
      /\ \A api, size, n : ~SetContainer(api, size, n)
      /\ \A size : ~SetWithSize(size)
  BY <1>4 DEF SetValue, SetOwn, SetContainer, SetWithSize
<1>7. \A b : ~WriteField(b)
  BY <1>2 DEF WriteField
<1>8. \A k, v : ~Resize(k, v) /\ ~MoveTo(k)
  BY <1>2 DEF Resize, MoveTo
<1>9. ~Assign /\ ~Clear /\ ~Fail /\ ~Catch /\ ~Unwind
  BY <1>2 DEF Assign, InApplication, Clear, Fail, Catch, Unwind
<1>10. \A g : Len([stack EXCEPT ![Depth] = g]) = Len(stack)
  BY <1>1
<1>11. ~WriteCount
  <2>1. \A s : s = [stack EXCEPT ![Depth].stage = "elements"] => Len(s) = Len(stack)
    BY <1>10
  <2> QED BY <1>1, <2>1 DEF WriteCount
<1>12. ~WriteBlock
  <2>1. \A s, c : s = [stack EXCEPT ![Depth].stage = "end", ![Depth].written = Len(c)]
                     => Len(s) = Len(stack)
    BY <1>10
  <2> QED BY <1>1, <2>1 DEF WriteBlock
<1>13. Return
  BY <1>5, <1>6, <1>7, <1>8, <1>9, <1>11, <1>12 DEF Next
<1> QED BY <1>13 DEF Return

\* The invariant of the work, when no call is given the stream's own buffer
\* to write after its size.
LEMMA WorkInvariance ==
  ASSUME "set_with_size" \notin OwnContainers
  PROVE  Spec => [](IInv /\ WorkInv)
<1>1. Init => IInv /\ WorkInv
  BY InitInv, InitWork
<1>2. IInv /\ WorkInv /\ [Next]_vars => (IInv /\ WorkInv)'
  BY NextInv, NextWork
<1> QED BY <1>1, <1>2, PTL DEF Spec

\* What a call has done when it returns.
LEMMA ReturnedWork ==
  ASSUME IInv, WorkInv, stack # <<>>, Finished(Top)
  PROVE  /\ Top.stage \in {"elements", "end"} /\ (Top.n = Default \/ 0 \notin Requests)
               => Top.written = IF Top.n = Default THEN Top.size ELSE Top.n
         /\ Top.api = "set_with_size" => buf[Len(Top.at) + 1] = Top.size
<1>1. Top \in Frame /\ Top = stack[Depth] /\ Depth \in 1..Len(stack)
  BY TopFrame DEF IInv, TypeOK, Depth
<1>2. CallOK(Top) /\ Counted(Top, buf)
  BY <1>1 DEF WorkInv, WorkOn
<1>3. PICK w \in Nat, n \in Nat, size \in Nat :
          w = Top.written /\ n = Top.n /\ size = Top.size
  <2>1. Top.n \in Nat /\ Top.written \in Nat /\ Top.size \in Nat
    BY <1>1 DEF Frame
  <2> QED BY <2>1
<1>4. ASSUME Top.stage \in {"elements", "end"}, Top.n = Default \/ 0 \notin Requests
      PROVE  w = IF n = Default THEN size ELSE n
  <2>1. CASE Top.stage = "end"
    BY <1>2, <1>3, <2>1 DEF CallOK
  <2>2. CASE Top.stage = "elements"
    <3>1. Enough(Top) /\ LoopDone(Top)
      BY <2>2 DEF Finished
    <3>2. n # Default => n <= size
      BY <1>3, <3>1 DEF Enough
    <3>3. w = size \/ (n # Default /\ w = n)
      BY <1>3, <3>1 DEF LoopDone
    <3>4. n # Default => w <= n
      BY <1>2, <1>3, <1>4, <2>2 DEF CallOK
    <3> QED BY <3>2, <3>3, <3>4
  <2> QED BY <1>4, <2>1, <2>2
<1>5. ASSUME Top.api = "set_with_size" PROVE buf[Len(Top.at) + 1] = Top.size
  <2>1. Top.stage # "count"
    BY DEF Finished
  <2> QED BY <1>2, <1>5, <2>1 DEF Counted
<1> QED BY <1>3, <1>4, <1>5

\* set_with_size: a call that returns has announced as many elements as it
\* wrote, whatever the codecs of its elements called, rolled back and caught.
THEOREM CountIsAnnounced ==
  "set_with_size" \notin OwnContainers => (Spec => CountAnnounced)
<1> SUFFICES ASSUME "set_with_size" \notin OwnContainers
             PROVE  Spec => CountAnnounced
  OBVIOUS
<1> DEFINE Announced == ~raised /\ stack # <<>> /\ Len(stack') < Depth
                           /\ Top.api = "set_with_size"
                              => buf'[Len(Top.at) + 1] = Top.written
<1>1. ASSUME IInv, WorkInv, Next, ~raised, stack # <<>>, Len(stack') < Depth,
             Top.api = "set_with_size"
      PROVE  buf'[Len(Top.at) + 1] = Top.written
  <2>1. Finished(Top) /\ buf' = buf
    BY <1>1, OnlyReturn
  <2>2. CallOK(Top)
    BY <1>1, TopFrame DEF IInv, TypeOK, WorkInv, WorkOn, Depth
  <2>3. Top.n = Default /\ Top.stage \in {"elements", "end"}
    BY <1>1, <2>1, <2>2 DEF CallOK, Finished
  <2> QED BY <1>1, <2>1, <2>3, ReturnedWork
<1>2. ASSUME IInv, UNCHANGED vars, Len(stack') < Depth PROVE FALSE
  BY <1>2 DEF vars, Depth, IInv, TypeOK
<1>3. IInv /\ WorkInv /\ [Next]_vars => [Announced]_vars
  BY <1>1, <1>2
<1> HIDE DEF Announced
<1>4. Spec => [][Announced]_vars
  BY <1>3, WorkInvariance, PTL DEF Spec
<1> QED BY <1>4 DEF Announced, CountAnnounced

\* set(container, n), for n other than 0: a call that returns has written the
\* first n elements, and all of them without n.
THEOREM RequestIsHonoured ==
  0 \notin Requests /\ "set_with_size" \notin OwnContainers => (Spec => RequestHonoured)
<1> SUFFICES ASSUME 0 \notin Requests, "set_with_size" \notin OwnContainers
             PROVE  Spec => RequestHonoured
  OBVIOUS
<1> DEFINE Honoured == ~raised /\ stack # <<>> /\ Len(stack') < Depth
                          /\ Top.stage \in {"elements", "end"}
                             => Top.written = IF Top.n = Default THEN Top.size ELSE Top.n
<1>1. ASSUME IInv, WorkInv, Next, ~raised, stack # <<>>,
             Len(stack') < Depth, Top.stage \in {"elements", "end"}
      PROVE  Top.written = IF Top.n = Default THEN Top.size ELSE Top.n
  <2>1. Finished(Top)
    BY <1>1, OnlyReturn
  <2> QED BY <1>1, <2>1, ReturnedWork
<1>2. ASSUME IInv, UNCHANGED vars, Len(stack') < Depth PROVE FALSE
  BY <1>2 DEF vars, Depth, IInv, TypeOK
<1>3. IInv /\ WorkInv /\ [Next]_vars => [Honoured]_vars
  BY <1>1, <1>2
<1> HIDE DEF Honoured
<1>4. Spec => [][Honoured]_vars
  BY <1>3, WorkInvariance, PTL DEF Spec
<1> QED BY <1>4 DEF Honoured, RequestHonoured

=============================================================================
