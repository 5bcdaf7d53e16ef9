---------------------- MODULE ReadTransactionsProofs ----------------------
(***************************************************************************)
(* Proofs about ReadTransactions: its type invariant, the exactness of     *)
(* read_depth_, and that the outermost call keeps the promise of           *)
(* ReadContract.  The last two hold when no codec copies a stream out of a *)
(* running transaction; ReadCopied.cfg shows what happens when one does.   *)
(***************************************************************************)
EXTENDS ReadTransactions, FiniteSetTheorems, TLAPS

\* Two frames stand for the same call: all but stage and dirty agree.
SameCall(f, g) == /\ f.api = g.api
                  /\ f.s = g.s
                  /\ f.at = g.at
                  /\ f.owner = g.owner

---------------------------------------------------------------------------
(* What the actions do to the stack.                                       *)

\* The two fields of a frame that change leave the rest of it alone.
LEMMA FrameUpdate ==
  ASSUME NEW f \in Frame, NEW g \in {"count", "elements", "codec", "end"}
  PROVE  /\ [f EXCEPT !.dirty = TRUE] \in Frame
         /\ SameCall([f EXCEPT !.dirty = TRUE], f)
         /\ [f EXCEPT !.dirty = TRUE].dirty = TRUE
         /\ [f EXCEPT !.dirty = TRUE].stage = f.stage
         /\ [f EXCEPT !.stage = g] \in Frame
         /\ SameCall([f EXCEPT !.stage = g], f)
         /\ [f EXCEPT !.stage = g].dirty = f.dirty
         /\ [f EXCEPT !.stage = g].stage = g
BY DEF Frame, SameCall

\* Leaving a call drops the top frame and at most marks the one below it.
LEMMA PoppedStack ==
  ASSUME stack \in Seq(Frame), stack # <<>>, NEW mark \in BOOLEAN
  PROVE  /\ Popped(mark) \in Seq(Frame)
         /\ Len(Popped(mark)) = Depth - 1
         /\ \A i \in 1..(Depth - 1) :
              /\ SameCall(Popped(mark)[i], stack[i])
              /\ Popped(mark)[i].stage = stack[i].stage
              /\ Popped(mark)[i].dirty
                   = (stack[i].dirty \/ (i = Depth - 1 /\ mark))
<1>1. Depth \in Nat \ {0} /\ \A i \in 1..Depth : stack[i] \in Frame
  BY DEF Depth
<1>2. ASSUME NEW i \in 1..(Depth - 1)
      PROVE  /\ Popped(mark)[i] \in Frame
             /\ SameCall(Popped(mark)[i], stack[i])
             /\ Popped(mark)[i].stage = stack[i].stage
             /\ Popped(mark)[i].dirty = (stack[i].dirty \/ (i = Depth - 1 /\ mark))
  <2>1. stack[i] \in Frame
    BY <1>1
  <2>2. CASE i = Depth - 1 /\ mark
    <3>1. Popped(mark)[i] = [stack[i] EXCEPT !.dirty = TRUE]
      BY <2>2 DEF Popped
    <3> QED BY <2>1, <2>2, <3>1 DEF Frame, SameCall
  <2>3. CASE ~(i = Depth - 1 /\ mark)
    <3>1. Popped(mark)[i] = stack[i]
      BY <2>3 DEF Popped
    <3> QED BY <2>1, <2>3, <3>1 DEF Frame, SameCall
  <2> QED BY <2>2, <2>3
<1>3. Popped(mark) \in Seq(Frame) /\ Len(Popped(mark)) = Depth - 1
  <2>1. DOMAIN Popped(mark) = 1..(Depth - 1) /\ Popped(mark) = [i \in 1..(Depth - 1) |-> Popped(mark)[i]]
    BY DEF Popped
  <2> QED BY <1>1, <1>2, <2>1
<1> QED BY <1>2, <1>3

\* Reading a field marks at most the top frame.
LEMMA TouchedStack ==
  ASSUME stack \in Seq(Frame)
  PROVE  /\ Touched \in Seq(Frame)
         /\ Len(Touched) = Depth
         /\ \A i \in 1..Depth :
              /\ SameCall(Touched[i], stack[i])
              /\ Touched[i].dirty =
                   (stack[i].dirty \/ (i = Depth /\ InCodec /\ stack[i].api \in InPlace))
<1>1. CASE stack = <<>>
  BY <1>1 DEF Touched, InCodec, Depth
<1>2. CASE stack # <<>>
  <2>1. Depth \in Nat \ {0} /\ \A i \in 1..Depth : stack[i] \in Frame
    BY <1>2 DEF Depth
  <2>2. Depth = Len(stack) /\ Depth \in 1..Depth /\ stack[Depth] \in Frame
    BY <2>1 DEF Depth
  <2>3. CASE ~(InCodec /\ Top.api \in InPlace)
    <3>1. Touched = stack
      BY <2>3 DEF Touched
    <3>2. ASSUME NEW i \in 1..Depth
          PROVE  i = Depth /\ InCodec /\ stack[i].api \in InPlace => FALSE
      BY <2>3 DEF Top
    <3> QED BY <2>1, <2>2, <3>1, <3>2 DEF SameCall, Frame
  <2>4. CASE InCodec /\ Top.api \in InPlace
    <3> DEFINE marked == [stack[Depth] EXCEPT !.dirty = TRUE]
    <3>1. Touched = [stack EXCEPT ![Depth] = marked]
      BY <2>2, <2>4 DEF Touched
    <3>2. /\ marked \in Frame
          /\ SameCall(marked, stack[Depth])
          /\ marked.dirty = TRUE
      BY <2>2, FrameUpdate
    <3> HIDE DEF marked
    <3>3. Touched \in Seq(Frame) /\ Len(Touched) = Depth
      BY <2>2, <3>1, <3>2
    <3>4. ASSUME NEW i \in 1..Depth, i # Depth
          PROVE  Touched[i] = stack[i]
      BY <2>2, <3>1, <3>4
    <3>5. Touched[Depth] = marked
      BY <2>2, <3>1
    <3>6. stack[Depth].api \in InPlace
      BY <2>4 DEF Top
    <3> QED BY <2>1, <2>2, <2>4, <3>2, <3>3, <3>4, <3>5, <3>6 DEF SameCall, Frame
  <2> QED BY <2>3, <2>4
<1> QED BY <1>1, <1>2

\* The body of a counted read goes on to its next stage.
LEMMA StagedStack ==
  ASSUME stack \in Seq(Frame), stack # <<>>,
         NEW stage \in {"count", "elements", "codec", "end"}
  PROVE  LET staged == [stack EXCEPT ![Depth].stage = stage]
         IN  /\ staged \in Seq(Frame)
             /\ Len(staged) = Depth
             /\ \A i \in 1..Depth : /\ SameCall(staged[i], stack[i])
                                    /\ staged[i].dirty = stack[i].dirty
<1> DEFINE staged == [stack[Depth] EXCEPT !.stage = stage]
<1>1. Depth \in Nat \ {0} /\ \A i \in 1..Depth : stack[i] \in Frame
  BY DEF Depth
<1>2. Depth = Len(stack) /\ Depth \in 1..Depth /\ stack[Depth] \in Frame
  BY <1>1 DEF Depth
<1>3. /\ staged \in Frame
      /\ SameCall(staged, stack[Depth])
      /\ staged.dirty = stack[Depth].dirty
  BY <1>2, FrameUpdate
<1>4. [stack EXCEPT ![Depth].stage = stage] = [stack EXCEPT ![Depth] = staged]
  BY <1>2
<1> HIDE DEF staged
<1> QED BY <1>1, <1>2, <1>3, <1>4 DEF SameCall

---------------------------------------------------------------------------
(* The inductive invariant.                                                *)

\* The frames of the stack, one by one.
LEMMA StackFrames ==
  ASSUME TypeOK
  PROVE  /\ Depth \in Nat
         /\ \A i \in 1..Depth : /\ stack[i] \in Frame
                                /\ stack[i].api \in Api
                                /\ stack[i].s \in Streams
                                /\ stack[i].at \in 0..Size
                                /\ stack[i].owner \in BOOLEAN
                                /\ stack[i].dirty \in BOOLEAN
<1>1. Depth \in Nat /\ \A i \in 1..Depth : stack[i] \in Frame
  BY DEF TypeOK, Depth
<1>2. \A f \in Frame : /\ f.api \in Api /\ f.s \in Streams /\ f.at \in 0..Size
                       /\ f.owner \in BOOLEAN /\ f.dirty \in BOOLEAN
  BY DEF Frame
<1> QED BY <1>1, <1>2

LEMMA InitInv == Init => IInv
<1> SUFFICES ASSUME Init PROVE IInv
  OBVIOUS
<1>1. Depth = 0
  BY DEF Init, Depth
<1>2. TypeOK
  <2>1. 0 \in 0..Size
    BY ReadAssumption
  <2>2. stack \in Seq(Frame)
    BY DEF Init
  <2>3. pos \in [Streams -> 0..Size] /\ depth \in [Streams -> 0..1]
    BY <2>1 DEF Init
  <2>4. raised \in BOOLEAN
    BY DEF Init
  <2> QED BY <2>2, <2>3, <2>4 DEF TypeOK
<1> QED BY <1>1, <1>2 DEF Init, IInv, SoleOwner, OwnedDepth, NoLeak, Owners,
             OwnersTransact, DirtyInPlace, TransactionsCovered

\* A step that keeps the calls in progress and read_depth_.
LEMMA KeepStep ==
  ASSUME IInv,
         stack' \in Seq(Frame), Len(stack') = Depth,
         \A i \in 1..Depth : /\ SameCall(stack'[i], stack[i])
                             /\ stack'[i].dirty => stack[i].dirty \/ stack[i].api \in InPlace,
         pos' \in [Streams -> 0..Size], depth' = depth, raised' \in BOOLEAN
  PROVE  IInv'
<1>1. Depth' = Depth /\ Depth \in Nat
  BY DEF Depth, IInv, TypeOK
<1>2. \A s \in Streams : Owners(s)' = Owners(s)
  BY <1>1 DEF Owners, SameCall
<1>3. TypeOK'
  BY DEF TypeOK, IInv
<1>4. (SoleOwner /\ OwnedDepth)'
  BY <1>2 DEF IInv, SoleOwner, OwnedDepth
<1>5. (OwnersTransact /\ DirtyInPlace)'
  BY <1>1 DEF IInv, OwnersTransact, DirtyInPlace, SameCall
<1>6. ASSUME ~CopyDuringRead PROVE NoLeak'
  BY <1>2, <1>6 DEF IInv, NoLeak
<1>7. ASSUME ~CopyDuringRead PROVE TransactionsCovered'
  BY <1>1, <1>7 DEF IInv, TransactionsCovered, SameCall
<1> QED BY <1>3, <1>4, <1>5, <1>6, <1>7 DEF IInv

\* A call is entered: it becomes the owner exactly when nobody else is.
LEMMA EnterStep ==
  ASSUME IInv, NEW api \in Api, NEW s \in Streams,
         NEW below \in Seq(Frame), Len(below) = Depth,
         \A i \in 1..Depth : /\ SameCall(below[i], stack[i])
                             /\ below[i].dirty = stack[i].dirty,
         Enter(api, s, below)
  PROVE  IInv'
<1> DEFINE own == TakesOwnership(api, s)
           top == [api |-> api, s |-> s, at |-> pos[s], owner |-> own,
                   stage |-> IF api \in WithSize THEN "count" ELSE "codec",
                   dirty |-> FALSE]
<1>1. Depth \in Nat /\ pos[s] \in 0..Size /\ depth[s] \in 0..1 /\ own \in BOOLEAN
  BY DEF IInv, TypeOK, Depth, TakesOwnership
<1>2. /\ top \in Frame /\ top.api = api /\ top.s = s
      /\ top.owner = own /\ top.dirty = FALSE
  BY <1>1 DEF Frame
<1>3. stack' = Append(below, top)
  BY DEF Enter
<1>4. depth' = IF own THEN [depth EXCEPT ![s] = @ + 1] ELSE depth
  BY DEF Enter
<1>5. own <=> api \in Transactional /\ depth[s] = 0
  BY DEF TakesOwnership
<1> HIDE DEF top, own
<1>6. /\ stack' \in Seq(Frame)
      /\ Depth' = Depth + 1
      /\ stack'[Depth + 1] = top
      /\ \A i \in 1..Depth : stack'[i] = below[i]
  BY <1>1, <1>2, <1>3 DEF Depth
<1>7. \A r \in Streams : Owners(r)' = IF own /\ r = s THEN Owners(r) \cup {Depth + 1}
                                                     ELSE Owners(r)
  BY <1>1, <1>2, <1>6 DEF Owners, SameCall
<1>8. own => Owners(s) = {}
  BY <1>5 DEF IInv, OwnedDepth
<1>9. \A r \in Streams : depth'[r] = IF own /\ r = s THEN 1 ELSE depth[r]
  BY <1>1, <1>4, <1>5 DEF IInv, TypeOK
<1>10. TypeOK'
  <2>1. depth' \in [Streams -> 0..1]
    BY <1>1, <1>4, <1>5 DEF IInv, TypeOK
  <2> QED BY <1>6, <2>1 DEF IInv, TypeOK, Enter
<1>11. SoleOwner'
  BY <1>7, <1>8 DEF IInv, SoleOwner
<1>12. OwnedDepth'
  BY <1>7, <1>8, <1>9 DEF IInv, OwnedDepth
<1>13. OwnersTransact' /\ DirtyInPlace'
  <2> SUFFICES ASSUME NEW i \in 1..(Depth + 1)
               PROVE  /\ stack'[i].owner => stack'[i].api \in Transactional
                      /\ stack'[i].dirty => stack'[i].api \in InPlace
    BY <1>6 DEF OwnersTransact, DirtyInPlace
  <2>1. CASE i = Depth + 1
    BY <1>2, <1>5, <1>6, <2>1
  <2>2. CASE i \in 1..Depth
    BY <1>6, <2>2 DEF IInv, OwnersTransact, DirtyInPlace, SameCall
  <2> QED BY <1>1, <2>1, <2>2
<1>14. ASSUME ~CopyDuringRead PROVE NoLeak'
  BY <1>7, <1>9, <1>14 DEF IInv, NoLeak
<1>15. ASSUME ~CopyDuringRead PROVE TransactionsCovered'
  <2> SUFFICES ASSUME NEW i \in 1..(Depth + 1), stack'[i].api \in Transactional
               PROVE  \E j \in 1..i : stack'[j].owner /\ stack'[j].s = stack'[i].s
    BY <1>6 DEF TransactionsCovered
  <2>1. CASE i = Depth + 1 /\ own
    BY <1>1, <1>2, <1>6, <2>1
  <2>2. CASE i = Depth + 1 /\ ~own
    <3>1. depth[s] # 0
      BY <1>2, <1>5, <1>6, <2>2
    <3>2. PICK j \in 1..Depth : stack[j].owner /\ stack[j].s = s
      BY <1>15, <3>1 DEF IInv, NoLeak, Owners
    <3>3. stack'[j].owner /\ stack'[j].s = s
      BY <1>6, <3>2 DEF SameCall
    <3> QED BY <1>1, <1>2, <1>6, <2>2, <3>3
  <2>3. CASE i \in 1..Depth
    <3>1. stack[i].api \in Transactional /\ stack'[i].s = stack[i].s
      BY <1>6, <2>3 DEF SameCall
    <3>2. PICK j \in 1..i : stack[j].owner /\ stack[j].s = stack[i].s
      BY <1>15, <2>3, <3>1 DEF IInv, TransactionsCovered
    <3>3. stack'[j].owner /\ stack'[j].s = stack[i].s
      BY <1>1, <1>6, <2>3, <3>2 DEF SameCall
    <3> QED BY <3>1, <3>3
  <2> QED BY <1>1, <2>1, <2>2, <2>3
<1> QED BY <1>10, <1>11, <1>12, <1>13, <1>14, <1>15 DEF IInv

\* A call is left, normally or by an exception: only its owner lowers read_depth_.
LEMMA LeaveStep ==
  ASSUME IInv, stack # <<>>, NEW mark \in BOOLEAN,
         mark => Depth > 1 /\ stack[Depth - 1].api \in InPlace,
         stack' = Popped(mark), depth' = DepthAfterExit(Top),
         pos' \in [Streams -> 0..Size], raised' \in BOOLEAN
  PROVE  IInv'
<1> DEFINE s == Top.s
<1>1. /\ Depth \in Nat \ {0}
      /\ \A i \in 1..Depth : stack[i] \in Frame
      /\ Top \in Frame /\ s \in Streams /\ Top.owner \in BOOLEAN
  <2>1. Depth \in Nat \ {0} /\ \A i \in 1..Depth : stack[i] \in Frame
    BY DEF IInv, TypeOK, Depth
  <2>2. Top \in Frame
    BY <2>1 DEF Top
  <2> QED BY <2>1, <2>2 DEF Frame
<1>2. /\ stack' \in Seq(Frame)
      /\ Depth' = Depth - 1
      /\ \A i \in 1..(Depth - 1) :
           /\ SameCall(stack'[i], stack[i])
           /\ stack'[i].dirty = (stack[i].dirty \/ (i = Depth - 1 /\ mark))
  BY PoppedStack DEF IInv, TypeOK, Depth
<1>3. \A r \in Streams : Owners(r)' = Owners(r) \ {Depth}
  BY <1>1, <1>2 DEF Owners, SameCall
<1>4. Top.owner => /\ Depth \in Owners(s) /\ depth[s] = 1
                   /\ depth' = [depth EXCEPT ![s] = 0]
  <2> SUFFICES ASSUME Top.owner
               PROVE  /\ Depth \in Owners(s) /\ depth[s] = 1
                      /\ depth' = [depth EXCEPT ![s] = 0]
    OBVIOUS
  <2>1. Depth \in Owners(s)
    BY <1>1 DEF Owners, Top
  <2>2. depth[s] = 1
    BY <1>1, <2>1 DEF IInv, OwnedDepth
  <2> QED BY <1>1, <2>1, <2>2 DEF DepthAfterExit
<1>5. ~Top.owner => depth' = depth /\ \A r \in Streams : Depth \notin Owners(r)
  BY DEF DepthAfterExit, Owners, Top
<1>6. \A r \in Streams : r # s => Depth \notin Owners(r)
  BY DEF Owners, Top
<1> HIDE DEF s
<1>7. TypeOK'
  <2>1. depth \in [Streams -> 0..1] /\ 0 \in 0..1
    BY DEF IInv, TypeOK
  <2>2. depth' \in [Streams -> 0..1]
    BY <1>1, <1>4, <1>5, <2>1
  <2> QED BY <1>2, <2>2 DEF TypeOK
<1>8. SoleOwner'
  BY <1>3 DEF IInv, SoleOwner
<1>9. OwnedDepth'
  <2> SUFFICES ASSUME NEW r \in Streams, NEW i \in Owners(r) \ {Depth}
               PROVE  depth'[r] = 1
    BY <1>3 DEF OwnedDepth
  <2>1. depth[r] = 1
    BY DEF IInv, OwnedDepth
  <2>2. Top.owner => r # s
    BY <1>4 DEF IInv, SoleOwner
  <2> QED BY <1>1, <1>4, <1>5, <2>1, <2>2 DEF IInv, TypeOK
<1>10. OwnersTransact' /\ DirtyInPlace'
  <2> SUFFICES ASSUME NEW i \in 1..(Depth - 1)
               PROVE  /\ stack'[i].owner => stack'[i].api \in Transactional
                      /\ stack'[i].dirty => stack'[i].api \in InPlace
    BY <1>2 DEF OwnersTransact, DirtyInPlace
  <2>1. i \in 1..Depth
    BY <1>1
  <2> QED BY <1>2, <2>1 DEF IInv, OwnersTransact, DirtyInPlace, SameCall
<1>11. ASSUME ~CopyDuringRead PROVE NoLeak'
  <2> SUFFICES ASSUME NEW r \in Streams, depth'[r] # 0
               PROVE  Owners(r) \ {Depth} # {}
    BY <1>3 DEF NoLeak
  <2>1. CASE Top.owner
    <3>1. r # s /\ depth[r] # 0
      BY <1>1, <1>4, <2>1 DEF IInv, TypeOK
    <3> QED BY <1>6, <1>11, <3>1 DEF IInv, NoLeak
  <2>2. CASE ~Top.owner
    BY <1>5, <1>11, <2>2 DEF IInv, NoLeak
  <2> QED BY <2>1, <2>2
<1>12. ASSUME ~CopyDuringRead PROVE TransactionsCovered'
  <2> SUFFICES ASSUME NEW i \in 1..(Depth - 1), stack'[i].api \in Transactional
               PROVE  \E j \in 1..i : stack'[j].owner /\ stack'[j].s = stack'[i].s
    BY <1>2 DEF TransactionsCovered
  <2>1. i \in 1..Depth
    BY <1>1
  <2>2. stack[i].api \in Transactional /\ stack'[i].s = stack[i].s
    BY <1>2 DEF SameCall
  <2>3. PICK j \in 1..i : stack[j].owner /\ stack[j].s = stack[i].s
    BY <1>12, <2>1, <2>2 DEF IInv, TransactionsCovered
  <2>4. stack'[j].owner /\ stack'[j].s = stack[i].s
    BY <1>1, <1>2, <2>3 DEF SameCall
  <2> QED BY <2>2, <2>4
<1> QED BY <1>7, <1>8, <1>9, <1>10, <1>11, <1>12 DEF IInv

\* A copy brings the source's read_depth_ along.
LEMMA CopyStep ==
  ASSUME IInv, NEW s \in Streams, NEW t \in Streams, CopyStream(s, t)
  PROVE  IInv'
<1>1. /\ stack' = stack /\ Depth' = Depth
      /\ depth' = [depth EXCEPT ![t] = depth[s]]
      /\ \A r \in Streams : Owners(r)' = Owners(r)
  BY DEF CopyStream, Depth, Owners
<1>2. Owners(t) = {}
  BY DEF CopyStream, Owners
<1>3. TypeOK'
  BY <1>1 DEF IInv, TypeOK, CopyStream
<1>4. (SoleOwner /\ OwnedDepth)'
  BY <1>1, <1>2 DEF IInv, SoleOwner, OwnedDepth, TypeOK
<1>5. (OwnersTransact /\ DirtyInPlace)'
  BY <1>1 DEF IInv, OwnersTransact, DirtyInPlace
<1>6. ASSUME ~CopyDuringRead PROVE NoLeak'
  <2>1. depth[s] = 0
    BY <1>6 DEF CopyStream
  <2> QED BY <1>1, <1>6, <2>1 DEF IInv, NoLeak, TypeOK
<1>7. ASSUME ~CopyDuringRead PROVE TransactionsCovered'
  BY <1>1, <1>7 DEF IInv, TransactionsCovered
<1> QED BY <1>3, <1>4, <1>5, <1>6, <1>7 DEF IInv

\* Every step keeps the invariant.
LEMMA NextInv == IInv /\ [Next]_vars => IInv'
<1> SUFFICES ASSUME IInv, [Next]_vars PROVE IInv'
  OBVIOUS
<1>a. /\ TypeOK /\ Depth \in Nat
      /\ \A i \in 1..Depth : stack[i] \in Frame /\ stack[i].s \in Streams
      /\ \A i \in 1..Depth : stack[i].at \in 0..Size /\ SameCall(stack[i], stack[i])
  BY StackFrames DEF IInv, SameCall
<1>b. stack # <<>> => Depth \in 1..Depth
  BY <1>a DEF Depth, TypeOK
<1>1. ASSUME NEW api \in Api, NEW s \in Streams, Call(api, s) PROVE IInv'
  BY <1>1, <1>a, EnterStep DEF Call, TypeOK, Depth
<1>2. ASSUME NEW n \in Widths, ReadCount(n) PROVE IInv'
  <2>1. stack # <<>> /\ Top.s \in Streams
    BY <1>2, <1>a, <1>b DEF ReadCount, Top
  <2>2. pos' \in [Streams -> 0..Size]
    <3>1. ASSUME n <= Remaining(Top.s)
          PROVE  pos[Top.s] + n \in 0..Size
      BY <1>a, <2>1, <3>1, ReadAssumption DEF TypeOK, Remaining
    <3> QED BY <1>2, <1>a, <2>1, <3>1 DEF ReadCount, TypeOK
  <2>3. CASE stack' = stack
    BY <1>2, <1>a, <2>2, <2>3, KeepStep DEF ReadCount, TypeOK, Depth
  <2>4. CASE stack' = [stack EXCEPT ![Depth].stage = "elements"]
    <3>1. /\ stack' \in Seq(Frame) /\ Len(stack') = Depth
          /\ \A i \in 1..Depth : /\ SameCall(stack'[i], stack[i])
                                 /\ stack'[i].dirty = stack[i].dirty
      BY <1>a, <2>1, <2>4, StagedStack DEF TypeOK
    <3> QED BY <1>2, <1>a, <2>2, <3>1, KeepStep DEF ReadCount, TypeOK
  <2> QED BY <1>2, <2>3, <2>4 DEF ReadCount
<1>3. ASSUME ReadElements PROVE IInv'
  <2> DEFINE below == [stack EXCEPT ![Depth].stage = "end"]
  <2>1. stack # <<>> /\ Top.s \in Streams
    BY <1>3, <1>a, <1>b DEF ReadElements, Top
  <2>2. /\ below \in Seq(Frame) /\ Len(below) = Depth
        /\ \A i \in 1..Depth : /\ SameCall(below[i], stack[i])
                               /\ below[i].dirty = stack[i].dirty
    BY <1>a, <2>1, StagedStack DEF TypeOK
  <2>3. Enter("get_to", Top.s, below) /\ "get_to" \in Api
    BY <1>3 DEF ReadElements, Api
  <2> HIDE DEF below
  <2> QED BY <2>1, <2>2, <2>3, EnterStep
<1>4. ASSUME NEW n \in Widths, ReadField(n) PROVE IInv'
  <2>1. stack # <<>> /\ Top.s \in Streams
    BY <1>4, <1>a, <1>b DEF ReadField, InCodec, Top
  <2>2. CASE n <= Remaining(Top.s)
    <3>1. pos[Top.s] + n \in 0..Size
      BY <1>a, <2>1, <2>2, ReadAssumption DEF TypeOK, Remaining
    <3>2. pos' \in [Streams -> 0..Size]
      BY <1>4, <1>a, <2>1, <2>2, <3>1 DEF ReadField, TypeOK
    <3>3. stack' = Touched /\ depth' = depth /\ raised' = raised
      BY <1>4, <2>2 DEF ReadField
    <3>4. /\ stack' \in Seq(Frame) /\ Len(stack') = Depth
          /\ \A i \in 1..Depth :
               /\ SameCall(stack'[i], stack[i])
               /\ stack'[i].dirty => stack[i].dirty \/ stack[i].api \in InPlace
      BY <1>a, <3>3, TouchedStack DEF TypeOK
    <3> QED BY <1>a, <3>2, <3>3, <3>4, KeepStep DEF TypeOK
  <2>3. CASE ~(n <= Remaining(Top.s))
    BY <1>4, <1>a, <2>3, KeepStep DEF ReadField, TypeOK, Depth
  <2> QED BY <2>2, <2>3
<1>5. ASSUME Reject PROVE IInv'
  BY <1>5, <1>a, KeepStep DEF Reject, TypeOK, Depth
<1>6. ASSUME NEW s \in Streams, NEW p \in 0..Size, Seek(s, p) PROVE IInv'
  <2>1. pos' \in [Streams -> 0..Size]
    BY <1>6, <1>a DEF Seek, TypeOK
  <2> QED BY <1>6, <1>a, <2>1, KeepStep DEF Seek, TypeOK, Depth
<1>7. ASSUME NEW s \in Streams, NEW t \in Streams, CopyStream(s, t) PROVE IInv'
  BY <1>7, CopyStep
<1>8. ASSUME Catch PROVE IInv'
  BY <1>8, <1>a, KeepStep DEF Catch, TypeOK, Depth
<1>9. ASSUME Return PROVE IInv'
  <2> DEFINE mark == Depth > 1 /\ stack[Depth - 1].api \in InPlace
  <2>1. mark \in BOOLEAN
    OBVIOUS
  <2>2. /\ stack # <<>> /\ stack' = Popped(mark) /\ depth' = DepthAfterExit(Top)
        /\ pos' = pos /\ raised' = raised
    BY <1>9 DEF Return
  <2>3. mark => Depth > 1 /\ stack[Depth - 1].api \in InPlace
    OBVIOUS
  <2> HIDE DEF mark
  <2> QED BY <1>a, <2>1, <2>2, <2>3, LeaveStep DEF TypeOK
<1>10. ASSUME Unwind PROVE IInv'
  <2> DEFINE mark == Depth > 1 /\ stack[Depth - 1].api \in InPlace /\ Top.dirty
  <2>1. mark \in BOOLEAN
    OBVIOUS
  <2>2. /\ stack # <<>> /\ stack' = Popped(mark) /\ depth' = DepthAfterExit(Top)
        /\ pos' = PosAfterThrow(Top) /\ raised' = raised
    BY <1>10 DEF Unwind
  <2>3. mark => Depth > 1 /\ stack[Depth - 1].api \in InPlace
    OBVIOUS
  <2>4. Top.s \in Streams /\ Top.at \in 0..Size
    BY <1>a, <1>b, <2>2 DEF Top
  <2>5. pos' \in [Streams -> 0..Size]
    BY <1>a, <2>2, <2>4 DEF PosAfterThrow, TypeOK
  <2> HIDE DEF mark
  <2> QED BY <1>a, <2>1, <2>2, <2>3, <2>5, LeaveStep DEF TypeOK
<1>11. ASSUME UNCHANGED vars PROVE IInv'
  BY <1>11, <1>a, KeepStep DEF vars, TypeOK, Depth
<1> QED BY <1>1, <1>2, <1>3, <1>4, <1>5, <1>6, <1>7, <1>8, <1>9, <1>10, <1>11 DEF Next

THEOREM Invariance == Spec => []IInv
BY InitInv, NextInv, PTL DEF Spec

\* Positions stay inside the buffer, read_depth_ is 0 or 1, for any number of
\* streams and any nesting (read_transaction, 1248-1265).
THEOREM TypeCorrect == Spec => []TypeOK
<1>1. IInv => TypeOK
  BY DEF IInv
<1> QED BY <1>1, Invariance, PTL

\* read_depth_ is exactly the number of transactions in progress.
THEOREM OwnershipIsExact ==
  ASSUME CopyDuringRead = FALSE
  PROVE  Spec => []OwnershipExact
<1>1. IInv => OwnershipExact
  <2> SUFFICES ASSUME IInv, NEW s \in Streams
               PROVE  depth[s] = Cardinality(Owners(s))
    BY DEF OwnershipExact
  <2>1. depth[s] \in 0..1
    BY DEF IInv, TypeOK
  <2>2. CASE Owners(s) = {}
    BY <2>1, <2>2, FS_EmptySet DEF IInv, NoLeak
  <2>3. CASE Owners(s) # {}
    <3>1. PICK i : i \in Owners(s)
      BY <2>3
    <3>2. Owners(s) = {i}
      BY <3>1 DEF IInv, SoleOwner
    <3>3. depth[s] = 1
      BY <3>1 DEF IInv, OwnedDepth
    <3> QED BY <3>2, <3>3, FS_Singleton
  <2> QED BY <2>2, <2>3
<1> QED BY <1>1, Invariance, PTL

---------------------------------------------------------------------------
(* The refinement of ReadContract.                                         *)

\* A step that leaves the outermost frame on the stack is work of its call.
LEMMA WorkStep ==
  ASSUME TypeOK, stack # <<>>, stack' # <<>>,
         pos' \in [Streams -> 0..Size], raised' \in BOOLEAN,
         SameCall(stack'[1], stack[1]), stack'[1] \in Frame,
         stack[1].dirty => stack'[1].dirty,
         stack'[1].dirty => stack[1].dirty \/ stack[1].api \in InPlace
  PROVE  Contract!Work
<1> DEFINE c == [api |-> stack[1].api, s |-> stack[1].s,
                 at |-> stack[1].at, dirty |-> stack[1].dirty]
           d == [api |-> stack'[1].api, s |-> stack'[1].s,
                 at |-> stack'[1].at, dirty |-> stack'[1].dirty]
<1>1. OutermostCall = <<c>> /\ OutermostCall' = <<d>>
  BY DEF OutermostCall
<1>2. stack[1].dirty \in BOOLEAN /\ stack'[1].dirty \in BOOLEAN
  <2>1. stack[1] \in Frame
    BY DEF TypeOK
  <2> QED BY <2>1 DEF Frame
<1>3. d = [c EXCEPT !.dirty = stack'[1].dirty]
  BY DEF SameCall
<1>4. CASE stack'[1].dirty = stack[1].dirty
  <2>1. d = c
    BY <1>4 DEF SameCall
  <2> QED BY <1>1, <2>1 DEF Contract!Work, Contract!Positions
<1>5. CASE stack'[1].dirty # stack[1].dirty
  <2>1. stack'[1].dirty = TRUE /\ stack[1].api \notin TargetAtomic
    BY <1>2, <1>5 DEF InPlace, TargetAtomic
  <2>2. OutermostCall[1] = c
    BY <1>1
  <2>3. OutermostCall' = <<[OutermostCall[1] EXCEPT !.dirty = TRUE]>>
    BY <1>1, <1>3, <2>1, <2>2
  <2>4. OutermostCall[1].api \notin TargetAtomic
    BY <2>1, <2>2
  <2>5. OutermostCall # <<>>
    BY <1>1
  <2> QED BY <2>3, <2>4, <2>5 DEF Contract!Work, Contract!Positions
<1> QED BY <1>4, <1>5

\* A call entered from the application begins; one entered from a codec is work.
LEMMA EnterRefines ==
  ASSUME IInv, IInv', NEW api \in Api, NEW s \in Streams,
         NEW below \in Seq(Frame), Len(below) = Depth,
         \A i \in 1..Depth : /\ SameCall(below[i], stack[i])
                             /\ below[i].dirty = stack[i].dirty,
         ~raised, Enter(api, s, below)
  PROVE  Contract!Next
<1> DEFINE top == [api |-> api, s |-> s, at |-> pos[s], owner |-> TakesOwnership(api, s),
                   stage |-> IF api \in WithSize THEN "count" ELSE "codec",
                   dirty |-> FALSE]
<1>1. stack' = Append(below, top) /\ pos' = pos /\ raised' = raised
  BY DEF Enter
<1>2. TypeOK /\ TypeOK' /\ Depth \in Nat /\ Depth = Len(stack)
  BY StackFrames DEF IInv, Depth
<1>3. CASE stack = <<>>
  <2>1. below = <<>>
    BY <1>2, <1>3
  <2>2. Len(stack') = 1 /\ stack'[1] = top /\ stack' # <<>>
    BY <1>1, <2>1
  <2>3. /\ OutermostCall = <<>>
        /\ OutermostCall' = <<[api |-> api, s |-> s, at |-> pos[s], dirty |-> FALSE]>>
    <3>1. /\ stack'[1].api = api /\ stack'[1].s = s
          /\ stack'[1].at = pos[s] /\ stack'[1].dirty = FALSE
      BY <2>2
    <3> HIDE DEF top
    <3> QED BY <1>3, <2>2, <3>1 DEF OutermostCall
  <2>4. Contract!Begin(api, s)
    BY <1>1, <2>3 DEF Contract!Begin
  <2> QED BY <2>4 DEF Contract!Next
<1>4. CASE stack # <<>>
  <2>1. 1 \in 1..Depth
    BY <1>2, <1>4 DEF TypeOK
  <2>2. stack' # <<>> /\ stack'[1] = below[1]
    BY <1>1, <1>2, <2>1
  <2>3. stack'[1] \in Frame
    BY <1>2, <2>2 DEF TypeOK
  <2>4. Contract!Work
    BY <1>2, <1>4, <2>1, <2>2, <2>3, WorkStep DEF TypeOK
  <2> QED BY <2>4 DEF Contract!Next
<1> QED BY <1>3, <1>4

\* A nested call that is left is work of the outermost one.
LEMMA LeaveRefines ==
  ASSUME IInv, IInv', Depth > 1, NEW mark \in BOOLEAN,
         mark => stack[Depth - 1].api \in InPlace,
         stack' = Popped(mark)
  PROVE  Contract!Next
<1>1. TypeOK /\ TypeOK' /\ Depth \in Nat /\ Depth = Len(stack) /\ stack # <<>>
  BY StackFrames DEF IInv, Depth
<1>2. /\ Len(stack') = Depth - 1 /\ 1 \in 1..(Depth - 1)
      /\ \A i \in 1..(Depth - 1) :
              /\ SameCall(stack'[i], stack[i])
              /\ stack'[i].dirty = (stack[i].dirty \/ (i = Depth - 1 /\ mark))
  BY <1>1, PoppedStack DEF TypeOK
<1>3. stack' # <<>> /\ stack'[1] \in Frame
  BY <1>1, <1>2 DEF TypeOK
<1>4. Contract!Work
  BY <1>1, <1>2, <1>3, WorkStep DEF TypeOK
<1> QED BY <1>4 DEF Contract!Next

\* Any other step with a call in progress keeps every frame: it is work too.
LEMMA KeepRefines ==
  ASSUME IInv, IInv', stack # <<>>, Len(stack') = Depth,
         \A i \in 1..Depth :
            /\ SameCall(stack'[i], stack[i])
            /\ stack[i].dirty => stack'[i].dirty
            /\ stack'[i].dirty => stack[i].dirty \/ stack[i].api \in InPlace
  PROVE  Contract!Next
<1>1. TypeOK /\ TypeOK' /\ Depth \in Nat /\ Depth = Len(stack) /\ 1 \in 1..Depth
  <2>1. TypeOK /\ TypeOK' /\ Depth \in Nat /\ Depth = Len(stack)
    BY StackFrames DEF IInv, Depth
  <2> QED BY <2>1 DEF TypeOK
<1>2. stack' # <<>> /\ stack'[1] \in Frame
  BY <1>1 DEF TypeOK
<1>3. Contract!Work
  BY <1>1, <1>2, WorkStep DEF TypeOK
<1> QED BY <1>3 DEF Contract!Next

\* The outermost call of a transactional function is its stream's owner, and
\* the strong form has not been given the chance to touch its target.
LEMMA OutermostOwns ==
  ASSUME IInv, CopyDuringRead = FALSE, stack # <<>>
  PROVE  /\ stack[1].owner <=> stack[1].api \in Transactional
         /\ stack[1].api \in TargetAtomic => ~stack[1].dirty
<1>1. 1 \in 1..Depth
  BY DEF IInv, TypeOK, Depth
<1>2. stack[1].owner => stack[1].api \in Transactional
  BY <1>1 DEF IInv, OwnersTransact
<1>3. stack[1].api \in Transactional => stack[1].owner
  BY <1>1 DEF IInv, TransactionsCovered
<1>4. stack[1].api \in TargetAtomic => ~stack[1].dirty
  BY <1>1 DEF IInv, DirtyInPlace, TargetAtomic, InPlace
<1> QED BY <1>2, <1>3, <1>4

\* Every step of the reading functions is one that ReadContract allows.
LEMMA NextRefines ==
  ASSUME IInv, IInv', CopyDuringRead = FALSE, [Next]_vars
  PROVE  [Contract!Next]_Contract!vars
<1>a. /\ TypeOK /\ TypeOK' /\ Depth \in Nat /\ Depth = Len(stack)
      /\ \A i \in 1..Depth : stack[i] \in Frame /\ SameCall(stack[i], stack[i])
  BY StackFrames DEF IInv, Depth, SameCall
<1>b. pos \in [Streams -> 0..Size] /\ pos' \in [Streams -> 0..Size]
  BY <1>a DEF TypeOK
<1>c. stack = <<>> <=> Depth = 0
  BY <1>a DEF TypeOK
<1>1. ASSUME NEW api \in Api, NEW s \in Streams, Call(api, s) PROVE Contract!Next
  BY <1>1, <1>a, EnterRefines DEF Call, TypeOK, Running
<1>2. ASSUME NEW n \in Widths, ReadCount(n) PROVE Contract!Next
  <2>1. stack # <<>>
    BY <1>2 DEF ReadCount
  <2>2. CASE stack' = stack
    BY <1>a, <2>1, <2>2, KeepRefines
  <2>3. CASE stack' = [stack EXCEPT ![Depth].stage = "elements"]
    <3>1. /\ Len(stack') = Depth
          /\ \A i \in 1..Depth : /\ SameCall(stack'[i], stack[i])
                                 /\ stack'[i].dirty = stack[i].dirty
      BY <1>a, <2>1, <2>3, StagedStack DEF TypeOK
    <3> QED BY <2>1, <3>1, KeepRefines
  <2> QED BY <1>2, <2>2, <2>3 DEF ReadCount
<1>3. ASSUME ReadElements PROVE Contract!Next
  <2> DEFINE below == [stack EXCEPT ![Depth].stage = "end"]
  <2>1. stack # <<>> /\ ~raised /\ Enter("get_to", Top.s, below) /\ "get_to" \in Api
    BY <1>3 DEF ReadElements, Api
  <2>2. Top.s \in Streams
    <3>1. Top \in Frame
      BY <1>a, <1>c, <2>1 DEF Top
    <3> QED BY <3>1 DEF Frame
  <2>3. /\ below \in Seq(Frame) /\ Len(below) = Depth
        /\ \A i \in 1..Depth : /\ SameCall(below[i], stack[i])
                               /\ below[i].dirty = stack[i].dirty
    BY <1>a, <2>1, StagedStack DEF TypeOK
  <2> HIDE DEF below
  <2> QED BY <2>1, <2>2, <2>3, EnterRefines
<1>4. ASSUME NEW n \in Widths, ReadField(n) PROVE Contract!Next
  <2>1. stack # <<>>
    BY <1>4 DEF ReadField, InCodec
  <2>2. CASE stack' = Touched
    <3>1. /\ Len(Touched) = Depth
          /\ \A i \in 1..Depth :
              /\ SameCall(Touched[i], stack[i])
              /\ Touched[i].dirty =
                   (stack[i].dirty \/ (i = Depth /\ InCodec /\ stack[i].api \in InPlace))
      BY <1>a, TouchedStack DEF TypeOK
    <3> QED BY <2>1, <2>2, <3>1, KeepRefines
  <2>3. CASE stack' = stack
    BY <1>a, <2>1, <2>3, KeepRefines
  <2> QED BY <1>4, <2>2, <2>3 DEF ReadField
<1>5. ASSUME Reject PROVE Contract!Next
  BY <1>5, <1>a, KeepRefines DEF Reject, InCodec
<1>6. ASSUME stack' = stack, stack = <<>>, raised' \in {raised, FALSE}
      PROVE  Contract!Next
  <2>1. OutermostCall = <<>> /\ OutermostCall' = <<>>
    BY <1>6 DEF OutermostCall
  <2> QED BY <1>6, <1>b, <2>1 DEF Contract!Next, Contract!Between, Contract!Positions
<1>7. ASSUME NEW s \in Streams, NEW p \in 0..Size, Seek(s, p) PROVE Contract!Next
  <2>1. CASE stack = <<>>
    BY <1>6, <1>7, <2>1 DEF Seek
  <2>2. CASE stack # <<>>
    BY <1>7, <1>a, <2>2, KeepRefines DEF Seek
  <2> QED BY <2>1, <2>2
<1>8. ASSUME NEW s \in Streams, NEW t \in Streams, CopyStream(s, t) PROVE Contract!Next
  <2>1. CASE stack = <<>>
    BY <1>6, <1>8, <2>1 DEF CopyStream
  <2>2. CASE stack # <<>>
    BY <1>8, <1>a, <2>2, KeepRefines DEF CopyStream
  <2> QED BY <2>1, <2>2
<1>9. ASSUME Catch PROVE Contract!Next
  <2>1. CASE stack = <<>>
    BY <1>6, <1>9, <2>1 DEF Catch
  <2>2. CASE stack # <<>>
    BY <1>9, <1>a, <2>2, KeepRefines DEF Catch
  <2> QED BY <2>1, <2>2
<1>10. ASSUME NEW mark \in BOOLEAN, Depth = 1, stack' = Popped(mark)
       PROVE  /\ OutermostCall' = <<>> /\ OutermostCall # <<>>
              /\ OutermostCall[1].api = stack[1].api
              /\ OutermostCall[1].s = stack[1].s
              /\ OutermostCall[1].at = stack[1].at
              /\ OutermostCall[1].dirty = stack[1].dirty
  <2>1. stack # <<>>
    BY <1>10, <1>c
  <2>2. Len(Popped(mark)) = 0 /\ Popped(mark) \in Seq(Frame)
    BY <1>10, <1>a, <2>1, PoppedStack DEF TypeOK
  <2>3. stack' = <<>>
    BY <1>10, <2>2
  <2> QED BY <2>1, <2>3 DEF OutermostCall
<1>11. ASSUME Return PROVE Contract!Next
  <2> DEFINE mark == Depth > 1 /\ stack[Depth - 1].api \in InPlace
  <2>1. /\ stack # <<>> /\ stack' = Popped(mark) /\ pos' = pos /\ raised' = raised
        /\ ~raised /\ mark \in BOOLEAN
    BY <1>11 DEF Return
  <2>2. CASE Depth = 1
    <3> HIDE DEF mark
    <3>1. Contract!Succeed
      BY <1>10, <2>1, <2>2 DEF Contract!Succeed
    <3> QED BY <3>1 DEF Contract!Next
  <2>3. CASE Depth > 1
    <3>1. mark => stack[Depth - 1].api \in InPlace
      OBVIOUS
    <3> HIDE DEF mark
    <3> QED BY <2>1, <2>3, <3>1, LeaveRefines
  <2> QED BY <1>a, <1>c, <2>1, <2>2, <2>3
<1>12. ASSUME Unwind PROVE Contract!Next
  <2> DEFINE mark == Depth > 1 /\ stack[Depth - 1].api \in InPlace /\ Top.dirty
  <2>1. /\ stack # <<>> /\ stack' = Popped(mark) /\ raised' = raised /\ raised
        /\ pos' = PosAfterThrow(Top) /\ mark \in BOOLEAN
    BY <1>12 DEF Unwind
  <2>2. CASE Depth = 1
    <3> HIDE DEF mark
    <3>1. Top = stack[1]
      BY <2>2 DEF Top
    <3>2. pos' = IF stack[1].api \in Transactional
                 THEN [pos EXCEPT ![stack[1].s] = stack[1].at] ELSE pos
      BY <2>1, <3>1, OutermostOwns DEF PosAfterThrow
    <3>3. stack[1].api \in TargetAtomic => ~stack[1].dirty
      BY <2>1, OutermostOwns
    <3>4. Contract!Fail
      BY <1>10, <2>1, <2>2, <3>2, <3>3 DEF Contract!Fail
    <3> QED BY <3>4 DEF Contract!Next
  <2>3. CASE Depth > 1
    <3>1. mark => stack[Depth - 1].api \in InPlace
      OBVIOUS
    <3> HIDE DEF mark
    <3> QED BY <2>1, <2>3, <3>1, LeaveRefines
  <2> QED BY <1>a, <1>c, <2>1, <2>2, <2>3
<1>13. ASSUME UNCHANGED vars PROVE UNCHANGED Contract!vars
  BY <1>13 DEF vars, Contract!vars, OutermostCall
<1> QED BY <1>1, <1>2, <1>3, <1>4, <1>5, <1>7, <1>8, <1>9, <1>11, <1>12, <1>13 DEF Next

\* Every transactional call in progress is covered by an owner on the same
\* stream, at or below it, which will restore the position.
THEOREM TransactionsAreCovered ==
  ASSUME CopyDuringRead = FALSE
  PROVE  Spec => []TransactionsCovered
<1>1. IInv => TransactionsCovered
  BY DEF IInv
<1> QED BY <1>1, Invariance, PTL

\* Whatever a codec nests, throws and catches, the application's own call ends
\* as ReadContract says: a transactional read that fails leaves the position it
\* found, and the strong form leaves the target as well.
THEOREM Refinement ==
  ASSUME CopyDuringRead = FALSE
  PROVE  Spec => ContractSpec
<1>1. Init => Contract!Init
  BY DEF Init, Contract!Init, OutermostCall
<1>2. IInv /\ IInv' /\ [Next]_vars => [Contract!Next]_Contract!vars
  BY NextRefines
<1> QED BY <1>1, <1>2, Invariance, PTL DEF Spec, ContractSpec, Contract!Spec
===========================================================================
