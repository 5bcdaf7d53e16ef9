------------------------- MODULE ReadTransactions -------------------------
(***************************************************************************)
(* The reading functions of class stream (byte_stream.hpp): a call runs a  *)
(* codec, the codec reads fields, moves the position, calls the reading    *)
(* functions again on this or another stream, throws and catches.  Every   *)
(* call is a frame of a stack; read_transaction and its read_depth_ decide *)
(* which frame restores the read position when an exception unwinds it.    *)
(*                                                                         *)
(* A codec sees a const stream, so the buffer is fixed while it runs: a    *)
(* stream is its read position and its read_depth_ over Size bytes.        *)
(***************************************************************************)
EXTENDS Naturals, Sequences, FiniteSets

CONSTANTS Streams,         \* the stream objects
          Size,            \* bytes held by each of them
          Widths,          \* byte widths of the fields the codecs read
          MaxFrames,       \* bound on the nesting of calls
          CopyDuringRead   \* may a codec copy the stream of a running transaction?

ASSUME ReadAssumption == /\ Size \in Nat
                         /\ Widths \subseteq Nat \ {0}
                         /\ MaxFrames \in Nat
                         /\ CopyDuringRead \in BOOLEAN

VARIABLES pos,     \* pos_ of every stream
          depth,   \* read_depth_ of every stream
          stack,   \* the calls in progress, outermost first
          raised   \* an exception is in flight

vars == <<pos, depth, stack, raised>>

Api == {"get", "get_to", "get_atomic", "get_to_atomic",
        "get_to_with_size", "get_to_with_size_atomic"}

\* The functions whose body runs inside read_transaction.
Transactional == {"get_atomic", "get_to_atomic",
                  "get_to_with_size", "get_to_with_size_atomic"}

\* The functions that read into a temporary and swap it in at the end.
TargetAtomic == {"get_to_atomic", "get_to_with_size_atomic"}

\* The functions that decode straight into the caller's object.
InPlace == {"get_to", "get_to_with_size"}

\* The functions that read a count before the container.
WithSize == {"get_to_with_size", "get_to_with_size_atomic"}

\* at: pos_ when the call began; owner: this call incremented read_depth_;
\* stage: what its body does next ("codec" is code of a codec, the other three
\* are the fixed body of the counted reads); dirty: the object the caller
\* passed has been written to.
Frame == [api : Api, s : Streams, at : 0..Size, owner : BOOLEAN,
          stage : {"count", "elements", "codec", "end"}, dirty : BOOLEAN]

TypeOK == /\ pos \in [Streams -> 0..Size]
          /\ depth \in [Streams -> 0..1]
          /\ stack \in Seq(Frame)
          /\ raised \in BOOLEAN

Init == /\ pos = [s \in Streams |-> 0]
        /\ depth = [s \in Streams |-> 0]
        /\ stack = <<>>
        /\ raised = FALSE

---------------------------------------------------------------------------
(* Defects: what a slip in the code would make of the definition below     *)
(* that each one is named after; the properties are tested against them.   *)

\* One byte too many left.
DefectRemaining(s) == Size - pos[s] + 1

\* read_depth_ shared by all streams.
DefectTakesOwnership(api, s) ==
  api \in Transactional /\ \A r \in Streams : depth[r] = 0

\* read_depth_ not lowered on the way out.
DefectDepthAfterExit(f) == depth

\* The position not restored.
DefectPosAfterThrow(f) == pos

---------------------------------------------------------------------------
(* The program text in control: the application, or a codec on top.        *)

Depth == Len(stack)
Top == stack[Depth]

InApplication == stack = <<>>
InCodec == stack # <<>> /\ Top.stage = "codec"
Running == ~raised /\ (InApplication \/ InCodec)

\* remaining()
Remaining(s) == IF pos[s] <= Size THEN Size - pos[s] ELSE 0

\* A transaction takes effect only when no other is running on the stream.
TakesOwnership(api, s) == api \in Transactional /\ depth[s] = 0

\* The frame on top is left; its caller's object is dirty from now on when mark.
Popped(mark) ==
  [i \in 1..(Depth - 1) |->
     IF i = Depth - 1 /\ mark THEN [stack[i] EXCEPT !.dirty = TRUE] ELSE stack[i]]

\* Reading a field of n bytes writes the object the top frame decodes into.
Touched == IF InCodec /\ Top.api \in InPlace
           THEN [stack EXCEPT ![Depth].dirty = TRUE]
           ELSE stack

DepthAfterExit(f) == IF f.owner THEN [depth EXCEPT ![f.s] = @ - 1] ELSE depth

PosAfterThrow(f) == IF f.owner THEN [pos EXCEPT ![f.s] = f.at] ELSE pos

---------------------------------------------------------------------------
(* Entering a call.                                                        *)

\* The frames a call will need: a counted read calls get_to itself.
FramesOf(api) == IF api \in WithSize THEN 2 ELSE 1

Enter(api, s, below) ==
  /\ stack' = Append(below,
       [api |-> api, s |-> s, at |-> pos[s], owner |-> TakesOwnership(api, s),
        stage |-> IF api \in WithSize THEN "count" ELSE "codec", dirty |-> FALSE])
  /\ depth' = IF TakesOwnership(api, s) THEN [depth EXCEPT ![s] = @ + 1] ELSE depth
  /\ UNCHANGED <<pos, raised>>

Call(api, s) == /\ Running
                /\ Depth + FramesOf(api) <= MaxFrames
                /\ Enter(api, s, stack)

\* The counted reads: get_compact<uint32_t>(), the bound check, get_to.
ReadCount(n) ==
  /\ ~raised
  /\ stack # <<>>
  /\ Top.stage = "count"
  /\ \/ /\ n <= Remaining(Top.s)
        /\ pos' = [pos EXCEPT ![Top.s] = @ + n]
        /\ \/ /\ stack' = [stack EXCEPT ![Depth].stage = "elements"]
              /\ UNCHANGED raised
           \/ /\ raised' = TRUE          \* count > max_count
              /\ UNCHANGED stack
     \/ /\ raised' = TRUE                \* truncated or malformed count
        /\ UNCHANGED <<pos, stack>>
  /\ UNCHANGED depth

ReadElements ==
  /\ ~raised
  /\ stack # <<>>
  /\ Top.stage = "elements"
  /\ Enter("get_to", Top.s, [stack EXCEPT ![Depth].stage = "end"])

---------------------------------------------------------------------------
(* What a codec does.                                                      *)

\* A scalar of n bytes: ensure(n) throws before anything moves.
ReadField(n) ==
  /\ InCodec
  /\ ~raised
  /\ IF n <= Remaining(Top.s)
     THEN /\ pos' = [pos EXCEPT ![Top.s] = @ + n]
          /\ stack' = Touched
          /\ UNCHANGED raised
     ELSE /\ raised' = TRUE
          /\ UNCHANGED <<pos, stack>>
  /\ UNCHANGED depth

\* A throw after fields were read: an unknown variant index, a missing count,
\* a value the codec refuses, a bool that is neither 0 nor 1 (its codec has
\* stepped the position back over the byte first).
Reject == /\ InCodec
          /\ ~raised
          /\ raised' = TRUE
          /\ UNCHANGED <<pos, depth, stack>>

\* seek (the refused one changes nothing) and reset_position are const.
Seek(s, p) == /\ Running
              /\ p <= Size
              /\ pos' = [pos EXCEPT ![s] = p]
              /\ UNCHANGED <<depth, stack, raised>>

\* The defaulted copy copies read_depth_ too.  The target is not being read.
CopyStream(s, t) ==
  /\ Running
  /\ s # t
  /\ depth[s] # 0 => CopyDuringRead
  /\ \A i \in 1..Depth : stack[i].s # t
  /\ pos' = [pos EXCEPT ![t] = pos[s]]
  /\ depth' = [depth EXCEPT ![t] = depth[s]]
  /\ UNCHANGED <<stack, raised>>

\* try { ... } catch in a codec, or in the application that made the call.
Catch == /\ raised
         /\ InApplication \/ InCodec
         /\ raised' = FALSE
         /\ UNCHANGED <<pos, depth, stack>>

---------------------------------------------------------------------------
(* Leaving a call.                                                         *)

\* Normally: the transaction ends, the strong form swaps its result in, and
\* whatever was decoded becomes part of the caller's object.
Return ==
  /\ ~raised
  /\ stack # <<>>
  /\ Top.stage \in {"codec", "end"}
  /\ depth' = DepthAfterExit(Top)
  /\ stack' = Popped(Depth > 1 /\ stack[Depth - 1].api \in InPlace)
  /\ UNCHANGED <<pos, raised>>

\* By the exception: catch (...) of the owning transaction restores pos_.
Unwind ==
  /\ raised
  /\ stack # <<>>
  /\ depth' = DepthAfterExit(Top)
  /\ pos' = PosAfterThrow(Top)
  /\ stack' = Popped(Depth > 1 /\ stack[Depth - 1].api \in InPlace /\ Top.dirty)
  /\ UNCHANGED raised

Next == \/ \E api \in Api, s \in Streams : Call(api, s)
        \/ \E n \in Widths : ReadCount(n)
        \/ ReadElements
        \/ \E n \in Widths : ReadField(n)
        \/ Reject
        \/ \E s \in Streams, p \in 0..Size : Seek(s, p)
        \/ \E s, t \in Streams : CopyStream(s, t)
        \/ Catch
        \/ Return
        \/ Unwind

Spec == Init /\ [][Next]_vars

---------------------------------------------------------------------------
(* Properties.                                                             *)

\* The owning frames of a stream.
Owners(s) == {i \in 1..Depth : stack[i].owner /\ stack[i].s = s}

\* read_depth_ counts the transactions in progress on the stream: it is raised
\* by exactly one call, whatever is nested, thrown and caught above it, and is
\* back to zero when that call has ended (read_transaction, both exits).
OwnershipExact == \A s \in Streams : depth[s] = Cardinality(Owners(s))

\* A transactional call that did not become the owner is nested in one that
\* did, on the same stream, so that somebody will restore the position.
TransactionsCovered ==
  \A i \in 1..Depth : stack[i].api \in Transactional =>
     \E j \in 1..i : stack[j].owner /\ stack[j].s = stack[i].s

\* Inductive strengthening of TypeOK, OwnershipExact and TransactionsCovered.
\* Without a copy taken inside a transaction a raised read_depth_ always has
\* its owner on the stack; the rest holds in any case.
SoleOwner == \A s \in Streams : \A i, j \in Owners(s) : i = j
OwnedDepth == \A s \in Streams : \A i \in Owners(s) : depth[s] = 1
NoLeak == \A s \in Streams : depth[s] # 0 => Owners(s) # {}
OwnersTransact == \A i \in 1..Depth : stack[i].owner => stack[i].api \in Transactional
DirtyInPlace == \A i \in 1..Depth : stack[i].dirty => stack[i].api \in InPlace

IInv == /\ TypeOK
        /\ SoleOwner
        /\ OwnedDepth
        /\ OwnersTransact
        /\ DirtyInPlace
        /\ ~CopyDuringRead => NoLeak /\ TransactionsCovered

\* The caller's view: only the outermost call exists, and it keeps the promise
\* of ReadContract whatever its codec nests, throws and catches.
OutermostCall == IF stack = <<>> THEN <<>>
                 ELSE <<[api |-> stack[1].api, s |-> stack[1].s,
                         at |-> stack[1].at, dirty |-> stack[1].dirty]>>

Contract == INSTANCE ReadContract WITH call <- OutermostCall

ContractSpec == Contract!Spec

\* get_atomic and the other transactional reads: a call that fails hands its
\* exception to the codec that made it with the position back where the call
\* found it, so that the codec may catch it and try another reading (the
\* comments of get_atomic and get_to_with_size make no exception for nesting).
NestedReadRestores ==
  [][ (/\ raised
       /\ Depth > 1
       /\ stack[Depth - 1].stage = "codec"
       /\ Len(stack') = Depth - 1
       /\ Top.api \in Transactional)
      => pos'[Top.s] = Top.at ]_vars

\* The same for the calls the application makes itself.
OutermostReadRestores ==
  [][raised /\ Depth = 1 /\ stack' = <<>> /\ Top.api \in Transactional
       => pos'[Top.s] = Top.at]_vars
===========================================================================
