------------------------- MODULE WriteTransactions -------------------------
(***************************************************************************)
(* The writing functions of class stream (byte_stream.hpp): set,           *)
(* set_atomic, set_with_size and assignment run a codec, the codec appends *)
(* fields, calls the writing functions again, throws and catches.  Every   *)
(* call is a frame of a stack; set_atomic and set_with_size remember the   *)
(* size of the buffer and resize it back when an exception passes them.    *)
(*                                                                         *)
(* Codecs keep the documented contract: they only append, and they leave   *)
(* the read position alone.  A field is one byte; so is a compact element  *)
(* count, which it is below 128.                                           *)
(***************************************************************************)
EXTENDS Naturals, Sequences

CONSTANTS Fields,          \* bytes the codecs append
          MaxSize,         \* buf_.max_size()
          MaxCount,        \* the largest element count the interface can name
          Requests,        \* counts n that callers pass for a container
          MaxFrames,       \* bound on the nesting of calls
          OwnContainers    \* the functions given buffer() of the stream itself

ASSUME WriteAssumption == /\ MaxSize \in Nat
                          /\ MaxCount \in Nat
                          /\ Fields \subseteq 0..MaxCount
                          /\ Requests \subseteq 0..MaxCount
                          /\ MaxFrames \in Nat
                          /\ OwnContainers \subseteq {"set", "set_atomic", "set_with_size"}

VARIABLES buf,     \* buf_
          pos,     \* pos_
          stack,   \* the calls in progress, outermost first
          raised   \* an exception is in flight

vars == <<buf, pos, stack, raised>>

Byte == 0..MaxCount

\* default_size, the largest value of the count's type, asks for all elements.
Default == MaxCount + 1

Api == {"set", "set_atomic", "set_with_size", "assign"}

\* The functions that take back what they appended.
Atomic == {"set_atomic", "set_with_size"}

\* at: the buffer when the call began (the code keeps its size); stage: what
\* the call does next ("count" and "elements" are code of the library, "codec"
\* is code of a codec); size, n: elements of the container and how many of
\* them to write; own: the container is the stream's own buffer; written: the
\* elements written so far.
Frame == [api : Api, at : Seq(Byte), stage : {"count", "elements", "codec", "end"},
          size : Nat, n : 0..Default, own : BOOLEAN, written : Nat]

TypeOK == /\ buf \in Seq(Byte)
          /\ Len(buf) <= MaxSize
          /\ pos \in 0..Len(buf)
          /\ stack \in Seq(Frame)
          /\ raised \in BOOLEAN

Init == /\ buf = <<>>
        /\ pos = 0
        /\ stack = <<>>
        /\ raised = FALSE

---------------------------------------------------------------------------
(* Defects: what a slip in the code would make of the definition below     *)
(* that each one is named after; the properties are tested against them.   *)

\* The size remembered one too small.
DefectOldSize(f) == IF f.at = <<>> THEN 0 ELSE Len(f.at) - 1

\* The rollback forgotten.
DefectRolledBack(f) == buf

\* The position not clamped.
DefectPosAfterResize(k) == pos

\* One element too few.
DefectLoopDone(f) == \/ f.written + 1 >= f.size
                     \/ f.n # Default /\ f.written = f.n

\* The bound on the element count off by one.
DefectCountable(f) == f.size <= Default

---------------------------------------------------------------------------
(* Helpers of the writing functions.                                       *)

Depth == Len(stack)
Top == stack[Depth]

InApplication == stack = <<>>
InCodec == stack # <<>> /\ Top.stage = "codec"
Running == ~raised /\ (InApplication \/ InCodec)
InLibrary(stage) == ~raised /\ stack # <<>> /\ Top.stage = stage

\* std::vector::resize(k, v)
Resized(k, v) == [i \in 1..k |-> IF i <= Len(buf) THEN buf[i] ELSE v]

OldSize(f) == Len(f.at)

\* The catch blocks of set_atomic and set_with_size.
RolledBack(f) == IF f.api \in Atomic THEN Resized(OldSize(f), 0) ELSE buf

\* set_with_size: value.size() < default_size
Countable(f) == f.size < Default

\* The container codec: value.size() < count is refused.
Enough(f) == f.n # Default => f.n <= f.size

\* Its loop over the elements ends with the container, or with the test
\* ++written == n, which comes after an element has been written.
LoopDone(f) == \/ f.written = f.size
               \/ f.n # Default /\ f.written > 0 /\ f.written = f.n

\* A call may return normally here.
Finished(f) == \/ f.stage \in {"codec", "end"}
               \/ f.stage = "elements" /\ ~f.own /\ Enough(f) /\ LoopDone(f)

PosAfterResize(k) == IF pos > k THEN k ELSE pos

---------------------------------------------------------------------------
(* Entering a call.                                                        *)

Call(api, stage, size, n, own) ==
  [api |-> api, at |-> buf, stage |-> stage, size |-> size, n |-> n,
   own |-> own, written |-> 0]

Enter(f, below) == /\ Len(below) < MaxFrames
                   /\ stack' = Append(below, f)
                   /\ UNCHANGED <<buf, pos, raised>>

\* set and set_atomic of a value with a codec of its own.
SetValue(api) == /\ Running
                 /\ Enter(Call(api, "codec", 0, Default, FALSE), stack)

\* set and set_atomic of a container, all of it or its first n elements.
SetContainer(api, size, n) ==
  /\ Running
  /\ Enter(Call(api, "elements", size, n, FALSE), stack)

SetWithSize(size) == /\ Running
                     /\ Enter(Call("set_with_size", "count", size, Default, FALSE), stack)

\* The same with bs.buffer() for the container.
SetOwn(api) ==
  /\ api \in OwnContainers
  /\ Running
  /\ Enter(Call(api, IF api = "set_with_size" THEN "count" ELSE "elements",
                Len(buf), Default, TRUE), stack)

\* bs = value: clear() and set(value).  A codec may not do this to its stream.
Assign == /\ ~raised
          /\ InApplication
          /\ buf' = <<>>
          /\ pos' = 0
          /\ stack' = <<[Call("assign", "codec", 0, Default, FALSE) EXCEPT !.at = <<>>]>>
          /\ UNCHANGED raised

---------------------------------------------------------------------------
(* The bodies.                                                             *)

\* A codec appends a field.
WriteField(b) == /\ InCodec
                 /\ ~raised
                 /\ Len(buf) < MaxSize
                 /\ buf' = Append(buf, b)
                 /\ UNCHANGED <<pos, stack, raised>>

\* set_compact(value.size())
WriteCount == /\ InLibrary("count")
              /\ Countable(Top)
              /\ Len(buf) < MaxSize
              /\ buf' = Append(buf, Top.size)
              /\ stack' = [stack EXCEPT ![Depth].stage = "elements"]
              /\ UNCHANGED <<pos, raised>>

\* A contiguous container: append_bytes of the whole range.  The stream's own
\* buffer is measured again here.
Blocks(f) == IF f.own THEN {buf}
             ELSE [1..(IF f.n = Default THEN f.size ELSE f.n) -> Fields]

WriteBlock ==
  /\ InLibrary("elements")
  /\ Top.written = 0
  /\ Enough(Top)
  /\ \E content \in Blocks(Top) :
       /\ Len(buf) + Len(content) <= MaxSize
       /\ buf' = buf \o content
       /\ stack' = [stack EXCEPT ![Depth].stage = "end", ![Depth].written = Len(content)]
  /\ UNCHANGED <<pos, raised>>

\* Any other container: set of the next element.
NextElement == /\ InLibrary("elements")
               /\ ~Top.own
               /\ Enough(Top)
               /\ ~LoopDone(Top)
               /\ Enter(Call("set", "codec", 0, Default, FALSE),
                        [stack EXCEPT ![Depth].written = @ + 1])

\* Anything a body does may throw instead, and has then changed nothing: a
\* null pointer, a container too small or not countable, a value a codec
\* refuses, size_overflow, bad_alloc.
Fail == /\ ~raised
        /\ stack # <<>>
        /\ InCodec \/ ~Finished(Top)
        /\ raised' = TRUE
        /\ UNCHANGED <<buf, pos, stack>>

\* try { ... } catch in a codec, or in the application that made the call.
Catch == /\ raised
         /\ InApplication \/ InCodec
         /\ raised' = FALSE
         /\ UNCHANGED <<buf, pos, stack>>

---------------------------------------------------------------------------
(* Leaving a call, normally or by the exception.                           *)

Below == [i \in 1..(Depth - 1) |-> stack[i]]

Return == /\ ~raised
          /\ stack # <<>>
          /\ Finished(Top)
          /\ stack' = Below
          /\ UNCHANGED <<buf, pos, raised>>

Unwind == /\ raised
          /\ stack # <<>>
          /\ buf' = RolledBack(Top)
          /\ stack' = Below
          /\ UNCHANGED <<pos, raised>>

---------------------------------------------------------------------------
(* The application between calls.                                          *)

Resize(k, v) == /\ Running
                /\ InApplication
                /\ k <= MaxSize
                /\ buf' = Resized(k, v)
                /\ pos' = PosAfterResize(k)
                /\ UNCHANGED <<stack, raised>>

\* clear(), and take_buffer()
Clear == /\ Running
         /\ InApplication
         /\ buf' = <<>>
         /\ pos' = 0
         /\ UNCHANGED <<stack, raised>>

\* seek(p), or reading up to p.
MoveTo(p) == /\ Running
             /\ InApplication
             /\ p <= Len(buf)
             /\ pos' = p
             /\ UNCHANGED <<buf, stack, raised>>

Next == \/ \E api \in {"set", "set_atomic"} : SetValue(api)
        \/ \E api \in {"set", "set_atomic"}, size \in 0..Default,
              n \in Requests \cup {Default} : SetContainer(api, size, n)
        \/ \E size \in 0..Default : SetWithSize(size)
        \/ \E api \in {"set", "set_atomic", "set_with_size"} : SetOwn(api)
        \/ Assign
        \/ \E b \in Fields : WriteField(b)
        \/ WriteCount
        \/ WriteBlock
        \/ NextElement
        \/ Fail
        \/ Catch
        \/ Return
        \/ Unwind
        \/ \E k \in 0..MaxSize, v \in Fields : Resize(k, v)
        \/ Clear
        \/ \E p \in 0..MaxSize : MoveTo(p)

Spec == Init /\ [][Next]_vars

---------------------------------------------------------------------------
(* Properties.                                                             *)

\* b begins with all of a.
Extends(b, a) == /\ Len(a) <= Len(b)
                 /\ \A i \in 1..Len(a) : b[i] = a[i]

\* No call, however deep, damages what an enclosing call found in the buffer:
\* the size each of them remembers for its rollback is the size of an intact
\* prefix, whatever inner calls have appended, rolled back and caught.
PrefixesIntact == \A i \in 1..Depth : Extends(buf, stack[i].at)

\* Inductive strengthening of TypeOK and PrefixesIntact: calls remember nested
\* prefixes, and the read position stays within the shortest of them, so that
\* no rollback shrinks the buffer below it.
PrefixesNested == \A i, j \in 1..Depth : i <= j => Extends(stack[j].at, stack[i].at)
CursorBelow == \A i \in 1..Depth : pos <= Len(stack[i].at)
AssignOutermost == \A i \in 1..Depth : stack[i].api = "assign" =>
                      i = 1 /\ stack[i].at = <<>> /\ pos = 0

IInv == /\ TypeOK
        /\ PrefixesIntact
        /\ PrefixesNested
        /\ CursorBelow
        /\ AssignOutermost

\* set_atomic and set_with_size: an exception leaves the call with the buffer
\* exactly as the call found it, at every depth of nesting.
RollbackExact ==
  [][raised /\ stack # <<>> /\ Len(stack') < Depth /\ Top.api \in Atomic
       => buf' = Top.at]_vars

\* set_with_size announces as many elements as it writes, so that
\* get_to_with_size finds the end of the container.  It does not when the
\* container is the stream's own buffer, which grows by the count between the
\* two: with set_with_size in OwnContainers this is violated.
CountAnnounced ==
  [][~raised /\ stack # <<>> /\ Len(stack') < Depth /\ Top.api = "set_with_size"
       => buf'[Len(Top.at) + 1] = Top.written]_vars

\* set(container, n) writes the first n elements, and all without n.
RequestHonoured ==
  [][~raised /\ stack # <<>> /\ Len(stack') < Depth /\ Top.stage \in {"elements", "end"}
       => Top.written = IF Top.n = Default THEN Top.size ELSE Top.n]_vars

\* The caller's view: only the outermost call exists, and it keeps the promise
\* of WriteContract whatever its codec nests, throws and catches.
OutermostCall == IF stack = <<>> THEN <<>>
                 ELSE <<[api |-> stack[1].api, at |-> stack[1].at]>>

Contract == INSTANCE WriteContract WITH call <- OutermostCall

ContractSpec == Contract!Spec
===========================================================================
