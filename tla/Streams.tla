------------------------------- MODULE Streams -------------------------------
(***************************************************************************)
(* Several objects of class stream: construction, destruction, copies and  *)
(* moves (all defaulted, so member by member), whole-stream appends and    *)
(* sums, and the operations that interfere with them.  A moved-from stream *)
(* keeps its read position over an empty buffer, and everything may be     *)
(* called on it.                                                           *)
(*                                                                         *)
(* read_depth_ is ReadTransactions' subject; addresses are StreamBuffer's. *)
(* A call that throws (a result over buf_.max_size(), too few bytes left,  *)
(* a position behind the end) changes nothing and is no step.              *)
(***************************************************************************)
EXTENDS Integers, Sequences

CONSTANTS Objects,     \* the stream objects
          Byte,
          Junk,        \* what memory holds that is no stream's
          MaxSize      \* buf_.max_size()

ASSUME StreamsAssumption == MaxSize \in Nat /\ Junk \notin Byte

VARIABLES buf, pos, endian,   \* buf_, pos_, endian_ of every object
          state,              \* "none", "known", or "moved" (history)
          hand                \* a byte array of the application

vars == <<buf, pos, endian, state, hand>>

Endian == {"little", "big"}
Bytes == {b \in Seq(Byte) : Len(b) <= MaxSize}

Alive(s) == state[s] # "none"

Fill(n, byte) == [k \in 1..n |-> byte]

----------------------------------------------------------------------------
(* Defects the properties are tested against.                              *)

\* The subtraction wraps around when the position is behind the end.
DefectRemaining(s) == (Len(buf[s]) - pos[s]) % (MaxSize + 1)

\* A copy operation written by hand that forgets the position.
DefectCopiedPos(s, t) == pos[t]

----------------------------------------------------------------------------
Init ==
    /\ buf = [s \in Objects |-> <<>>]
    /\ pos = [s \in Objects |-> 0]
    /\ endian = [s \in Objects |-> "little"]
    /\ state = [s \in Objects |-> "none"]
    /\ hand = <<>>

Becomes(s, b, p, e, st) ==
    /\ buf' = [buf EXCEPT ![s] = b] /\ pos' = [pos EXCEPT ![s] = p]
    /\ endian' = [endian EXCEPT ![s] = e] /\ state' = [state EXCEPT ![s] = st]

Construct(s, order) == ~Alive(s) /\ Becomes(s, <<>>, 0, order, "known") /\ UNCHANGED hand

\* stream(count, value) resizes.
ConstructFilled(s, n, byte) ==
    ~Alive(s) /\ Becomes(s, Fill(n, byte), 0, "little", "known") /\ UNCHANGED hand

\* From a vector, copied or moved from, or from a range of bytes.
ConstructFrom(s) ==
    ~Alive(s) /\ Becomes(s, hand, 0, "little", "known") /\ hand' \in {hand, <<>>}

Destroy(s) == Alive(s) /\ Becomes(s, <<>>, 0, "little", "none") /\ UNCHANGED hand

CopiedPos(s, t) == pos[s]

\* The copy constructor, and the copy assignment, to itself too.
Copy(s, t) ==
    /\ Alive(s) /\ Becomes(t, buf[s], CopiedPos(s, t), endian[s], state[s])
    /\ UNCHANGED hand

\* The move constructor and the move assignment: only the vector changes in
\* the source.
Move(s, t) ==
    /\ Alive(s) /\ s # t
    /\ buf' = [buf EXCEPT ![t] = buf[s], ![s] = <<>>]
    /\ pos' = [pos EXCEPT ![t] = pos[s]]
    /\ endian' = [endian EXCEPT ![t] = endian[s]]
    /\ state' = [state EXCEPT ![t] = state[s], ![s] = "moved"]
    /\ UNCHANGED hand

\* What a vector moved to itself holds is left to the library.
MoveToItself(s) ==
    /\ Alive(s)
    /\ \E b \in {buf[s], <<>>} : Becomes(s, b, pos[s], endian[s], "moved")
    /\ UNCHANGED hand

Mixed(s, t) == IF state[s] = "moved" \/ state[t] = "moved" THEN "moved" ELSE "known"

\* append(const stream&) and operator+=, of itself too: all of the bytes.
AppendStream(s, t) ==
    /\ Alive(s) /\ Alive(t) /\ Len(buf[s]) + Len(buf[t]) <= MaxSize
    /\ Becomes(s, buf[s] \o buf[t], pos[s], endian[s], Mixed(s, t)) /\ UNCHANGED hand

\* operator+: a copy of the left operand, appended to, given to u.
Plus(s, t, u) ==
    /\ Alive(s) /\ Alive(t) /\ Len(buf[s]) + Len(buf[t]) <= MaxSize
    /\ Becomes(u, buf[s] \o buf[t], pos[s], endian[s], Mixed(s, t)) /\ UNCHANGED hand

\* append of an array, set of one byte.
Appends(s, b) ==
    /\ Alive(s) /\ Len(buf[s]) + Len(b) <= MaxSize
    /\ Becomes(s, buf[s] \o b, pos[s], endian[s], state[s]) /\ UNCHANGED hand

AppendArray(s) == Appends(s, hand)
Set(s, byte) == Appends(s, <<byte>>)

Remaining(s) == IF pos[s] <= Len(buf[s]) THEN Len(buf[s]) - pos[s] ELSE 0

\* Behind the end is no byte of the stream.
ByteAt(s, k) == IF k \in 1..Len(buf[s]) THEN buf[s][k] ELSE Junk

Get(s, n) ==
    /\ Alive(s) /\ n <= Remaining(s)
    /\ hand' = [k \in 1..n |-> ByteAt(s, pos[s] + k)]
    /\ pos' = [pos EXCEPT ![s] = @ + n]
    /\ UNCHANGED <<buf, endian, state>>

\* seek and, to 0, reset_position.
Seek(s, p) ==
    /\ Alive(s) /\ p <= Len(buf[s])
    /\ pos' = [pos EXCEPT ![s] = p] /\ UNCHANGED <<buf, endian, state, hand>>

PosAfterResize(s, n) == IF pos[s] > n THEN n ELSE pos[s]

Resize(s, n, byte) ==
    /\ Alive(s)
    /\ Becomes(s, IF n <= Len(buf[s]) THEN SubSeq(buf[s], 1, n)
                                      ELSE buf[s] \o Fill(n - Len(buf[s]), byte),
               PosAfterResize(s, n), endian[s], state[s])
    /\ UNCHANGED hand

Clear(s) == Alive(s) /\ Becomes(s, <<>>, 0, endian[s], "known") /\ UNCHANGED hand

\* Assignment of a one-byte value.  A codec that fails leaves what it had
\* appended behind the clear(): nothing, which is what Clear leaves, or the
\* byte, which is this.
Assign(s, byte) ==
    /\ Alive(s) /\ MaxSize >= 1 /\ Becomes(s, <<byte>>, 0, endian[s], "known")
    /\ UNCHANGED hand

TakeBuffer(s) ==
    Alive(s) /\ hand' = buf[s] /\ Becomes(s, <<>>, 0, endian[s], "known")

SetEndian(s, e) ==
    /\ Alive(s) /\ endian' = [endian EXCEPT ![s] = e] /\ UNCHANGED <<buf, pos, state, hand>>

OnOne(s) ==
    \/ \E e \in Endian : Construct(s, e) \/ SetEndian(s, e)
    \/ \E n \in 0..MaxSize, byte \in Byte : ConstructFilled(s, n, byte) \/ Resize(s, n, byte)
    \/ ConstructFrom(s) \/ Destroy(s) \/ MoveToItself(s) \/ AppendArray(s) \/ Clear(s) \/ TakeBuffer(s)
    \/ \E byte \in Byte : Set(s, byte) \/ Assign(s, byte)
    \/ \E n \in 1..MaxSize : Get(s, n)
    \/ \E p \in 0..MaxSize : Seek(s, p)

OnTwo(s, t) ==
    \/ Copy(s, t) \/ Move(s, t) \/ AppendStream(s, t)
    \/ \E u \in Objects : Plus(s, t, u)

Next == \E s \in Objects : OnOne(s) \/ \E t \in Objects : OnTwo(s, t)

Spec == Init /\ [][Next]_vars

----------------------------------------------------------------------------
(* Properties.                                                             *)

\* The position may be anywhere in a stream that was moved from, but nothing
\* that is read from any stream lies behind its end, and every other stream
\* keeps its position inside.
TypeOK ==
    /\ buf \in [Objects -> Bytes] /\ pos \in [Objects -> 0..MaxSize]
    /\ endian \in [Objects -> Endian] /\ state \in [Objects -> {"none", "known", "moved"}]
    /\ hand \in Bytes
    /\ \A s \in Objects : state[s] = "known" => pos[s] <= Len(buf[s])

View(st, b, p, e) ==
    CASE st = "none" -> [is |-> "none"]
      [] st = "moved" -> [is |-> "unspecified"]
      [] st = "known" -> [is |-> "known", bytes |-> b, at |-> p, order |-> e]

value == [s \in Objects |-> View(state[s], buf[s], pos[s], endian[s])]

Contract == INSTANCE StreamValues WITH Streams <- Objects

\* Streams are values: see StreamValues.
ContractSpec == Contract!ValueSpec
=============================================================================
