---------------------------- MODULE StreamValues ----------------------------
(***************************************************************************)
(* What the application may think of several stream objects: each one is a *)
(* value of its own, made of bytes, a read position within them and a byte *)
(* order.  Copies are equal and independent, a move hands the value over   *)
(* and leaves nothing to rely on until the object is given a value again,  *)
(* and no read yields anything but bytes of the stream.  Streams is shown  *)
(* to implement this module.                                               *)
(***************************************************************************)
EXTENDS Naturals, Sequences

CONSTANTS Streams,     \* the stream objects
          Byte,
          MaxSize      \* no stream holds more bytes

VARIABLES value,       \* the value of every object
          hand         \* the byte array the application holds

valueVars == <<value, hand>>

Order == {"little", "big"}

None == [is |-> "none"]                  \* not constructed, or destroyed
Unspecified == [is |-> "unspecified"]    \* moved from
Known(bytes, at, order) ==
    [is |-> "known", bytes |-> bytes, at |-> at, order |-> order]

IsKnown(s) == value[s].is = "known"
Alive(s) == value[s] # None

Run(n, byte) == [k \in 1..n |-> byte]
Runs == {<<>>} \cup {Run(n, byte) : n \in 1..MaxSize, byte \in Byte}

Gives(s, v) == value' = [value EXCEPT ![s] = v]

ValueInit == value = [s \in Streams |-> None] /\ hand = <<>>

\* A constructor: the bytes held, or a run; the array may be moved from.
Born(s) ==
    /\ ~Alive(s)
    /\ \E bytes \in {hand} \cup Runs, order \in Order : Gives(s, Known(bytes, 0, order))
    /\ hand' \in {hand, <<>>}

Dies(s) == Alive(s) /\ Gives(s, None) /\ UNCHANGED hand

\* clear, or a value assigned: the order stays.
Restarts(s) ==
    /\ Alive(s)
    /\ \E bytes \in Runs, order \in Order :
            /\ IsKnown(s) => order = value[s].order
            /\ Gives(s, Known(bytes, 0, order))
    /\ UNCHANGED hand

\* take_buffer; what is taken from a moved object is anybody's guess.
IsTaken(s) ==
    /\ Alive(s)
    /\ \E order \in Order :
            /\ IsKnown(s) => order = value[s].order
            /\ Gives(s, Known(<<>>, 0, order))
    /\ IF IsKnown(s) THEN hand' = value[s].bytes ELSE hand' \in Seq(Byte)

\* Bytes are only ever added at the end; the position stays.
Grows(s) ==
    /\ IsKnown(s)
    /\ \E bytes \in {hand} \cup Runs :
            Gives(s, Known(value[s].bytes \o bytes, value[s].at, value[s].order))
    /\ UNCHANGED hand

\* A shorter stream takes the position with it.
Shrinks(s) ==
    /\ IsKnown(s)
    /\ \E n \in 0..Len(value[s].bytes) :
            Gives(s, Known(SubSeq(value[s].bytes, 1, n),
                           IF value[s].at <= n THEN value[s].at ELSE n, value[s].order))
    /\ UNCHANGED hand

Reads(s) ==
    /\ IsKnown(s)
    /\ \E n \in 1..(Len(value[s].bytes) - value[s].at) :
            /\ hand' = [k \in 1..n |-> value[s].bytes[value[s].at + k]]
            /\ Gives(s, Known(value[s].bytes, value[s].at + n, value[s].order))

Seeks(s) ==
    /\ IsKnown(s)
    /\ \E at \in 0..Len(value[s].bytes) : Gives(s, Known(value[s].bytes, at, value[s].order))
    /\ UNCHANGED hand

Turns(s) ==
    /\ IsKnown(s)
    /\ \E order \in Order : Gives(s, Known(value[s].bytes, value[s].at, order))
    /\ UNCHANGED hand

\* What is read from an object that was moved from is unspecified, but bytes.
ReadsAnything(s) ==
    value[s] = Unspecified /\ hand' \in Seq(Byte) /\ UNCHANGED value

\* Copies are equal.
Copies(s, t) == Alive(s) /\ Gives(t, value[s]) /\ UNCHANGED hand

MovesTo(s, t) ==
    /\ Alive(s)
    /\ value' = [[value EXCEPT ![t] = value[s]] EXCEPT ![s] = Unspecified]
    /\ UNCHANGED hand

\* The sum goes on where the left operand stood; unspecified if one of them is.
SumOf(s, t) ==
    IF IsKnown(s) /\ IsKnown(t)
      THEN Known(value[s].bytes \o value[t].bytes, value[s].at, value[s].order)
      ELSE Unspecified

Sums(s, t, u) == Alive(s) /\ Alive(t) /\ Gives(u, SumOf(s, t)) /\ UNCHANGED hand

ValueNext ==
    \E s \in Streams :
        \/ Born(s) \/ Dies(s) \/ Restarts(s) \/ IsTaken(s) \/ Grows(s) \/ Shrinks(s)
        \/ Reads(s) \/ Seeks(s) \/ Turns(s) \/ ReadsAnything(s)
        \/ \E t \in Streams : Copies(s, t) \/ MovesTo(s, t) \/ \E u \in Streams : Sums(s, t, u)

ValueSpec == ValueInit /\ [][ValueNext]_valueVars
=============================================================================
