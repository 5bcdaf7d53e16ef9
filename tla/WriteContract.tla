--------------------------- MODULE WriteContract ---------------------------
(***************************************************************************)
(* What the stream promises a caller of its writing functions, seen from   *)
(* outside: a call only ever appends to what the buffer held when it began *)
(* (assignment begins with an empty buffer), the read position stays where *)
(* it is, and an atomic call that fails leaves exactly the old bytes.      *)
(* WriteTransactions is shown to implement this module.                    *)
(***************************************************************************)
EXTENDS Naturals, Sequences

CONSTANTS Byte,      \* byte values
          Api,       \* the writing functions
          Atomic     \* those that take back what they appended when they fail

VARIABLES buf,     \* the bytes of the stream
          pos,     \* its read position
          call,    \* <<>>, or <<c>> while the outermost call c is running
          raised   \* an exception is in flight

vars == <<buf, pos, call, raised>>

\* b begins with all of a.
Extends(b, a) == /\ Len(a) <= Len(b)
                 /\ \A i \in 1..Len(a) : b[i] = a[i]

Init == /\ buf = <<>>
        /\ pos = 0
        /\ call = <<>>
        /\ raised = FALSE

\* Between calls the caller does what he likes with the buffer, but never
\* gets the read position out of it.
Between == /\ call = <<>>
           /\ buf' \in Seq(Byte)
           /\ pos' \in 0..Len(buf')
           /\ raised' \in {raised, FALSE}
           /\ UNCHANGED call

Begin(api) == /\ call = <<>>
              /\ ~raised
              /\ IF api = "assign"
                 THEN buf' = <<>> /\ pos' = 0
                 ELSE UNCHANGED <<buf, pos>>
              /\ call' = <<[api |-> api, at |-> buf']>>
              /\ UNCHANGED raised

Work == /\ call # <<>>
        /\ buf' \in Seq(Byte)
        /\ Extends(buf', call[1].at)
        /\ raised' \in BOOLEAN
        /\ UNCHANGED <<pos, call>>

Succeed == /\ call # <<>>
           /\ ~raised
           /\ call' = <<>>
           /\ UNCHANGED <<buf, pos, raised>>

Fail == /\ call # <<>>
        /\ raised
        /\ call' = <<>>
        /\ buf' = IF call[1].api \in Atomic THEN call[1].at ELSE buf
        /\ UNCHANGED <<pos, raised>>

Next == \/ Between
        \/ \E api \in Api : Begin(api)
        \/ Work
        \/ Succeed
        \/ Fail

Spec == Init /\ [][Next]_vars
===========================================================================
