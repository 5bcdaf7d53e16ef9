--------------------------- MODULE ReadContract ---------------------------
(***************************************************************************)
(* What the stream promises a caller of its reading functions, seen from   *)
(* outside: one outermost call at a time, its codec doing whatever it does *)
(* to the read positions meanwhile, and an end in success or in failure.   *)
(* A failing transactional call puts the position of its stream back, and  *)
(* a failing call of the strong form has not touched the target either.    *)
(* ReadTransactions is shown to implement this module.                     *)
(***************************************************************************)
EXTENDS Naturals, Sequences

CONSTANTS Streams,         \* the stream objects
          Size,            \* bytes held by each of them
          Api,             \* the reading functions
          Transactional,   \* those that restore the position when they fail
          TargetAtomic     \* those that also keep the target when they fail

VARIABLES pos,     \* read position of every stream
          call,    \* <<>>, or <<c>> while the outermost call c is running
          raised   \* an exception is in flight

vars == <<pos, call, raised>>

Positions == [Streams -> 0..Size]

Init == /\ pos = [s \in Streams |-> 0]
        /\ call = <<>>
        /\ raised = FALSE

\* Between calls the caller may move positions (seek, copy assignment) and
\* handle the exception the last call ended with.
Between == /\ call = <<>>
           /\ pos' \in Positions
           /\ raised' \in {raised, FALSE}
           /\ UNCHANGED call

Begin(api, s) == /\ call = <<>>
                 /\ ~raised
                 /\ call' = <<[api |-> api, s |-> s, at |-> pos[s], dirty |-> FALSE]>>
                 /\ UNCHANGED <<pos, raised>>

\* While the call runs positions move freely; the caller's target may change
\* under it unless the call promises otherwise.
Work == /\ call # <<>>
        /\ pos' \in Positions
        /\ raised' \in BOOLEAN
        /\ \/ UNCHANGED call
           \/ /\ call[1].api \notin TargetAtomic
              /\ call' = <<[call[1] EXCEPT !.dirty = TRUE]>>

Succeed == /\ call # <<>>
           /\ ~raised
           /\ call' = <<>>
           /\ UNCHANGED <<pos, raised>>

Fail == /\ call # <<>>
        /\ raised
        /\ call[1].api \in TargetAtomic => ~call[1].dirty
        /\ call' = <<>>
        /\ pos' = IF call[1].api \in Transactional
                  THEN [pos EXCEPT ![call[1].s] = call[1].at]
                  ELSE pos
        /\ UNCHANGED raised

Next == \/ Between
        \/ \E api \in Api, s \in Streams : Begin(api, s)
        \/ Work
        \/ Succeed
        \/ Fail

Spec == Init /\ [][Next]_vars
===========================================================================
