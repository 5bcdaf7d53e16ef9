------------------------------- MODULE ByteFile -------------------------------
(***************************************************************************)
(* What a byte_writer promises: a file of at most limit bytes with one     *)
(* cursor in it.  A write replaces the bytes from the cursor on or extends *)
(* the file and moves the cursor behind what it wrote; the cursor may be   *)
(* put anywhere in the file, never behind its end, so that the file has no *)
(* gaps; whatever fails changes nothing.                                   *)
(***************************************************************************)
EXTENDS Naturals, Sequences

CONSTANT Byte

VARIABLES content, cursor, limit

vars == <<content, cursor, limit>>

Init == content = <<>> /\ cursor = 0 /\ limit \in Nat

\* The bytes from the cursor to its new place become any others.
Write ==
    /\ cursor' \in (cursor + 1)..limit
    /\ content' \in [1..(IF cursor' > Len(content) THEN cursor' ELSE Len(content)) -> Byte]
    /\ \A k \in 1..Len(content) : k \notin (cursor + 1)..cursor' => content'[k] = content[k]
    /\ UNCHANGED limit

Seek == cursor' \in 0..Len(content) /\ UNCHANGED <<content, limit>>

Clear == content' = <<>> /\ cursor' = 0 /\ UNCHANGED limit

Next == Write \/ Seek \/ Clear

Spec == Init /\ [][Next]_vars
=============================================================================
