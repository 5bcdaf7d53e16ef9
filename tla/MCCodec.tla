------------------------------- MODULE MCCodec -------------------------------
(* Types that reach every codec, nested where nesting matters.             *)
EXTENDS Codec

Byte == [k |-> "byte", of |-> <<>>]
Bool == [k |-> "bool", of |-> <<>>]
Unit == [k |-> "unit", of |-> <<>>]
Optional(t) == [k |-> "optional", of |-> <<t>>]
Ptr(t) == [k |-> "ptr", of |-> <<t>>]
Pair(t, u) == [k |-> "tuple", of |-> <<t, u>>]
Array(t, e) == [k |-> "array", of |-> <<t>>, extent |-> e]
Boundless == 100           \* a max_size() that no count reaches
List(t) == [k |-> "list", of |-> <<t>>, reserves |-> TRUE, limit |-> Boundless]
Deque(t) == [k |-> "list", of |-> <<t>>, reserves |-> FALSE, limit |-> Boundless]
StaticVector(t, max) == [k |-> "list", of |-> <<t>>, reserves |-> FALSE, limit |-> max]
Block(w) == [k |-> "block", of |-> <<>>, width |-> w, limit |-> Boundless]
Prefixed(t, max) == [k |-> "prefixed", of |-> <<t>>, max |-> max]
Variant(ts) == [k |-> "variant", of |-> ts]
Struct(t, n, u, m) == [k |-> "struct", of |-> <<t, u>>, ns |-> <<n, m>>]

\* The parts, in three layers, and the types of the object.
MCParts == <<
    Byte, Bool, Unit, Block(1),
    Optional(Byte), Optional(Bool), List(Bool), Deque(Bool), Ptr(Bool), Prefixed(Block(1), 1),
    List(Ptr(Bool)), Optional(List(Bool)), Struct(Bool, Default, List(Bool), 1)>>

MCObjects == <<
    Bool, Pair(Bool, Optional(Byte)), Array(Byte, 2), Array(Bool, 2),
    Block(1), Block(2), List(Bool), List(Optional(Bool)), List(Block(1)),
    Optional(List(Bool)), Ptr(Block(1)), Pair(Block(1), Byte),
    Prefixed(Block(1), 2), Prefixed(List(Ptr(Bool)), 1), Optional(Prefixed(Block(1), 1)),
    Variant(<<Unit, Bool, Prefixed(Block(1), 1)>>), Ptr(Optional(Bool)),
    StaticVector(Bool, 1), Prefixed(List(Bool), 3),
    Struct(Block(1), 1, Bool, Default), Struct(Optional(List(Bool)), 2, Byte, 1),
    Optional(Struct(Bool, Default, List(Bool), 1)),
    \* Three elements where memory holds two.
    Struct(Bool, Default, Block(1), 3), Struct(Deque(Bool), 3, Bool, Default)>>

MCDeclared == MCParts \o MCObjects
MCTypes == {MCObjects[i] : i \in DOMAIN MCObjects}
=============================================================================
