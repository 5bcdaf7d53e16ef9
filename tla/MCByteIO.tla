------------------------------- MODULE MCByteIO -------------------------------
(* ByteIO for TLC: no memory at all, and a range with memory beside it.      *)
EXTENDS ByteIO
MCRanges == {<<0, 1>>, <<2, 3>>}
=============================================================================
