------------------------------- MODULE MCWire -------------------------------
(* The two wire forms of an integer, each on its own inputs: a behaviour   *)
(* is one of CompactWire, with nothing for FixedWire to send, or one of    *)
(* FixedWire, with nothing for CompactWire to read.                        *)
EXTENDS CompactWire

CONSTANTS FixedByteBits, FixedWordBytes, Registers

VARIABLES fixedWidth, signed, n, fixedValue, order, writer, reader,
          sentBy, readBy, wire, got

F == INSTANCE FixedWire
     WITH ByteBits <- FixedByteBits, WordBytes <- FixedWordBytes,
          width <- fixedWidth, value <- fixedValue

ASSUME MCWireAssumption == F!FixedAssumption

fixedVars == <<fixedWidth, signed, n, fixedValue, order, writer, reader, sentBy, readBy,
               wire, got>>

NothingToRead ==
    /\ input = <<>> /\ width = 1 /\ kind = "unsigned"
    /\ i = 0 /\ shift = 0 /\ value = 0 /\ cursor = 0 /\ pos = 0
    /\ result = "insufficient_data" /\ out = <<>>

NothingToSend ==
    /\ fixedWidth = 1 /\ signed = FALSE /\ n = 1 /\ fixedValue = 0
    /\ order = "little" /\ writer = "little" /\ reader = "little"
    /\ sentBy = "stream" /\ readBy = "stream" /\ wire = <<0>> /\ got = <<0>>

MCInit == \/ Init /\ NothingToSend
          \/ F!Init /\ NothingToRead

MCNext == \/ Next /\ UNCHANGED fixedVars
          \/ F!Next /\ UNCHANGED vars

MCSpec == MCInit /\ [][MCNext]_<<vars, fixedVars>>

\* FixedWire's properties of the same names.
WireIsCanonical == F!WireIsCanonical
ReadsBack == F!ReadsBack
=============================================================================
