--------------------------------- MODULE Hex ---------------------------------
(***************************************************************************)
(* stream::to_hex and stream::from_hex, one step per round of their loops. *)
(* to_hex computes the size of its result first and then writes through an *)
(* index; from_hex checks and counts the digits in one pass and pairs them *)
(* in a second one.  A text is either what to_hex made of some bytes, or   *)
(* one that was received.                                                  *)
(*                                                                         *)
(* A character is a digit, lower or upper case, white space or any other;  *)
(* that is all from_hex asks of it.                                        *)
(***************************************************************************)
EXTENDS Integers, Sequences, FiniteSets

CONSTANTS Sources,           \* the byte arrays to_hex is given
          Texts              \* the texts from_hex is given

VARIABLES
    made,                    \* the text was made by to_hex, of source
    source, with_spaces, uppercase,
    text,                    \* to_hex's result, from_hex's argument
    stage,                    \* "formatting", "counting", "pairing", "done", "failed"
    at,                       \* the loop's position in source or in text
    output,                  \* to_hex's position in text
    digit_count, high, result,
    room                     \* the capacity reserved for result

hexVars == <<made, source, with_spaces, uppercase, text, stage, at, output,
             digit_count, high, result, room>>

Octet == 0..255
Digit(v, upper) == [kind |-> "digit", v |-> v, upper |-> upper]
Space == [kind |-> "space", v |-> 0, upper |-> FALSE]
Other == [kind |-> "other", v |-> 0, upper |-> FALSE]
Char == [kind : {"digit", "space", "other"}, v : 0..15, upper : BOOLEAN]

ASSUME HexAssumption == Sources \subseteq Seq(Octet) /\ Texts \subseteq Seq(Char)

is_space(ch) == ch.kind = "space"
digit(ch) == IF ch.kind = "digit" THEN ch.v ELSE -1

----------------------------------------------------------------------------
(* Defects the properties are tested against.                              *)

\* A separator after every byte.
DefectSeparated(k) == with_spaces

\* The second pass forgets to skip white space.
DefectSkipped(ch) == is_space(ch) /\ stage = "counting"

\* The halves of a byte swapped.
DefectJoined(hi, lo) == lo * 16 + hi

----------------------------------------------------------------------------
(* to_hex.                                                                 *)

\* result_size.
ResultSize(bytes, spaced) ==
    2 * Len(bytes) + IF spaced /\ Len(bytes) > 1 THEN Len(bytes) - 1 ELSE 0

HighHalf(byte) == Digit((byte \div 16) % 16, uppercase)
LowHalf(byte) == Digit(byte % 16, uppercase)

\* A separator follows byte k of the source, unless it is the last.
Separated(k) == with_spaces /\ k + 1 # Len(source)

\* A string of NULs, which the loop overwrites.
Blank(size) == [k \in 1..size |-> Other]

FormatByte ==
    /\ stage = "formatting" /\ at < Len(source)
    /\ text' = [k \in DOMAIN text |->
                    IF k = output + 1 THEN HighHalf(source[at + 1])
                    ELSE IF k = output + 2 THEN LowHalf(source[at + 1])
                    ELSE IF k = output + 3 /\ Separated(at) THEN Space
                    ELSE text[k]]
    /\ output' = output + IF Separated(at) THEN 3 ELSE 2
    /\ at' = at + 1
    /\ UNCHANGED <<made, source, with_spaces, uppercase, stage, digit_count, high, result, room>>

\* The text goes to from_hex.
Formatted ==
    /\ stage = "formatting" /\ at = Len(source)
    /\ stage' = "counting" /\ at' = 0
    /\ UNCHANGED <<made, source, with_spaces, uppercase, text, output, digit_count, high,
                   result, room>>

----------------------------------------------------------------------------
(* from_hex.                                                               *)

Current == text[at + 1]

\* White space is skipped by both passes.
Skipped(ch) == is_space(ch)

Skip ==
    /\ stage \in {"counting", "pairing"} /\ at < Len(text) /\ Skipped(Current)
    /\ at' = at + 1
    /\ UNCHANGED <<made, source, with_spaces, uppercase, text, stage, output, digit_count,
                   high, result, room>>

Reject ==
    /\ stage' = "failed"
    /\ UNCHANGED <<made, source, with_spaces, uppercase, text, at, output, digit_count, high,
                   result, room>>

RejectCharacter ==
    stage = "counting" /\ at < Len(text) /\ ~Skipped(Current) /\ digit(Current) < 0 /\ Reject

CountDigit ==
    /\ stage = "counting" /\ at < Len(text) /\ ~Skipped(Current) /\ digit(Current) >= 0
    /\ digit_count' = digit_count + 1 /\ at' = at + 1
    /\ UNCHANGED <<made, source, with_spaces, uppercase, text, stage, output, high, result, room>>

RejectOdd == stage = "counting" /\ at = Len(text) /\ digit_count % 2 # 0 /\ Reject

\* The result is allocated and the second pass begins.
Counted ==
    /\ stage = "counting" /\ at = Len(text) /\ digit_count % 2 = 0
    /\ stage' = "pairing" /\ at' = 0 /\ room' = digit_count \div 2
    /\ UNCHANGED <<made, source, with_spaces, uppercase, text, output, digit_count, high, result>>

\* high << 4 | value, as a uint8_t.
Joined(hi, lo) == (hi * 16 + lo) % 256

Pairs == stage = "pairing" /\ at < Len(text) /\ ~Skipped(Current)

TakeHigh ==
    /\ Pairs /\ high < 0
    /\ high' = digit(Current) /\ at' = at + 1
    /\ UNCHANGED <<made, source, with_spaces, uppercase, text, stage, output, digit_count,
                   result, room>>

PushByte ==
    /\ Pairs /\ high >= 0
    /\ result' = Append(result, Joined(high, digit(Current))) /\ high' = -1 /\ at' = at + 1
    /\ UNCHANGED <<made, source, with_spaces, uppercase, text, stage, output, digit_count, room>>

Paired ==
    /\ stage = "pairing" /\ at = Len(text)
    /\ stage' = "done"
    /\ UNCHANGED <<made, source, with_spaces, uppercase, text, at, output, digit_count, high,
                   result, room>>

----------------------------------------------------------------------------
HexInit ==
    /\ at = 0 /\ output = 0 /\ digit_count = 0 /\ high = -1 /\ result = <<>> /\ room = 0
    /\ \/ /\ made = TRUE /\ stage = "formatting" /\ source \in Sources
          /\ with_spaces \in BOOLEAN /\ uppercase \in BOOLEAN
          /\ text = Blank(ResultSize(source, with_spaces))
       \/ /\ made = FALSE /\ stage = "counting" /\ source = <<>>
          /\ with_spaces = FALSE /\ uppercase = FALSE
          /\ text \in Texts

HexNext ==
    \/ FormatByte \/ Formatted
    \/ Skip \/ RejectCharacter \/ CountDigit \/ RejectOdd \/ Counted
    \/ TakeHigh \/ PushByte \/ Paired

\* A loop that can go on does.
HexSpec == HexInit /\ [][HexNext]_hexVars /\ WF_hexVars(HexNext)

----------------------------------------------------------------------------
(* Properties.                                                             *)

\* The two passes agree: the second one finds exactly the digits the first one
\* has counted, so that the storage reserved is never outgrown and is filled
\* when it ends, and no digit is left over.  The size computed by to_hex is
\* the size of what its loop writes: no write behind the end, no NUL left.
PassesAgree ==
    /\ stage = "formatting" => output <= Len(text)
    /\ made /\ stage # "formatting" => output = Len(text)
    /\ stage = "pairing" => Len(result) <= room
    /\ stage = "done" => Len(result) = room /\ high = -1

\* from_hex(to_hex(bytes)) is bytes, with spaces or without, in either case.
HexRoundTrip ==
    made => stage # "failed" /\ (stage = "done" => result = source)

\* The reference: the digits, each known by how many there are up to it, and
\* the pairs of them that spell a byte.
DigitsBefore(t, k) == Cardinality({j \in 1..k : t[j].kind = "digit"})
WellFormed ==
    /\ \A k \in 1..Len(text) : text[k].kind \in {"digit", "space"}
    /\ DigitsBefore(text, Len(text)) % 2 = 0
SpellByte(j, k) ==
    /\ text[j].kind = "digit" /\ text[k].kind = "digit"
    /\ DigitsBefore(text, j) % 2 = 1
    /\ DigitsBefore(text, k) = DigitsBefore(text, j) + 1

\* from_hex takes the texts of an even number of digits with white space
\* anywhere between them, even inside a byte, and nothing else, and gives the
\* bytes they spell.
DecodesExactly ==
    /\ stage = "failed" => ~WellFormed
    /\ stage = "done" =>
          /\ WellFormed
          /\ 2 * Len(result) = DigitsBefore(text, Len(text))
          /\ \A j, k \in 1..Len(text) :
                SpellByte(j, k) =>
                    result[DigitsBefore(text, k) \div 2] = 16 * text[j].v + text[k].v

\* Both passes come to an end on every text.
HexTerminates == <>(stage \in {"done", "failed"})
=============================================================================
