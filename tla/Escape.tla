------------------------------- MODULE Escape --------------------------------
(***************************************************************************)
(* byte_stream_utils: escaping and unescaping the payload of a frame with  *)
(* a table of rules that the application supplies.  One frame goes through *)
(* escape_frame_payload and, whole, through unescape_frame_payload; or a   *)
(* received frame goes through the latter.  One step per round of a loop.  *)
(* A header and a tail of size 0 make it escape_bytes and unescape_bytes,  *)
(* which the functions on strings only convert to and from.                *)
(***************************************************************************)
EXTENDS Naturals, Sequences, SequencesExt, FiniteSetsExt

CONSTANTS Byte,
          Sequences,     \* the escaped_values of the rules
          Values,        \* the values of the rules
          MaxRules, MaxFrame, MaxEnds

ASSUME EscapeAssumption ==
    /\ Values \subseteq Byte /\ Sequences \subseteq Seq(Byte)
    /\ MaxRules \in Nat /\ MaxFrame \in Nat /\ MaxEnds \in Nat

VARIABLES
    rules,               \* the RuleRange
    header, tail,        \* header_size, tail_size
    sent,                \* the frame escaped first, <<>> of a received one
    frame,               \* the frame being transformed
    mode,                \* "escaping", "unescaping", "ended", "failed"
    i,                   \* the loop's position in the payload
    out                  \* escaped or unescaped

vars == <<rules, header, tail, sent, frame, mode, i, out>>

Rule == [value : Values, escaped_value : Sequences]

\* check_frame_payload_range.
InRange == header <= Len(frame) /\ tail <= Len(frame) - header

Payload == SubSeq(frame, header + 1, Len(frame) - tail)

\* find_escape_rule: the first.
RuleOf(byte) == Min({r \in DOMAIN rules : rules[r].value = byte})
HasRule(byte) == \E r \in DOMAIN rules : rules[r].value = byte

\* Defect: The byte itself is appended in either case.
DefectEscaped(byte) ==
    (IF HasRule(byte) THEN rules[RuleOf(byte)].escaped_value ELSE <<>>) \o <<byte>>

Escaped(byte) == IF HasRule(byte) THEN rules[RuleOf(byte)].escaped_value ELSE <<byte>>

\* check_escape_rule, by the sizing pass of escape_bytes for the bytes that
\* meet a rule, by unescape_bytes for all the rules at every byte.
EscapeRulesChecked == \A j \in DOMAIN Payload : Escaped(Payload[j]) # <<>>
UnescapeRulesChecked == \A r \in DOMAIN rules : rules[r].escaped_value # <<>>

\* matches_at.
MatchesAt(s, k) == Len(s) <= Len(Payload) - k /\ SubSeq(Payload, k + 1, k + Len(s)) = s

Matching == {r \in DOMAIN rules : MatchesAt(rules[r].escaped_value, i)}
Size(r) == Len(rules[r].escaped_value)

\* Defect: The first of the matching rules, whatever its length.
DefectMatched == Min(Matching)

\* The longest, the first of several.
Matched == Min({r \in Matching : \A q \in Matching : Size(q) <= Size(r)})

StartsEscape == \E r \in DOMAIN rules : Head(rules[r].escaped_value) = Payload[i + 1]

\* Defect: The tail dropped.
DefectFramed == SubSeq(frame, 1, header) \o out

\* transform_frame_payload's result.
Framed == SubSeq(frame, 1, header) \o out \o SubSeq(frame, Len(frame) - tail + 1, Len(frame))

----------------------------------------------------------------------------
Init ==
    /\ rules \in BoundedSeq(Rule, MaxRules)
    /\ header \in 0..MaxEnds /\ tail \in 0..MaxEnds
    /\ frame \in BoundedSeq(Byte, MaxFrame)
    /\ i = 0 /\ out = <<>>
    /\ \/ mode = "escaping" /\ sent = frame
       \/ mode = "unescaping" /\ sent = <<>>

Fail == mode' = "failed" /\ UNCHANGED <<rules, header, tail, sent, frame, i, out>>

Refuse == mode \in {"escaping", "unescaping"} /\ ~InRange /\ Fail

RefuseRule ==
    /\ InRange
    /\ \/ mode = "escaping" /\ ~EscapeRulesChecked
       \/ mode = "unescaping" /\ i < Len(Payload) /\ ~UnescapeRulesChecked
    /\ Fail

Advances(bytes, by) ==
    /\ out' = out \o bytes /\ i' = i + by
    /\ UNCHANGED <<rules, header, tail, sent, frame, mode>>

EscapeByte ==
    /\ mode = "escaping" /\ InRange /\ EscapeRulesChecked /\ i < Len(Payload)
    /\ Advances(Escaped(Payload[i + 1]), 1)

\* The escaped frame, which goes to unescape_frame_payload.
Send ==
    /\ mode = "escaping" /\ InRange /\ EscapeRulesChecked /\ i = Len(Payload)
    /\ frame' = Framed /\ mode' = "unescaping" /\ i' = 0 /\ out' = <<>>
    /\ UNCHANGED <<rules, header, tail, sent>>

AtByte == mode = "unescaping" /\ InRange /\ i < Len(Payload) /\ UnescapeRulesChecked

UnescapeSequence ==
    /\ AtByte /\ Matching # {}
    /\ Advances(<<rules[Matched].value>>, Size(Matched))

\* Defect: An incomplete sequence waits for its end.
DefectUnknown == AtByte /\ Matching = {} /\ StartsEscape /\ i + 1 < Len(Payload) /\ Fail

Unknown == AtByte /\ Matching = {} /\ StartsEscape /\ Fail

Copy == AtByte /\ Matching = {} /\ ~StartsEscape /\ Advances(<<Payload[i + 1]>>, 1)

Receive ==
    /\ mode = "unescaping" /\ InRange /\ i = Len(Payload)
    /\ frame' = Framed /\ mode' = "ended"
    /\ UNCHANGED <<rules, header, tail, sent, i, out>>

Next ==
    \/ Refuse \/ RefuseRule \/ EscapeByte \/ Send
    \/ UnescapeSequence \/ Unknown \/ Copy \/ Receive

\* A loop that can go on does: nothing else runs in between.
Spec == Init /\ [][Next]_vars /\ WF_vars(Next)

----------------------------------------------------------------------------
(* Properties.                                                             *)

\* No loop leaves the payload, whatever the rules and the frame.
TypeOK ==
    /\ i \in Nat /\ out \in Seq(Byte) /\ frame \in Seq(Byte)
    /\ mode \in {"escaping", "unescaping"} /\ InRange => i <= Len(Payload)

\* The tables that can be undone: no byte that is sent as itself begins a
\* sequence, and no sequence begins another one or stands for two bytes.
Unambiguous ==
    /\ UnescapeRulesChecked
    /\ \A r \in DOMAIN rules : HasRule(Head(rules[r].escaped_value))
    /\ \A r, q \in DOMAIN rules :
            IsPrefix(rules[r].escaped_value, rules[q].escaped_value) =>
                rules[r] = rules[q]

\* Unescaping undoes escaping under every table that can be undone, header
\* and tail included: no error, and the frame that was sent.
RoundTrip ==
    sent # <<>> /\ Unambiguous =>
        /\ mode = "failed" => ~(header + tail <= Len(sent))
        /\ mode = "ended" => frame = sent

\* Escaping serves its purpose: a byte with a rule, and in none of the
\* sequences, no longer occurs in the payload that is sent.
DelimiterFree ==
    mode = "escaping" =>
        \A b \in Byte :
            HasRule(b) /\ (\A r \in DOMAIN rules : b \notin ToSet(rules[r].escaped_value))
                => b \notin ToSet(out)

\* Each round decodes the longest sequence that stands at its place, so that
\* tables with common beginnings have one reading, and what it appends
\* depends on those bytes only.
Taken == SubSeq(Payload, i + 1, i')
Longer ==
    {r \in DOMAIN rules :
        /\ Size(r) > i' - i
        /\ IsPrefix(rules[r].escaped_value, SubSeq(Payload, i + 1, Len(Payload)))}

TakesLongest ==
    mode = "unescaping" /\ i' > i =>
        /\ Longer = {}
        /\ Len(out') = Len(out) + 1
        /\ \/ Taken = <<Last(out')>>
           \/ \E r \in DOMAIN rules :
                  rules[r] = [value |-> Last(out'), escaped_value |-> Taken]

LongestMatch == [][TakesLongest]_vars

\* Every frame and every table, sound or not, comes to an end: each round
\* takes at least one byte or refuses the frame.
Terminates == <>(mode \in {"ended", "failed"})

=============================================================================
