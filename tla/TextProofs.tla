----------------------------- MODULE TextProofs -----------------------------
(***************************************************************************)
(* Proofs about Escape, for tables with any number of rules, sequences and *)
(* frames of any length, sound tables or not: the loops stay inside the    *)
(* payload, a byte that is escaped does not reach the payload sent, and    *)
(* each round of unescaping takes the longest sequence that stands there.  *)
(* Unescaping undoes escaping, for every table that can be undone: that    *)
(* proof keeps the boundaries of the pieces that the bytes sent were       *)
(* escaped to; unescaping is always at one of them, and the table allows   *)
(* one way only to the next.                                               *)
(*                                                                         *)
(* And about Hex, for source arrays and texts of any size: the two passes  *)
(* of from_hex agree on how many digits there are, to_hex fills exactly    *)
(* the string it has sized, and from_hex undoes to_hex.                    *)
(***************************************************************************)
EXTENDS Escape, Hex, WellFoundedInduction, SequenceTheorems, FiniteSetTheorems, TLAPS

----------------------------------------------------------------------------
(* Escape.                                                                 *)

\* A set of naturals that is not empty has the least element Min chooses.
LEMMA LeastOf ==
  ASSUME NEW S \in SUBSET Nat, S # {}
  PROVE  Min(S) \in S /\ \A y \in S : Min(S) <= y
<1>1. PICK x \in S : \A y \in S : ~(<<y, x>> \in OpToRel(<, Nat))
  BY NatLessThanWellFounded, WFMin
<1>2. \A y \in S : x <= y
  <2> SUFFICES ASSUME NEW y \in S PROVE x <= y
    OBVIOUS
  <2>1. ~(y < x)
    BY <1>1 DEF OpToRel
  <2> QED BY <2>1
<1> QED BY <1>2 DEF Min

TableOK == rules \in Seq(Rule) /\ header \in Nat /\ tail \in Nat

LEMMA RuleFacts ==
  ASSUME EscapeAssumption, TableOK, NEW r \in DOMAIN rules
  PROVE  /\ r \in Nat
         /\ rules[r] \in Rule
         /\ rules[r].value \in Values /\ rules[r].value \in Byte
         /\ rules[r].escaped_value \in Seq(Byte)
         /\ Len(rules[r].escaped_value) \in Nat
<1>1. r \in Nat /\ rules[r] \in Rule
  BY DEF TableOK
<1>2. rules[r].value \in Values /\ rules[r].escaped_value \in Sequences
  BY <1>1 DEF Rule
<1>3. rules[r].value \in Byte /\ rules[r].escaped_value \in Seq(Byte)
  BY <1>2 DEF EscapeAssumption
<1> QED BY <1>1, <1>2, <1>3

LEMMA FirstRule ==
  ASSUME EscapeAssumption, TableOK, NEW byte, HasRule(byte)
  PROVE  RuleOf(byte) \in DOMAIN rules /\ rules[RuleOf(byte)].value = byte
<1> DEFINE S == {r \in DOMAIN rules : rules[r].value = byte}
<1>1. S \in SUBSET Nat /\ S # {}
  BY RuleFacts DEF HasRule
<1>2. Min(S) \in S
  BY <1>1, LeastOf
<1> QED BY <1>2 DEF RuleOf

LEMMA EscapedFacts ==
  ASSUME EscapeAssumption, TableOK, NEW byte \in Byte
  PROVE  /\ Escaped(byte) \in Seq(Byte)
         /\ \A b : HasRule(b) /\ (\A r \in DOMAIN rules : b \notin ToSet(rules[r].escaped_value))
                => b \notin ToSet(Escaped(byte))
<1>1. CASE HasRule(byte)
  <2>1. RuleOf(byte) \in DOMAIN rules
    BY <1>1, FirstRule
  <2>2. Escaped(byte) = rules[RuleOf(byte)].escaped_value
    BY <1>1 DEF Escaped
  <2> QED BY <2>1, <2>2, RuleFacts
<1>2. CASE ~HasRule(byte)
  <2>1. Escaped(byte) = <<byte>>
    BY <1>2 DEF Escaped
  <2>2. ToSet(<<byte>>) = {byte}
    BY DEF ToSet
  <2> QED BY <1>2, <2>1, <2>2
<1> QED BY <1>1, <1>2

LEMMA ToSetOfConcat ==
  ASSUME NEW s \in Seq(Byte), NEW t \in Seq(Byte)
  PROVE  ToSet(s \o t) \subseteq ToSet(s) \cup ToSet(t)
<1> SUFFICES ASSUME NEW k \in DOMAIN (s \o t)
             PROVE  (s \o t)[k] \in ToSet(s) \cup ToSet(t)
  BY DEF ToSet
<1>1. k \in 1..(Len(s) + Len(t)) /\ Len(s) \in Nat /\ Len(t) \in Nat
  OBVIOUS
<1>2. CASE k <= Len(s)
  <2>1. k \in DOMAIN s /\ (s \o t)[k] = s[k]
    BY <1>1, <1>2
  <2> QED BY <2>1 DEF ToSet
<1>3. CASE k > Len(s)
  <2>1. k - Len(s) \in DOMAIN t /\ (s \o t)[k] = t[k - Len(s)]
    BY <1>1, <1>3
  <2> QED BY <2>1 DEF ToSet
<1> QED BY <1>1, <1>2, <1>3

\* The payload of a frame whose ends fit it.
LEMMA PayloadFacts ==
  ASSUME TableOK, frame \in Seq(Byte), InRange
  PROVE  /\ Payload \in Seq(Byte) /\ Len(Payload) \in Nat
         /\ Len(Payload) = Len(frame) - tail - header
<1>1. PICK f \in Nat : f = Len(frame)
  OBVIOUS
<1>2. PICK h \in Nat, t \in Nat : h = header /\ t = tail
  BY DEF TableOK
<1>3. h <= f /\ t <= f - h
  BY <1>1, <1>2 DEF InRange
<1>4. SubSeq(frame, h + 1, f - t) \in Seq(Byte) /\ Len(SubSeq(frame, h + 1, f - t)) = f - t - h
  BY <1>1, <1>2, <1>3
<1> QED BY <1>1, <1>2, <1>3, <1>4 DEF Payload

\* The longest of the matching rules, which there is because none of them
\* leaves the payload.
LEMMA LongestExists ==
  ASSUME EscapeAssumption, TableOK, frame \in Seq(Byte), InRange, i \in Nat,
         i <= Len(Payload), Matching # {}
  PROVE  /\ Matched \in DOMAIN rules /\ Matched \in Matching
         /\ \A q \in Matching : Size(q) <= Size(Matched)
<1>1. PICK p \in Nat : p = Len(Payload)
  BY PayloadFacts
<1> DEFINE Left(r) == p - i - Size(r)
           Lefts == {Left(r) : r \in Matching}
<1>2. \A r \in Matching : r \in DOMAIN rules /\ r \in Nat /\ Size(r) \in Nat /\ Left(r) \in Nat
  <2> SUFFICES ASSUME NEW r \in Matching
               PROVE  r \in DOMAIN rules /\ r \in Nat /\ Size(r) \in Nat /\ Left(r) \in Nat
    OBVIOUS
  <2>1. r \in DOMAIN rules /\ MatchesAt(rules[r].escaped_value, i)
    BY DEF Matching
  <2>2. r \in Nat /\ Size(r) \in Nat
    BY <2>1, RuleFacts DEF Size
  <2>3. Size(r) <= p - i
    BY <1>1, <2>1 DEF MatchesAt, Size
  <2> QED BY <2>1, <2>2, <2>3
<1>3. Lefts \in SUBSET Nat /\ Lefts # {}
  BY <1>2
<1>4. Min(Lefts) \in Lefts /\ \A y \in Lefts : Min(Lefts) <= y
  BY <1>3, LeastOf
<1>5. PICK m \in Matching : Left(m) = Min(Lefts)
  BY <1>4
<1> DEFINE Longest == {r \in Matching : \A q \in Matching : Size(q) <= Size(r)}
<1>6. m \in Longest
  <2> SUFFICES ASSUME NEW q \in Matching PROVE Size(q) <= Size(m)
    OBVIOUS
  <2>1. Left(m) <= Left(q)
    BY <1>4, <1>5
  <2>2. Size(q) \in Nat /\ Size(m) \in Nat
    BY <1>2
  <2> QED BY <2>1, <2>2
<1>7. Longest \in SUBSET Nat /\ Longest # {}
  BY <1>2, <1>6
<1>8. Min(Longest) \in Longest
  BY <1>7, LeastOf
<1>9. Matched = Min(Longest)
  BY DEF Matched
<1> QED BY <1>2, <1>8, <1>9

LEMMA MatchedFits ==
  ASSUME EscapeAssumption, TableOK, frame \in Seq(Byte), InRange, i \in Nat,
         i <= Len(Payload), Matching # {}
  PROVE  /\ Size(Matched) \in Nat /\ i + Size(Matched) <= Len(Payload)
         /\ rules[Matched].value \in Byte
         /\ SubSeq(Payload, i + 1, i + Size(Matched)) = rules[Matched].escaped_value
<1>1. Matched \in DOMAIN rules /\ Matched \in Matching
  BY LongestExists
<1>2. PICK z \in Nat : z = Size(Matched)
  BY <1>1, RuleFacts DEF Size
<1>3. PICK p \in Nat : p = Len(Payload)
  BY PayloadFacts
<1>4. z <= p - i /\ SubSeq(Payload, i + 1, i + z) = rules[Matched].escaped_value
  BY <1>1, <1>2, <1>3 DEF Matching, MatchesAt, Size
<1>5. i + z <= p
  BY <1>4
<1>6. rules[Matched].value \in Byte
  BY <1>1, RuleFacts
<1> QED BY <1>2, <1>3, <1>4, <1>5, <1>6

----------------------------------------------------------------------------
IInv == TableOK /\ TypeOK /\ DelimiterFree

LEMMA Initial ==
  ASSUME EscapeAssumption, Init
  PROVE  IInv
<1>1. TableOK
  <2>1. \E k \in 0..MaxRules : rules \in [1..k -> Rule]
    BY DEF Init, BoundedSeq, SeqOf
  <2>2. rules \in Seq(Rule)
    BY <2>1, EscapeAssumption DEF EscapeAssumption
  <2>3. header \in Nat /\ tail \in Nat
    BY EscapeAssumption DEF Init, EscapeAssumption
  <2> QED BY <2>2, <2>3 DEF TableOK
<1>2. frame \in Seq(Byte)
  <2>1. \E k \in 0..MaxFrame : frame \in [1..k -> Byte]
    BY DEF Init, BoundedSeq, SeqOf
  <2> QED BY <2>1, EscapeAssumption DEF EscapeAssumption
<1>3. i = 0 /\ out = <<>>
  BY DEF Init
<1>4. InRange => i <= Len(Payload)
  BY <1>1, <1>2, <1>3, PayloadFacts
<1>5. ToSet(out) = {}
  BY <1>3 DEF ToSet
<1> QED BY <1>1, <1>2, <1>3, <1>4, <1>5 DEF IInv, TypeOK, DelimiterFree

\* A round of either loop that stays inside the payload.
LEMMA RoundKeepsType ==
  ASSUME TableOK, TypeOK, InRange, NEW bytes \in Seq(Byte), NEW by \in Nat,
         i + by <= Len(Payload), Advances(bytes, by)
  PROVE  TableOK' /\ TypeOK'
<1>1. rules' = rules /\ header' = header /\ tail' = tail /\ frame' = frame
  BY DEF Advances
<1>2. TableOK'
  BY <1>1 DEF TableOK
<1>3. Payload' = Payload
  BY <1>1 DEF Payload
<1>4. i' \in Nat /\ out' \in Seq(Byte)
  BY DEF Advances, TypeOK
<1>5. i' <= Len(Payload')
  BY <1>3 DEF Advances
<1> QED BY <1>1, <1>2, <1>4, <1>5 DEF TypeOK

LEMMA Inductive ==
  ASSUME EscapeAssumption, IInv, [Next]_vars
  PROVE  IInv'
<1> USE DEF IInv
<1>1. CASE UNCHANGED vars
  BY <1>1 DEF vars, TableOK, TypeOK, DelimiterFree, InRange, Payload, HasRule
<1>2. CASE Refuse \/ RefuseRule \/ Unknown
  <2>1. Fail
    BY <1>2 DEF Refuse, RefuseRule, Unknown
  <2> QED BY <2>1 DEF Fail, TableOK, TypeOK, DelimiterFree
<1>3. CASE EscapeByte
  <2> DEFINE byte == Payload[i + 1]
  <2>1. byte \in Byte /\ i + 1 <= Len(Payload)
    BY <1>3, PayloadFacts DEF EscapeByte, TypeOK
  <2>2. Escaped(byte) \in Seq(Byte)
    BY <2>1, EscapedFacts
  <2>3. TableOK' /\ TypeOK'
    BY <1>3, <2>1, <2>2, RoundKeepsType DEF EscapeByte
  <2>4. rules' = rules /\ mode = "escaping" /\ out' = out \o Escaped(byte)
    BY <1>3 DEF EscapeByte, Advances
  <2>5. ASSUME NEW b \in Byte, HasRule(b),
               \A r \in DOMAIN rules : b \notin ToSet(rules[r].escaped_value)
        PROVE  b \notin ToSet(out')
    <3>1. b \notin ToSet(out)
      BY <2>4, <2>5 DEF DelimiterFree
    <3>2. b \notin ToSet(Escaped(byte))
      BY <2>1, <2>5, EscapedFacts
    <3>3. ToSet(out') \subseteq ToSet(out) \cup ToSet(Escaped(byte))
      BY <2>2, <2>4, ToSetOfConcat DEF TypeOK
    <3> QED BY <3>1, <3>2, <3>3
  <2>6. DelimiterFree'
    BY <2>4, <2>5 DEF DelimiterFree, HasRule
  <2> QED BY <2>3, <2>6
<1>4. CASE Send \/ Receive
  <2>1. rules' = rules /\ header' = header /\ tail' = tail /\ frame' = Framed
    BY <1>4 DEF Send, Receive
  <2>2. TableOK'
    BY <2>1 DEF TableOK
  <2>3. Framed \in Seq(Byte)
    <3>1. InRange /\ frame \in Seq(Byte) /\ out \in Seq(Byte)
      BY <1>4 DEF Send, Receive, TypeOK
    <3>2. SubSeq(frame, 1, header) \in Seq(Byte)
      BY <3>1 DEF InRange, TableOK
    <3>3. SubSeq(frame, Len(frame) - tail + 1, Len(frame)) \in Seq(Byte)
      BY <3>1 DEF InRange, TableOK
    <3> QED BY <3>1, <3>2, <3>3 DEF Framed
  <2>4. i' \in Nat /\ out' \in Seq(Byte) /\ mode' # "escaping"
    <3>1. CASE Send
      <4>1. i' = 0 /\ out' = <<>> /\ mode' = "unescaping"
        BY <3>1 DEF Send
      <4> QED BY <4>1
    <3>2. CASE Receive
      <4>1. i' = i /\ out' = out /\ mode' = "ended"
        BY <3>2 DEF Receive
      <4> QED BY <4>1 DEF TypeOK
    <3> QED BY <1>4, <3>1, <3>2
  <2>5. CASE Send
    <3>1. i' = 0
      BY <2>5 DEF Send
    <3>2. InRange' => (Len(Payload) \in Nat)'
      <4>1. TableOK' /\ (frame \in Seq(Byte))' /\ InRange' => (Len(Payload) \in Nat)'
        BY PayloadFacts, PTL
      <4> QED BY <2>1, <2>2, <2>3, <4>1
    <3> QED BY <2>1, <2>2, <2>3, <2>4, <3>1, <3>2 DEF TypeOK, DelimiterFree
  <2>6. CASE Receive
    <3>1. mode' = "ended"
      BY <2>6 DEF Receive
    <3> QED BY <2>1, <2>2, <2>3, <2>4, <3>1 DEF TypeOK, DelimiterFree
  <2> QED BY <1>4, <2>5, <2>6
<1>5. CASE UnescapeSequence
  <2>1. mode' = "unescaping"
    BY <1>5 DEF UnescapeSequence, AtByte, Advances
  <2>2. <<rules[Matched].value>> \in Seq(Byte) /\ Size(Matched) \in Nat
          /\ i + Size(Matched) <= Len(Payload)
    BY <1>5, MatchedFits DEF UnescapeSequence, AtByte, TypeOK
  <2>3. TableOK' /\ TypeOK'
    BY <1>5, <2>2, RoundKeepsType DEF UnescapeSequence, AtByte
  <2> QED BY <2>1, <2>3 DEF DelimiterFree
<1>6. CASE Copy
  <2>1. mode' = "unescaping"
    BY <1>6 DEF Copy, AtByte, Advances
  <2>2. <<Payload[i + 1]>> \in Seq(Byte) /\ i + 1 <= Len(Payload)
    BY <1>6, PayloadFacts DEF Copy, AtByte, TypeOK
  <2>3. TableOK' /\ TypeOK'
    BY <1>6, <2>2, RoundKeepsType DEF Copy, AtByte
  <2> QED BY <2>1, <2>3 DEF DelimiterFree
<1> QED BY <1>1, <1>2, <1>3, <1>4, <1>5, <1>6 DEF Next

\* A sequence that begins what is left of the payload matches there.
LEMMA PrefixMatches ==
  ASSUME TableOK, frame \in Seq(Byte), InRange, i \in Nat, i <= Len(Payload),
         NEW s \in Seq(Byte), IsPrefix(s, SubSeq(Payload, i + 1, Len(Payload)))
  PROVE  MatchesAt(s, i)
<1>1. PICK p \in Nat, k \in Nat, z \in Nat : p = Len(Payload) /\ k = i /\ z = Len(s)
  BY PayloadFacts
<1>2. k <= p /\ Payload \in Seq(Byte)
  BY <1>1, PayloadFacts
<1> DEFINE rest == SubSeq(Payload, k + 1, p)
<1>3. rest \in Seq(Byte) /\ Len(rest) = p - k
  BY <1>1, <1>2
<1>4. z <= p - k /\ SubSeq(s, 1, z) = SubSeq(rest, 1, z)
  BY <1>1, <1>3 DEF IsPrefix
<1>5. SubSeq(s, 1, z) = s
  BY <1>1
<1>6. SubSeq(rest, 1, z) = SubSeq(Payload, k + 1, k + z)
  <2>1. Len(SubSeq(rest, 1, z)) = z /\ Len(SubSeq(Payload, k + 1, k + z)) = z
    BY <1>1, <1>2, <1>3, <1>4
  <2>2. ASSUME NEW j \in 1..z
        PROVE  SubSeq(rest, 1, z)[j] = SubSeq(Payload, k + 1, k + z)[j]
    <3>1. SubSeq(rest, 1, z)[j] = rest[j]
      <4>1. PICK r \in Seq(Byte) : r = rest
        BY <1>3
      <4>2. SubSeq(r, 1, z)[j] = r[j]
        BY <1>3, <1>4, <4>1
      <4> QED BY <4>1, <4>2
    <3>2. rest[j] = Payload[k + j]
      BY <1>1, <1>2, <1>4
    <3>3. SubSeq(Payload, k + 1, k + z)[j] = Payload[k + j]
      BY <1>1, <1>2, <1>4
    <3> QED BY <3>1, <3>2, <3>3
  <2>3. SubSeq(rest, 1, z) \in Seq(Byte) /\ SubSeq(Payload, k + 1, k + z) \in Seq(Byte)
    BY <1>1, <1>2, <1>3, <1>4
  <2> HIDE DEF rest
  <2> QED BY <2>1, <2>2, <2>3
<1> HIDE DEF rest
<1> QED BY <1>1, <1>4, <1>5, <1>6 DEF MatchesAt

\* A part of one byte.
LEMMA OneByte ==
  ASSUME NEW s \in Seq(Byte), NEW k \in Nat, k + 1 \in 1..Len(s)
  PROVE  SubSeq(s, k + 1, k + 1) = <<s[k + 1]>>
<1>1. PICK n \in Nat : n = k + 1
  OBVIOUS
<1>2. n \in 1..Len(s) /\ s[n] \in Byte
  BY <1>1
<1>3. SubSeq(s, n, n) \in Seq(Byte)
  BY <1>2
<1>4. Len(SubSeq(s, n, n)) = 1
  BY <1>2
<1>5. SubSeq(s, n, n)[1] = s[n]
  BY <1>2
<1>6. PICK one \in Seq(Byte), byte \in Byte : one = SubSeq(s, n, n) /\ byte = s[n]
  BY <1>2, <1>3
<1>7. Len(one) = 1 /\ one[1] = byte
  BY <1>4, <1>5, <1>6
<1>8. one = <<byte>>
  BY <1>7
<1> QED BY <1>1, <1>6, <1>8

LEMMA RoundTakesLongest ==
  ASSUME EscapeAssumption, IInv, [Next]_vars
  PROVE  [TakesLongest]_vars
<1> SUFFICES ASSUME Next, mode = "unescaping", i' > i PROVE TakesLongest
  BY DEF TakesLongest, vars, IInv, TypeOK
<1>1. UnescapeSequence \/ Copy
  BY DEF Next, Refuse, RefuseRule, EscapeByte, Send, Unknown, Receive, Fail, IInv, TypeOK
<1>2. TableOK /\ frame \in Seq(Byte) /\ out \in Seq(Byte) /\ i \in Nat /\ InRange
        /\ i <= Len(Payload) /\ UnescapeRulesChecked
  BY <1>1 DEF UnescapeSequence, Copy, AtByte, IInv, TypeOK
<1>3. \A r \in Longer : r \in DOMAIN rules /\ r \in Matching /\ Size(r) > i' - i
  <2> SUFFICES ASSUME NEW r \in Longer
               PROVE  r \in DOMAIN rules /\ r \in Matching /\ Size(r) > i' - i
    OBVIOUS
  <2>1. r \in DOMAIN rules /\ Size(r) > i' - i
          /\ IsPrefix(rules[r].escaped_value, SubSeq(Payload, i + 1, Len(Payload)))
    BY DEF Longer
  <2>2. MatchesAt(rules[r].escaped_value, i)
    BY <1>2, <2>1, RuleFacts, PrefixMatches
  <2> QED BY <2>1, <2>2 DEF Matching
<1>4. CASE UnescapeSequence
  <2> DEFINE rule == rules[Matched]
  <2>1. Matching # {} /\ i' = i + Size(Matched) /\ out' = out \o <<rule.value>>
    BY <1>4 DEF UnescapeSequence, Advances
  <2>2. /\ Size(Matched) \in Nat /\ rule.value \in Byte
        /\ SubSeq(Payload, i + 1, i + Size(Matched)) = rule.escaped_value
    BY <1>2, <2>1, MatchedFits
  <2>3. Matched \in DOMAIN rules /\ rule \in Rule
    BY <1>2, <2>1, LongestExists, RuleFacts
  <2>4. Longer = {}
    <3> SUFFICES ASSUME NEW r \in Longer PROVE FALSE
      OBVIOUS
    <3>1. Size(r) <= Size(Matched)
      BY <1>2, <1>3, <2>1, LongestExists
    <3>2. Size(r) \in Nat
      BY <1>2, <1>3, RuleFacts DEF Size
    <3>3. Size(r) > i' - i
      BY <1>3
    <3> QED BY <1>2, <2>1, <2>2, <3>1, <3>2, <3>3
  <2>5. Len(out') = Len(out) + 1 /\ Last(out') = rule.value
    BY <1>2, <2>1, <2>2 DEF Last
  <2>6. Taken = rule.escaped_value
    BY <2>1, <2>2 DEF Taken
  <2>7. rule = [value |-> Last(out'), escaped_value |-> Taken]
    BY <2>3, <2>5, <2>6 DEF Rule
  <2> QED BY <2>3, <2>4, <2>5, <2>7 DEF TakesLongest
<1>5. CASE Copy
  <2>1. Matching = {} /\ i' = i + 1 /\ out' = out \o <<Payload[i + 1]>> /\ i < Len(Payload)
    BY <1>5 DEF Copy, AtByte, Advances
  <2>2. Payload \in Seq(Byte) /\ Len(Payload) \in Nat
    BY <1>2, PayloadFacts
  <2>3. Payload[i + 1] \in Byte
    BY <1>2, <2>1, <2>2
  <2>4. Longer = {}
    BY <1>3, <2>1
  <2>5. Len(out') = Len(out) + 1 /\ Last(out') = Payload[i + 1]
    BY <1>2, <2>1, <2>3 DEF Last
  <2>6. Taken = <<Payload[i + 1]>>
    <3>1. PICK q \in Seq(Byte), k \in Nat : q = Payload /\ k = i
      BY <1>2, <2>2
    <3>2. k + 1 \in 1..Len(q)
      BY <2>1, <2>2, <3>1
    <3>3. SubSeq(q, k + 1, k + 1) = <<q[k + 1]>>
      BY <3>2, OneByte
    <3> QED BY <2>1, <3>1, <3>3 DEF Taken
  <2> QED BY <2>4, <2>5, <2>6 DEF TakesLongest
<1> QED BY <1>1, <1>4, <1>5

\* In every behaviour, for any table and any frame, the loops of escaping and
\* unescaping stay inside the payload (matches_at never looks past it).
THEOREM TypeCorrect ==
  Spec => []TypeOK
<1>1. Init => IInv
  BY Initial, EscapeAssumption
<1>2. IInv /\ [Next]_vars => IInv'
  BY Inductive, EscapeAssumption
<1>3. IInv => TypeOK
  BY DEF IInv
<1> QED BY <1>1, <1>2, <1>3, PTL DEF Spec

\* escape_bytes: a byte that has a rule and is in no sequence does not occur
\* in what it returns, however many rules there are.
THEOREM DelimitersStayOut ==
  Spec => []DelimiterFree
<1>1. Init => IInv
  BY Initial, EscapeAssumption
<1>2. IInv /\ [Next]_vars => IInv'
  BY Inductive, EscapeAssumption
<1>3. IInv => DelimiterFree
  BY DEF IInv
<1> QED BY <1>1, <1>2, <1>3, PTL DEF Spec

\* unescape_bytes: whatever the order of the rules and however long their
\* common beginnings, a round decodes the longest sequence at its place.
THEOREM LongestIsMatched ==
  Spec => LongestMatch
<1>1. Init => IInv
  BY Initial, EscapeAssumption
<1>2. IInv /\ [Next]_vars => IInv'
  BY Inductive, EscapeAssumption
<1>3. IInv /\ [Next]_vars => [TakesLongest]_vars
  BY RoundTakesLongest, EscapeAssumption
<1> QED BY <1>1, <1>2, <1>3, PTL DEF Spec, LongestMatch

----------------------------------------------------------------------------
(* The round trip.                                                         *)

SentFits == header + tail <= Len(sent)
SentHead == SubSeq(sent, 1, header)
SentPayload == SubSeq(sent, header + 1, Len(sent) - tail)
SentTail == SubSeq(sent, Len(sent) - tail + 1, Len(sent))

\* w is what the first n bytes of p are escaped to, piece k of it up to cut[k].
Cuts(cut, w, p, n) ==
    /\ n \in 0..Len(p) /\ cut \in [0..n -> Nat]
    /\ cut[0] = 0 /\ cut[n] = Len(w)
    /\ \A k \in 0..(n - 1) :
          /\ cut[k + 1] = cut[k] + Len(Escaped(p[k + 1]))
          /\ cut[k + 1] <= Len(w)
          /\ \A j \in 1..Len(Escaped(p[k + 1])) : w[cut[k] + j] = Escaped(p[k + 1])[j]

\* Unescaping: k bytes of p have come back.
Halfway(w, cut, k, p) ==
    /\ w \in Seq(Byte) /\ Cuts(cut, w, p, Len(p))
    /\ k \in 0..Len(p) /\ i = cut[k] /\ out = SubSeq(p, 1, k)
    /\ frame = SentHead \o w \o SentTail

OnItsWay ==
    /\ mode = "escaping" =>
          frame = sent /\ (SentFits => \E cut : Cuts(cut, out, SentPayload, i))
    /\ mode = "unescaping" =>
          SentFits /\ \E w, cut, k : Halfway(w, cut, k, SentPayload)
    /\ mode = "failed" => ~SentFits
    /\ mode = "ended" => frame = sent

TripInv == sent # <<>> /\ Unambiguous => OnItsWay

SentOK == sent \in Seq(Byte)

----------------------------------------------------------------------------
(* The bytes sent.                                                         *)

LEMMA SentParts ==
  ASSUME TableOK, SentOK, SentFits
  PROVE  /\ SentHead \in Seq(Byte) /\ Len(SentHead) = header
         /\ SentPayload \in Seq(Byte) /\ Len(SentPayload) = Len(sent) - tail - header
         /\ SentTail \in Seq(Byte) /\ Len(SentTail) = tail
         /\ SentHead \o SentPayload \o SentTail = sent
<1>1. PICK s \in Seq(Byte), h \in Nat, t \in Nat, n \in Nat :
          s = sent /\ h = header /\ t = tail /\ n = Len(s)
  BY DEF TableOK, SentOK
<1>2. h + t <= n
  BY <1>1 DEF SentFits
<1> DEFINE a == SubSeq(s, 1, h)
           b == SubSeq(s, h + 1, n - t)
           c == SubSeq(s, n - t + 1, n)
<1>3. a \in Seq(Byte) /\ Len(a) = h
  BY <1>1, <1>2
<1>4. b \in Seq(Byte) /\ Len(b) = n - t - h
  BY <1>1, <1>2
<1>5. c \in Seq(Byte) /\ Len(c) = t
  BY <1>1, <1>2
<1>6. a \o b = SubSeq(s, 1, n - t)
  <2>1. 1 \in 1..(Len(s) + 1) /\ h \in (1 - 1)..Len(s) /\ n - t \in h..Len(s)
    BY <1>1, <1>2
  <2> QED BY <2>1, <1>1, ConcatAdjacentSubSeq
<1>7. SubSeq(s, 1, n - t) \o c = SubSeq(s, 1, n)
  <2>1. 1 \in 1..(Len(s) + 1) /\ n - t \in (1 - 1)..Len(s) /\ n \in (n - t)..Len(s)
    BY <1>1, <1>2
  <2> QED BY <2>1, <1>1, ConcatAdjacentSubSeq
<1>8. SubSeq(s, 1, n) = s
  BY <1>1, SubSeqFull
<1>9. SentHead = a /\ SentPayload = b /\ SentTail = c
  BY <1>1 DEF SentHead, SentPayload, SentTail
<1> HIDE DEF a, b, c
<1> QED BY <1>1, <1>3, <1>4, <1>5, <1>6, <1>7, <1>8, <1>9

\* A frame made of a head, a payload and a tail of the sizes announced.
LEMMA FrameParts ==
  ASSUME NEW h \in Seq(Byte), NEW w \in Seq(Byte), NEW t \in Seq(Byte),
         NEW f, f = h \o w \o t
  PROVE  /\ f \in Seq(Byte) /\ Len(f) = Len(h) + Len(w) + Len(t)
         /\ SubSeq(f, Len(h) + 1, Len(f) - Len(t)) = w
         /\ SubSeq(f, 1, Len(h)) = h
         /\ SubSeq(f, Len(f) - Len(t) + 1, Len(f)) = t
<1>1. PICK a \in Nat, b \in Nat, c \in Nat : a = Len(h) /\ b = Len(w) /\ c = Len(t)
  OBVIOUS
<1>2. f \in Seq(Byte) /\ Len(f) = a + b + c
  BY <1>1
<1>3. \A k \in 1..(a + b + c) :
          f[k] = IF k <= a THEN h[k] ELSE IF k <= a + b THEN w[k - a] ELSE t[k - (a + b)]
  BY <1>1
<1>4. SubSeq(f, a + 1, a + b) = w
  <2>1. SubSeq(f, a + 1, a + b) \in Seq(Byte) /\ Len(SubSeq(f, a + 1, a + b)) = b
    BY <1>1, <1>2
  <2>2. \A k \in 1..b : SubSeq(f, a + 1, a + b)[k] = w[k]
    BY <1>1, <1>2, <1>3
  <2>3. PICK g \in Seq(Byte) : g = SubSeq(f, a + 1, a + b)
    BY <2>1
  <2> QED BY <1>1, <2>1, <2>2, <2>3, SeqEqual
<1>5. SubSeq(f, 1, a) = h
  <2>1. SubSeq(f, 1, a) \in Seq(Byte) /\ Len(SubSeq(f, 1, a)) = a
    BY <1>1, <1>2
  <2>2. \A k \in 1..a : SubSeq(f, 1, a)[k] = h[k]
    BY <1>1, <1>2, <1>3
  <2>3. PICK g \in Seq(Byte) : g = SubSeq(f, 1, a)
    BY <2>1
  <2> QED BY <1>1, <2>1, <2>2, <2>3, SeqEqual
<1>6. SubSeq(f, a + b + 1, a + b + c) = t
  <2>1. SubSeq(f, a + b + 1, a + b + c) \in Seq(Byte) /\ Len(SubSeq(f, a + b + 1, a + b + c)) = c
    BY <1>1, <1>2
  <2>2. \A k \in 1..c : SubSeq(f, a + b + 1, a + b + c)[k] = t[k]
    BY <1>1, <1>2, <1>3
  <2>3. PICK g \in Seq(Byte) : g = SubSeq(f, a + b + 1, a + b + c)
    BY <2>1
  <2> QED BY <1>1, <2>1, <2>2, <2>3, SeqEqual
<1>7. Len(f) - Len(t) = a + b /\ Len(f) - Len(t) + 1 = a + b + 1 /\ Len(f) = a + b + c
  BY <1>1, <1>2
<1> QED BY <1>1, <1>2, <1>4, <1>5, <1>6, <1>7

----------------------------------------------------------------------------
(* The pieces.                                                             *)

LEMMA PieceFacts ==
  ASSUME EscapeAssumption, TableOK, UnescapeRulesChecked, NEW byte \in Byte
  PROVE  /\ Escaped(byte) \in Seq(Byte)
         /\ Len(Escaped(byte)) \in Nat /\ Len(Escaped(byte)) >= 1
<1>1. Escaped(byte) \in Seq(Byte)
  BY EscapedFacts
<1>2. Escaped(byte) # <<>>
  <2>1. CASE HasRule(byte)
    BY <2>1, FirstRule DEF Escaped, UnescapeRulesChecked
  <2>2. CASE ~HasRule(byte)
    BY <2>2 DEF Escaped
  <2> QED BY <2>1, <2>2
<1>3. PICK e \in Seq(Byte) : e = Escaped(byte)
  BY <1>1
<1>4. Len(e) \in Nat \ {0}
  BY <1>2, <1>3
<1> QED BY <1>1, <1>3, <1>4

\* escape_bytes appends one piece more.
LEMMA CutsExtend ==
  ASSUME EscapeAssumption, TableOK, UnescapeRulesChecked,
         NEW p \in Seq(Byte), NEW w \in Seq(Byte), NEW n \in Nat, NEW cut,
         Cuts(cut, w, p, n), n < Len(p)
  PROVE  \E c : Cuts(c, w \o Escaped(p[n + 1]), p, n + 1)
<1>1. PICK e \in Seq(Byte), z \in Nat, y \in Nat, x \in Nat :
          e = Escaped(p[n + 1]) /\ z = Len(e) /\ y = Len(w) /\ x = Len(p)
  <2>1. p[n + 1] \in Byte
    OBVIOUS
  <2> QED BY <2>1, PieceFacts
<1> DEFINE c == [k \in 0..(n + 1) |-> IF k = n + 1 THEN y + z ELSE cut[k]]
           all == w \o e
<1>2. /\ cut \in [0..n -> Nat] /\ cut[0] = 0 /\ cut[n] = y
      /\ \A k \in 0..(n - 1) :
            /\ cut[k + 1] = cut[k] + Len(Escaped(p[k + 1]))
            /\ cut[k + 1] <= y
            /\ \A j \in 1..Len(Escaped(p[k + 1])) : w[cut[k] + j] = Escaped(p[k + 1])[j]
  BY <1>1 DEF Cuts
<1>3. all \in Seq(Byte) /\ Len(all) = y + z
  BY <1>1
<1>4. \A k \in 0..n : c[k] = cut[k] /\ cut[k] \in Nat
  BY <1>2
<1>5. c[n + 1] = y + z /\ c[0] = 0 /\ c[n] = y
  BY <1>2, <1>4
<1>6. c \in [0..(n + 1) -> Nat]
  BY <1>1, <1>2
<1>7. ASSUME NEW k \in 0..n
      PROVE  /\ c[k + 1] = c[k] + Len(Escaped(p[k + 1]))
             /\ c[k + 1] <= Len(all)
             /\ \A j \in 1..Len(Escaped(p[k + 1])) : all[c[k] + j] = Escaped(p[k + 1])[j]
  <2>1. CASE k = n
    <3>1. \A j \in 1..z : all[y + j] = e[j]
      BY <1>1
    <3> HIDE DEF c, all
    <3> QED BY <2>1, <3>1, <1>1, <1>3, <1>5
  <2>2. CASE k # n
    <3>1. k \in 0..(n - 1) /\ k + 1 \in 0..n
      BY <2>2
    <3>2. PICK piece \in Seq(Byte), from \in Nat, to \in Nat :
             piece = Escaped(p[k + 1]) /\ from = cut[k] /\ to = cut[k + 1]
      <4>1. p[k + 1] \in Byte
        BY <3>1
      <4> QED BY <3>1, <4>1, <1>4, PieceFacts
    <3>3. to = from + Len(piece) /\ to <= y /\ \A j \in 1..Len(piece) : w[from + j] = piece[j]
      BY <1>2, <3>1, <3>2
    <3>4. \A j \in 1..y : all[j] = w[j]
      BY <1>1
    <3>5. \A j \in 1..Len(piece) : from + j \in 1..y
      BY <1>1, <3>2, <3>3
    <3>6. \A j \in 1..Len(piece) : all[from + j] = piece[j]
      BY <3>3, <3>4, <3>5
    <3>7. c[k] = from /\ c[k + 1] = to
      BY <1>4, <3>1, <3>2
    <3>8. to <= Len(all)
      BY <1>1, <1>3, <3>2, <3>3
    <3> HIDE DEF c, all
    <3> QED BY <3>2, <3>3, <3>6, <3>7, <3>8
  <2> QED BY <2>1, <2>2
<1>8. n + 1 \in 0..Len(p) /\ (n + 1) - 1 = n
  OBVIOUS
<1> HIDE DEF c, all
<1>9. Cuts(c, all, p, n + 1)
  BY <1>3, <1>5, <1>6, <1>7, <1>8 DEF Cuts
<1> QED BY <1>1, <1>9 DEF all

LEMMA NoPieces ==
  ASSUME NEW p \in Seq(Byte)
  PROVE  \E c : Cuts(c, <<>>, p, 0)
<1> DEFINE c == [k \in 0..0 |-> 0]
<1>1. c \in [0..0 -> Nat] /\ c[0] = 0 /\ Len(<<>>) = 0 /\ 0 \in 0..Len(p) /\ 0..(0 - 1) = {}
  OBVIOUS
<1>2. Cuts(c, <<>>, p, 0)
  BY <1>1 DEF Cuts
<1> QED BY <1>2

\* The piece that begins where unescaping is.
LEMMA NextPiece ==
  ASSUME EscapeAssumption, TableOK, UnescapeRulesChecked,
         NEW p \in Seq(Byte), NEW w \in Seq(Byte), NEW cut, NEW k \in Nat,
         Cuts(cut, w, p, Len(p)), k <= Len(p), cut[k] < Len(w)
  PROVE  /\ k < Len(p) /\ p[k + 1] \in Byte
         /\ cut[k + 1] = cut[k] + Len(Escaped(p[k + 1])) /\ cut[k + 1] <= Len(w)
         /\ \A j \in 1..Len(Escaped(p[k + 1])) : w[cut[k] + j] = Escaped(p[k + 1])[j]
<1>1. cut[Len(p)] = Len(w)
  BY DEF Cuts
<1>2. k # Len(p)
  BY <1>1
<1>3. k \in 0..(Len(p) - 1) /\ k < Len(p)
  BY <1>2
<1> QED BY <1>3 DEF Cuts

LEMMA LastPiece ==
  ASSUME EscapeAssumption, TableOK, UnescapeRulesChecked,
         NEW p \in Seq(Byte), NEW w \in Seq(Byte), NEW cut, NEW k \in Nat,
         Cuts(cut, w, p, Len(p)), k <= Len(p), cut[k] = Len(w)
  PROVE  k = Len(p)
<1> SUFFICES ASSUME k < Len(p) PROVE FALSE
  OBVIOUS
<1>1. k \in 0..(Len(p) - 1) /\ p[k + 1] \in Byte
  OBVIOUS
<1>2. cut[k + 1] = cut[k] + Len(Escaped(p[k + 1])) /\ cut[k + 1] <= Len(w)
  BY <1>1 DEF Cuts
<1>3. PICK z \in Nat : z = Len(Escaped(p[k + 1])) /\ z >= 1
  BY <1>1, PieceFacts
<1>4. PICK y \in Nat : y = Len(w)
  OBVIOUS
<1> QED BY <1>2, <1>3, <1>4

----------------------------------------------------------------------------
(* One round of unescape_bytes.                                            *)

\* A sequence that stands whole at a place matches there.
LEMMA StandsMatches ==
  ASSUME NEW s \in Seq(Byte), NEW w \in Seq(Byte), NEW from \in Nat, Payload = w,
         from + Len(s) <= Len(w), \A j \in 1..Len(s) : w[from + j] = s[j]
  PROVE  MatchesAt(s, from)
<1>1. PICK z \in Nat, y \in Nat : z = Len(s) /\ y = Len(w)
  OBVIOUS
<1>2. SubSeq(w, from + 1, from + z) \in Seq(Byte) /\ Len(SubSeq(w, from + 1, from + z)) = z
  BY <1>1
<1>3. \A j \in 1..z : SubSeq(w, from + 1, from + z)[j] = s[j]
  BY <1>1
<1>4. PICK g \in Seq(Byte) : g = SubSeq(w, from + 1, from + z)
  BY <1>2
<1>5. g = s
  BY <1>1, <1>2, <1>3, <1>4, SeqEqual
<1>6. z <= y - from
  BY <1>1
<1> QED BY <1>1, <1>4, <1>5, <1>6 DEF MatchesAt

LEMMA MatchesStands ==
  ASSUME NEW s \in Seq(Byte), NEW w \in Seq(Byte), NEW from \in Nat, Payload = w,
         from <= Len(w), MatchesAt(s, from)
  PROVE  \A j \in 1..Len(s) : w[from + j] = s[j]
<1>1. PICK z \in Nat, y \in Nat : z = Len(s) /\ y = Len(w)
  OBVIOUS
<1>2. z <= y - from /\ SubSeq(w, from + 1, from + z) = s
  BY <1>1 DEF MatchesAt
<1>3. \A j \in 1..z : SubSeq(w, from + 1, from + z)[j] = w[from + j]
  BY <1>1, <1>2
<1> QED BY <1>1, <1>2, <1>3

LEMMA BeginsWith ==
  ASSUME NEW s \in Seq(Byte), NEW t \in Seq(Byte), Len(s) <= Len(t),
         \A j \in 1..Len(s) : s[j] = t[j]
  PROVE  IsPrefix(s, t)
<1>1. PICK z \in Nat, y \in Nat : z = Len(s) /\ y = Len(t) /\ z <= y
  OBVIOUS
<1>2. SubSeq(t, 1, z) \in Seq(Byte) /\ Len(SubSeq(t, 1, z)) = z
  BY <1>1
<1>3. \A j \in 1..z : SubSeq(t, 1, z)[j] = s[j]
  BY <1>1
<1>4. PICK g \in Seq(Byte) : g = SubSeq(t, 1, z)
  BY <1>2
<1>5. g = s
  BY <1>1, <1>2, <1>3, <1>4, SeqEqual
<1>6. SubSeq(s, 1, z) = s
  BY <1>1, SubSeqFull
<1> QED BY <1>1, <1>4, <1>5, <1>6 DEF IsPrefix

\* The round takes the piece that begins there, and gives its byte back.
LEMMA OneRound ==
  ASSUME EscapeAssumption, IInv, InRange, Unambiguous,
         NEW p \in Seq(Byte), NEW w \in Seq(Byte), NEW cut, NEW k \in Nat,
         Cuts(cut, w, p, Len(p)), k <= Len(p), cut[k] \in Nat,
         i = cut[k], Payload = w, i < Len(w)
  PROVE  /\ k < Len(p) /\ p[k + 1] \in Byte
         /\ \/ /\ Matching # {} /\ rules[Matched].value = p[k + 1]
               /\ i + Size(Matched) = cut[k + 1]
            \/ /\ Matching = {} /\ ~StartsEscape
               /\ Payload[i + 1] = p[k + 1] /\ i + 1 = cut[k + 1]
<1>0. TableOK /\ UnescapeRulesChecked /\ frame \in Seq(Byte) /\ i \in Nat /\ i <= Len(Payload)
  BY DEF IInv, TypeOK, Unambiguous
<1>1. k < Len(p) /\ p[k + 1] \in Byte
  BY <1>0, NextPiece
<1>2. PICK byte \in Byte, from \in Nat : byte = p[k + 1] /\ from = i
  BY <1>0, <1>1
<1>3. PICK e \in Seq(Byte), z \in Nat, y \in Nat :
          e = Escaped(byte) /\ z = Len(e) /\ z >= 1 /\ y = Len(w)
  BY <1>0, PieceFacts
<1>4. cut[k + 1] = from + z /\ from + z <= y /\ \A j \in 1..z : w[from + j] = e[j]
  <2>1. cut[k] < Len(w)
    OBVIOUS
  <2>2. /\ cut[k + 1] = cut[k] + Len(Escaped(p[k + 1])) /\ cut[k + 1] <= Len(w)
        /\ \A j \in 1..Len(Escaped(p[k + 1])) : w[cut[k] + j] = Escaped(p[k + 1])[j]
    BY <1>0, <2>1, NextPiece
  <2>3. cut[k] = from /\ Escaped(p[k + 1]) = e
    BY <1>2, <1>3
  <2> QED BY <1>3, <2>2, <2>3
<1>5. CASE HasRule(byte)
  <2>1. PICK r \in DOMAIN rules : r = RuleOf(byte) /\ rules[r].value = byte
    BY <1>0, <1>5, FirstRule
  <2>2. rules[r].escaped_value = e
    BY <1>3, <1>5, <2>1 DEF Escaped
  <2>3. MatchesAt(e, from)
    BY <1>3, <1>4, StandsMatches
  <2>4. r \in Matching
    BY <1>2, <2>2, <2>3 DEF Matching
  <2>5. Matched \in DOMAIN rules /\ Matched \in Matching /\ Size(r) <= Size(Matched)
    BY <1>0, <2>4, LongestExists
  <2>6. PICK s \in Seq(Byte), x \in Nat : s = rules[Matched].escaped_value /\ x = Len(s)
    BY <1>0, <2>5, RuleFacts
  <2>7. z <= x
    BY <1>3, <2>2, <2>5, <2>6 DEF Size
  <2>8. \A j \in 1..x : w[from + j] = s[j]
    <3>1. MatchesAt(s, from)
      BY <1>2, <2>5, <2>6 DEF Matching
    <3>2. from <= Len(w)
      BY <1>2
    <3> QED BY <2>6, <3>1, <3>2, MatchesStands
  <2>9. IsPrefix(e, s)
    <3>1. ASSUME NEW j \in 1..z
          PROVE  e[j] = s[j]
      <4>1. w[from + j] = e[j]
        BY <1>4
      <4>2. j \in 1..x
        BY <2>7
      <4> QED BY <2>8, <4>1, <4>2
    <3> QED BY <1>3, <2>6, <2>7, <3>1, BeginsWith
  <2>10. rules[r] = rules[Matched]
    BY <2>2, <2>5, <2>6, <2>9 DEF Unambiguous
  <2>11. s = e /\ x = z
    BY <1>3, <2>2, <2>6, <2>10
  <2>12. Size(Matched) = z
    BY <2>6, <2>11 DEF Size
  <2> QED BY <1>1, <1>2, <1>4, <2>1, <2>4, <2>10, <2>12
<1>6. CASE ~HasRule(byte)
  <2>1. e = <<byte>>
    BY <1>3, <1>6 DEF Escaped
  <2>2. z = 1 /\ w[from + 1] = byte
    BY <1>3, <1>4, <2>1
  <2>3. ASSUME NEW r \in DOMAIN rules
        PROVE  Head(rules[r].escaped_value) # byte
    BY <1>6, <2>3 DEF Unambiguous
  <2>4. Matching = {}
    <3> SUFFICES ASSUME NEW r \in Matching PROVE FALSE
      OBVIOUS
    <3>1. r \in DOMAIN rules /\ MatchesAt(rules[r].escaped_value, from)
      BY <1>2 DEF Matching
    <3>2. PICK s \in Seq(Byte) : s = rules[r].escaped_value
      BY <1>0, <3>1, RuleFacts
    <3>3. s # <<>>
      BY <1>0, <3>1, <3>2 DEF UnescapeRulesChecked
    <3>4. 1 \in 1..Len(s) /\ Head(s) = s[1]
      BY <3>3
    <3>5. w[from + 1] = s[1]
      <4>1. from <= Len(w)
        BY <1>2
      <4> QED BY <3>1, <3>2, <3>4, <4>1, MatchesStands
    <3> QED BY <2>2, <2>3, <3>1, <3>2, <3>4, <3>5
  <2>5. ~StartsEscape
    BY <1>2, <2>2, <2>3 DEF StartsEscape
  <2> QED BY <1>1, <1>2, <1>4, <2>2, <2>4, <2>5
<1> QED BY <1>5, <1>6

----------------------------------------------------------------------------
(* The whole way.                                                          *)

LEMMA Lasting ==
  ASSUME rules' = rules, header' = header, tail' = tail, sent' = sent
  PROVE  /\ SentFits' <=> SentFits
         /\ SentHead' = SentHead /\ SentPayload' = SentPayload /\ SentTail' = SentTail
         /\ Unambiguous' <=> Unambiguous
         /\ \A cut, w, p, n : Cuts(cut, w, p, n) => Cuts(cut, w, p, n)'
<1>1. SentFits' <=> SentFits
  BY DEF SentFits
<1>2. SentHead' = SentHead /\ SentPayload' = SentPayload /\ SentTail' = SentTail
  BY DEF SentHead, SentPayload, SentTail
<1>3. Unambiguous' <=> Unambiguous
  BY DEF Unambiguous, UnescapeRulesChecked, HasRule
<1>4. \A byte : Escaped(byte)' = Escaped(byte)
  BY DEF Escaped, HasRule, RuleOf
<1>5. \A cut, w, p, n : Cuts(cut, w, p, n) => Cuts(cut, w, p, n)'
  BY <1>4 DEF Cuts
<1> QED BY <1>1, <1>2, <1>3, <1>5

LEMMA EscapedParts ==
  ASSUME TableOK, SentOK, SentFits, NEW w \in Seq(Byte),
         frame = SentHead \o w \o SentTail
  PROVE  /\ Payload = w /\ InRange
         /\ SubSeq(frame, 1, header) = SentHead
         /\ SubSeq(frame, Len(frame) - tail + 1, Len(frame)) = SentTail
<1>1. PICK h \in Seq(Byte), t \in Seq(Byte), f \in Seq(Byte) :
          h = SentHead /\ t = SentTail /\ f = frame
  <2>1. SentHead \in Seq(Byte) /\ SentTail \in Seq(Byte)
    BY SentParts
  <2>2. SentHead \o w \o SentTail \in Seq(Byte)
    BY <2>1
  <2> QED BY <2>1, <2>2
<1>2. Len(h) = header /\ Len(t) = tail
  BY <1>1, SentParts
<1>3. /\ Len(f) = Len(h) + Len(w) + Len(t)
      /\ SubSeq(f, Len(h) + 1, Len(f) - Len(t)) = w
      /\ SubSeq(f, 1, Len(h)) = h
      /\ SubSeq(f, Len(f) - Len(t) + 1, Len(f)) = t
  BY <1>1, FrameParts
<1>4. InRange
  <2>1. Len(h) <= Len(f) /\ Len(t) <= Len(f) - Len(h)
    BY <1>3
  <2> QED BY <1>1, <1>2, <2>1 DEF InRange
<1> QED BY <1>1, <1>2, <1>3, <1>4 DEF Payload

LEMMA SentInRange ==
  ASSUME TableOK, SentOK, frame = sent
  PROVE  InRange <=> SentFits
<1>1. PICK h \in Nat, t \in Nat, n \in Nat : h = header /\ t = tail /\ n = Len(frame)
  <2>1. Len(sent) \in Nat
    BY DEF SentOK
  <2> QED BY <2>1 DEF TableOK
<1>2. (h <= n /\ t <= n - h) <=> h + t <= n
  BY <1>1
<1> QED BY <1>1, <1>2 DEF InRange, SentFits

LEMMA TripInitial ==
  ASSUME EscapeAssumption, Init
  PROVE  SentOK /\ TripInv
<1>1. frame \in Seq(Byte)
  BY Initial DEF IInv, TypeOK
<1>2. SentOK
  <2>1. sent = frame \/ sent = <<>>
    BY DEF Init
  <2>2. <<>> \in Seq(Byte)
    OBVIOUS
  <2> QED BY <1>1, <2>1, <2>2 DEF SentOK
<1>3. ASSUME sent # <<>> PROVE OnItsWay
  <2>1. mode = "escaping" /\ frame = sent /\ i = 0 /\ out = <<>>
    BY <1>3 DEF Init
  <2>2. ASSUME SentFits PROVE \E cut : Cuts(cut, out, SentPayload, i)
    <3>1. SentPayload \in Seq(Byte)
      BY <1>2, <2>2, Initial, SentParts DEF IInv
    <3> QED BY <2>1, <3>1, NoPieces
  <2> QED BY <2>1, <2>2 DEF OnItsWay
<1> QED BY <1>2, <1>3 DEF TripInv

LEMMA TripInductive ==
  ASSUME EscapeAssumption, IInv, SentOK, TripInv, [Next]_vars
  PROVE  SentOK' /\ TripInv'
<1>1. rules' = rules /\ header' = header /\ tail' = tail /\ sent' = sent
  BY DEF Next, Refuse, RefuseRule, EscapeByte, Send, UnescapeSequence, Unknown, Copy,
         Receive, Fail, Advances, vars
<1>2. SentOK'
  BY <1>1 DEF SentOK
<1> SUFFICES ASSUME sent # <<>>, Unambiguous PROVE OnItsWay'
  BY <1>1, <1>2, Lasting DEF TripInv
<1>3. OnItsWay
  BY DEF TripInv
<1>4. TableOK /\ UnescapeRulesChecked /\ frame \in Seq(Byte) /\ out \in Seq(Byte) /\ i \in Nat
  BY DEF IInv, TypeOK, Unambiguous
<1>5. /\ SentFits' <=> SentFits
      /\ SentHead' = SentHead /\ SentPayload' = SentPayload /\ SentTail' = SentTail
      /\ \A cut, w, p, n : Cuts(cut, w, p, n) => Cuts(cut, w, p, n)'
  BY <1>1, Lasting
<1>6. CASE UNCHANGED vars
  <2>1. frame' = frame /\ mode' = mode /\ i' = i /\ out' = out
    BY <1>6 DEF vars
  <2>2. \A w, cut, k, p : Halfway(w, cut, k, p) => Halfway(w, cut, k, p)'
    BY <1>5, <2>1 DEF Halfway
  <2> QED BY <1>1, <1>3, <1>5, <2>1, <2>2 DEF OnItsWay
<1>7. CASE Refuse
  <2>1. mode' = "failed" /\ ~InRange
    BY <1>7 DEF Refuse, Fail
  <2>2. mode # "unescaping"
    <3> SUFFICES ASSUME mode = "unescaping" PROVE FALSE
      OBVIOUS
    <3>1. SentFits /\ \E w \in Seq(Byte) : frame = SentHead \o w \o SentTail
      BY <1>3 DEF OnItsWay, Halfway
    <3> QED BY <1>4, <2>1, <3>1, EscapedParts
  <2>3. frame = sent
    BY <1>3, <1>7, <2>2 DEF Refuse, OnItsWay
  <2>4. ~SentFits
    BY <1>4, <2>1, <2>3, SentInRange
  <2> QED BY <1>5, <2>1, <2>4 DEF OnItsWay
<1>8. CASE RefuseRule
  <2>1. InRange /\ mode = "escaping" /\ ~EscapeRulesChecked
    BY <1>4, <1>8 DEF RefuseRule
  <2>2. Payload \in Seq(Byte)
    BY <1>4, <2>1, PayloadFacts
  <2>3. ASSUME NEW j \in DOMAIN Payload PROVE Escaped(Payload[j]) # <<>>
    <3>1. Payload[j] \in Byte
      BY <2>2
    <3>2. Len(Escaped(Payload[j])) >= 1
      BY <1>4, <3>1, PieceFacts
    <3> QED BY <3>2
  <2> QED BY <2>1, <2>3 DEF EscapeRulesChecked
<1>9. CASE EscapeByte
  <2>1. InRange /\ mode = "escaping" /\ i < Len(Payload)
          /\ out' = out \o Escaped(Payload[i + 1]) /\ i' = i + 1 /\ mode' = mode /\ frame' = frame
    BY <1>9 DEF EscapeByte, Advances
  <2>2. frame = sent
    BY <1>3, <2>1 DEF OnItsWay
  <2>3. SentFits
    BY <1>4, <2>1, <2>2, SentInRange
  <2>4. PICK cut : Cuts(cut, out, SentPayload, i)
    BY <1>3, <2>1, <2>3 DEF OnItsWay
  <2>5. Payload = SentPayload /\ SentPayload \in Seq(Byte)
    BY <1>4, <2>2, <2>3, SentParts DEF Payload, SentPayload
  <2>6. PICK c : Cuts(c, out \o Escaped(SentPayload[i + 1]), SentPayload, i + 1)
    BY <1>4, <2>1, <2>4, <2>5, CutsExtend
  <2>7. PICK w, n, p : w = out \o Escaped(SentPayload[i + 1]) /\ n = i + 1 /\ p = SentPayload
    OBVIOUS
  <2>8. Cuts(c, w, p, n)'
    BY <1>5, <2>6, <2>7
  <2>9. w = out' /\ n = i' /\ p = SentPayload'
    BY <1>5, <2>1, <2>5, <2>7
  <2>10. (\E cut_1 : Cuts(cut_1, out, SentPayload, i))'
    BY <2>8, <2>9
  <2> QED BY <1>1, <2>1, <2>2, <2>10 DEF OnItsWay
<1>10. CASE Send
  <2>1. InRange /\ mode = "escaping" /\ i = Len(Payload)
          /\ frame' = Framed /\ mode' = "unescaping" /\ i' = 0 /\ out' = <<>>
    BY <1>10 DEF Send
  <2>2. frame = sent
    BY <1>3, <2>1 DEF OnItsWay
  <2>3. SentFits
    BY <1>4, <2>1, <2>2, SentInRange
  <2>4. PICK cut : Cuts(cut, out, SentPayload, i)
    BY <1>3, <2>1, <2>3 DEF OnItsWay
  <2>5. Payload = SentPayload
    BY <2>2 DEF Payload, SentPayload
  <2>6. PICK w \in Seq(Byte), p \in Seq(Byte) : w = out /\ p = SentPayload
    BY <1>4, <2>3, SentParts
  <2>7. Cuts(cut, w, p, Len(p)) /\ cut[0] = 0
    BY <2>1, <2>4, <2>5, <2>6 DEF Cuts
  <2>8. frame' = SentHead \o w \o SentTail
    BY <2>1, <2>2, <2>6 DEF Framed, SentHead, SentTail
  <2>9. 0 \in 0..Len(p) /\ SubSeq(p, 1, 0) = <<>>
    OBVIOUS
  <2>10. Halfway(w, cut, 0, p)'
    BY <1>5, <2>1, <2>7, <2>8, <2>9 DEF Halfway
  <2>11. (\E w_1, cut_1, k : Halfway(w_1, cut_1, k, SentPayload))'
    BY <1>5, <2>6, <2>10
  <2> QED BY <1>5, <2>1, <2>3, <2>11 DEF OnItsWay
<1>11. CASE UnescapeSequence \/ Unknown \/ Copy
  <2>1. InRange /\ mode = "unescaping" /\ i < Len(Payload)
    BY <1>11 DEF UnescapeSequence, Unknown, Copy, AtByte
  <2>2. SentFits
    BY <1>3, <2>1 DEF OnItsWay
  <2>3. PICK p \in Seq(Byte) : p = SentPayload
    BY <1>4, <2>2, SentParts
  <2>4. PICK w, cut, k : Halfway(w, cut, k, p)
    BY <1>3, <2>1, <2>3 DEF OnItsWay
  <2>5. /\ w \in Seq(Byte) /\ Cuts(cut, w, p, Len(p)) /\ k \in 0..Len(p) /\ i = cut[k]
        /\ out = SubSeq(p, 1, k) /\ frame = SentHead \o w \o SentTail
    BY <2>4 DEF Halfway
  <2>6. Payload = w
    BY <1>4, <2>2, <2>5, EscapedParts
  <2>7. k \in Nat /\ k <= Len(p) /\ cut[k] \in Nat
    BY <1>4, <2>5
  <2>8. /\ k < Len(p) /\ p[k + 1] \in Byte
        /\ \/ /\ Matching # {} /\ rules[Matched].value = p[k + 1]
              /\ i + Size(Matched) = cut[k + 1]
           \/ /\ Matching = {} /\ ~StartsEscape
              /\ Payload[i + 1] = p[k + 1] /\ i + 1 = cut[k + 1]
    BY <2>1, <2>5, <2>6, <2>7, OneRound
  <2>9. out' = out \o <<p[k + 1]>> /\ i' = cut[k + 1] /\ mode' = mode /\ frame' = frame
    <3>1. CASE UnescapeSequence
      BY <2>8, <3>1 DEF UnescapeSequence, Advances
    <3>2. CASE Unknown
      BY <2>8, <3>2 DEF Unknown
    <3>3. CASE Copy
      BY <2>8, <3>3 DEF Copy, Advances
    <3> QED BY <1>11, <3>1, <3>2, <3>3
  <2>10. out' = SubSeq(p, 1, k + 1)
    <3>1. PICK n \in Nat : n = k + 1 /\ n \in 1..Len(p) /\ n - 1 = k
      BY <2>7, <2>8
    <3>2. SubSeq(p, 1, n) = SubSeq(p, 1, n - 1) \o <<p[n]>>
      <4>1. 1 \in 1..Len(p)
        BY <3>1
      <4> QED BY <3>1, <4>1, SubSeqRecursiveSecond
    <3> QED BY <2>5, <2>9, <3>1, <3>2
  <2>11. k + 1 \in 0..Len(p)
    BY <2>7, <2>8
  <2>12. Halfway(w, cut, k + 1, p)'
    BY <1>5, <2>5, <2>9, <2>10, <2>11 DEF Halfway
  <2>13. (\E w_1, cut_1, k_1 : Halfway(w_1, cut_1, k_1, SentPayload))'
    BY <1>5, <2>3, <2>12
  <2> QED BY <1>5, <2>1, <2>2, <2>9, <2>13 DEF OnItsWay
<1>12. CASE Receive
  <2>1. InRange /\ mode = "unescaping" /\ i = Len(Payload) /\ frame' = Framed /\ mode' = "ended"
    BY <1>12 DEF Receive
  <2>2. SentFits
    BY <1>3, <2>1 DEF OnItsWay
  <2>3. PICK p \in Seq(Byte) : p = SentPayload
    BY <1>4, <2>2, SentParts
  <2>4. PICK w, cut, k : Halfway(w, cut, k, p)
    BY <1>3, <2>1, <2>3 DEF OnItsWay
  <2>5. /\ w \in Seq(Byte) /\ Cuts(cut, w, p, Len(p)) /\ k \in 0..Len(p) /\ i = cut[k]
        /\ out = SubSeq(p, 1, k) /\ frame = SentHead \o w \o SentTail
    BY <2>4 DEF Halfway
  <2>6. /\ Payload = w /\ SubSeq(frame, 1, header) = SentHead
        /\ SubSeq(frame, Len(frame) - tail + 1, Len(frame)) = SentTail
    BY <1>4, <2>2, <2>5, EscapedParts
  <2>7. k = Len(p)
    <3>1. k \in Nat /\ k <= Len(p)
      BY <2>5
    <3>2. cut[k] = Len(w)
      BY <2>1, <2>5, <2>6
    <3> QED BY <1>4, <2>5, <3>1, <3>2, LastPiece
  <2>8. out = SentPayload
    BY <2>3, <2>5, <2>7, SubSeqFull
  <2>9. Framed = SentHead \o SentPayload \o SentTail
    BY <2>6, <2>8 DEF Framed
  <2>10. frame' = sent
    BY <1>4, <2>1, <2>2, <2>9, SentParts
  <2> QED BY <1>1, <2>1, <2>10 DEF OnItsWay
<1> QED BY <1>6, <1>7, <1>8, <1>9, <1>10, <1>11, <1>12 DEF Next

\* unescape_frame_payload after escape_frame_payload, for a table of any size
\* that can be undone and a frame of any length: no error, unless the header
\* and the tail do not fit the frame, and the frame that was sent.
THEOREM RoundTripHolds ==
  Spec => []RoundTrip
<1>1. Init => IInv /\ SentOK /\ TripInv
  BY Initial, TripInitial, EscapeAssumption
<1>2. IInv /\ SentOK /\ TripInv /\ [Next]_vars => (IInv /\ SentOK /\ TripInv)'
  BY Inductive, TripInductive, EscapeAssumption
<1>3. IInv /\ SentOK /\ TripInv => RoundTrip
  BY DEF TripInv, OnItsWay, RoundTrip, SentFits
<1> QED BY <1>1, <1>2, <1>3, PTL DEF Spec

----------------------------------------------------------------------------
(* The loops end.                                                          *)

Phase == IF mode = "escaping" THEN 2 ELSE IF mode = "unescaping" THEN 1 ELSE 0
BytesLeft == Len(Payload) - i

\* A step is a round that takes bytes of the payload, or the end of the loop.
Nearer == \/ Phase' < Phase
          \/ Phase' = Phase /\ BytesLeft \in Nat /\ BytesLeft' \in Nat /\ BytesLeft' < BytesLeft

LEMMA RoundIsNearer ==
  ASSUME EscapeAssumption, IInv, Next
  PROVE  Nearer
<1>1. ASSUME NEW bytes, NEW by \in Nat, by # 0, InRange, i + by <= Len(Payload),
             Advances(bytes, by), mode \in {"escaping", "unescaping"}
      PROVE  Nearer
  <2>1. i' = i + by /\ mode' = mode /\ Payload' = Payload
    BY <1>1 DEF Advances, Payload
  <2>2. PICK p \in Nat : p = Len(Payload)
    BY <1>1, PayloadFacts DEF IInv, TypeOK
  <2>3. i \in Nat
    BY DEF IInv, TypeOK
  <2>4. Phase' = Phase
    BY <2>1 DEF Phase
  <2>5. BytesLeft = p - i /\ BytesLeft' = p - (i + by)
    BY <2>1, <2>2 DEF BytesLeft
  <2> QED BY <1>1, <2>2, <2>3, <2>4, <2>5 DEF Nearer
<1>2. ASSUME mode \in {"escaping", "unescaping"}, Fail PROVE Nearer
  BY <1>2 DEF Fail, Nearer, Phase
<1>3. CASE Refuse
  BY <1>2, <1>3 DEF Refuse
<1>4. CASE RefuseRule
  BY <1>2, <1>4 DEF RefuseRule
<1>5. CASE EscapeByte
  <2>1. InRange /\ mode = "escaping" /\ Advances(Escaped(Payload[i + 1]), 1) /\ i < Len(Payload)
    BY <1>5 DEF EscapeByte
  <2>2. i + 1 <= Len(Payload)
    BY <2>1, PayloadFacts DEF IInv, TypeOK
  <2> QED BY <1>1, <2>1, <2>2
<1>6. CASE Send
  BY <1>6 DEF Send, Nearer, Phase
<1>7. CASE UnescapeSequence
  <2>1. /\ mode = "unescaping" /\ InRange /\ UnescapeRulesChecked /\ Matching # {}
        /\ Advances(<<rules[Matched].value>>, Size(Matched))
    BY <1>7 DEF UnescapeSequence, AtByte
  <2>2. Size(Matched) \in Nat /\ i + Size(Matched) <= Len(Payload)
    BY <2>1, MatchedFits DEF IInv, TypeOK
  <2>3. Size(Matched) # 0
    <3>1. Matched \in DOMAIN rules
      BY <2>1, LongestExists DEF IInv, TypeOK
    <3>2. rules[Matched].escaped_value \in Seq(Byte) /\ rules[Matched].escaped_value # <<>>
      BY <2>1, <3>1, RuleFacts DEF IInv, UnescapeRulesChecked
    <3> QED BY <3>2 DEF Size
  <2> QED BY <1>1, <2>1, <2>2, <2>3
<1>8. CASE Unknown
  BY <1>2, <1>8 DEF Unknown, AtByte
<1>9. CASE Copy
  <2>1. InRange /\ mode = "unescaping" /\ Advances(<<Payload[i + 1]>>, 1) /\ i < Len(Payload)
    BY <1>9 DEF Copy, AtByte
  <2>2. i + 1 <= Len(Payload)
    BY <2>1, PayloadFacts DEF IInv, TypeOK
  <2> QED BY <1>1, <2>1, <2>2
<1>10. CASE Receive
  BY <1>10 DEF Receive, Nearer, Phase
<1> QED BY <1>3, <1>4, <1>5, <1>6, <1>7, <1>8, <1>9, <1>10 DEF Next

\* escape_bytes and unescape_bytes go on for no longer than there are bytes
\* in the payload, whatever the table: every round takes one at least.  With
\* the fairness of Spec this is that they return.
THEOREM LoopsEnd ==
  Spec => [][Nearer]_vars
<1>1. Init => IInv
  BY Initial, EscapeAssumption
<1>2. IInv /\ [Next]_vars => IInv'
  BY Inductive, EscapeAssumption
<1>3. IInv /\ [Next]_vars => [Nearer]_vars
  BY RoundIsNearer, EscapeAssumption
<1> QED BY <1>1, <1>2, <1>3, PTL DEF Spec

----------------------------------------------------------------------------
(* Hex.                                                                    *)

HexTypeOK ==
    /\ made \in BOOLEAN /\ with_spaces \in BOOLEAN /\ uppercase \in BOOLEAN
    /\ source \in Seq(Octet) /\ text \in Seq(Char)
    /\ stage \in {"formatting", "counting", "pairing", "done", "failed"}
    /\ at \in Nat /\ output \in Nat /\ digit_count \in Nat /\ room \in Nat
    /\ high \in -1..15 /\ result \in Seq(Octet)
    /\ IF stage = "formatting" THEN at <= Len(source) ELSE at <= Len(text)
    /\ stage = "formatting" => made
    /\ stage \in {"formatting", "counting"} => result = <<>> /\ high = -1

\* What the loops compare.
LEMMA DigitFacts ==
  ASSUME NEW ch \in Char
  PROVE  /\ digit(ch) \in -1..15
         /\ digit(ch) >= 0 <=> ch.kind = "digit"
         /\ Skipped(ch) <=> ch.kind = "space"
         /\ ch.kind \in {"digit", "space", "other"}
         /\ ch.kind = "digit" => digit(ch) = ch.v /\ ch.v \in 0..15
BY DEF digit, Skipped, is_space, Char

LEMMA HalvesAreDigits ==
  ASSUME NEW byte \in Octet, uppercase \in BOOLEAN
  PROVE  /\ HighHalf(byte) \in Char /\ HighHalf(byte).kind = "digit"
         /\ LowHalf(byte) \in Char /\ LowHalf(byte).kind = "digit"
         /\ HighHalf(byte).v = byte \div 16 /\ LowHalf(byte).v = byte % 16
         /\ Joined(byte \div 16, byte % 16) = byte
<1>1. (byte \div 16) % 16 = byte \div 16 /\ byte \div 16 \in 0..15 /\ byte % 16 \in 0..15
  BY DEF Octet
<1>2. ((byte \div 16) * 16 + (byte % 16)) % 256 = byte
  BY DEF Octet
<1> QED BY <1>1, <1>2 DEF HighHalf, LowHalf, Digit, Char, Joined

LEMMA JoinedIsByte ==
  ASSUME NEW hi \in 0..15, NEW lo \in -1..15
  PROVE  Joined(hi, lo) \in Octet
BY DEF Joined, Octet

LEMMA Sizing ==
  ASSUME NEW bytes \in Seq(Octet), NEW spaced \in BOOLEAN
  PROVE  /\ ResultSize(bytes, spaced) \in Nat
         /\ spaced /\ Len(bytes) > 0 => ResultSize(bytes, spaced) = 3 * Len(bytes) - 1
         /\ ~spaced \/ Len(bytes) = 0 => ResultSize(bytes, spaced) = 2 * Len(bytes)
<1>0. Len(bytes) \in Nat
  OBVIOUS
<1>1. PICK n \in Nat : n = Len(bytes)
  BY <1>0
<1>2. CASE spaced = TRUE
  <2>1. ResultSize(bytes, spaced) = 2 * n + (IF n > 1 THEN n - 1 ELSE 0)
    BY <1>1, <1>2 DEF ResultSize
  <2>2. ResultSize(bytes, spaced) = IF n > 0 THEN 3 * n - 1 ELSE 0
    BY <2>1
  <2> QED BY <1>1, <1>2, <2>2
<1>3. CASE spaced = FALSE
  <2>1. ResultSize(bytes, spaced) = 2 * n + 0
    BY <1>1, <1>3 DEF ResultSize
  <2> QED BY <1>1, <1>3, <2>1
<1> QED BY <1>2, <1>3

LEMMA Marks == Space \in Char /\ Other \in Char
BY DEF Space, Other, Char

----------------------------------------------------------------------------
(* Types.                                                                  *)

LEMMA InitType == ASSUME HexAssumption PROVE HexInit => HexTypeOK
<1> SUFFICES ASSUME HexInit PROVE HexTypeOK
  OBVIOUS
<1>0. Sources \subseteq Seq(Octet) /\ Texts \subseteq Seq(Char)
  BY HexAssumption DEF HexAssumption
<1>1. /\ at = 0 /\ output = 0 /\ digit_count = 0 /\ high = -1 /\ result = <<>> /\ room = 0
      /\ made \in BOOLEAN /\ with_spaces \in BOOLEAN /\ uppercase \in BOOLEAN
      /\ stage \in {"formatting", "counting"} /\ (stage = "formatting" => made)
  BY DEF HexInit
<1>2. source \in Seq(Octet)
  <2>1. source \in Sources \/ source = <<>>
    BY DEF HexInit
  <2>2. <<>> \in Seq(Octet)
    OBVIOUS
  <2> QED BY <1>0, <2>1, <2>2
<1>3. text \in Seq(Char)
  <2>1. text = Blank(ResultSize(source, with_spaces)) \/ text \in Texts
    BY DEF HexInit
  <2>2. ResultSize(source, with_spaces) \in Nat
    BY <1>1, <1>2, Sizing
  <2>3. Blank(ResultSize(source, with_spaces)) \in Seq(Char)
    BY <2>2, Marks DEF Blank
  <2> QED BY <1>0, <2>1, <2>3
<1> QED BY <1>1, <1>2, <1>3 DEF HexTypeOK

LEMMA StepType == HexTypeOK /\ [HexNext]_hexVars => HexTypeOK'
<1> SUFFICES ASSUME HexTypeOK, [HexNext]_hexVars PROVE HexTypeOK'
  OBVIOUS
<1>1. CASE UNCHANGED hexVars
  BY <1>1 DEF hexVars, HexTypeOK
<1>2. CASE FormatByte
  <2>1. source[at + 1] \in Octet
    BY <1>2 DEF FormatByte, HexTypeOK
  <2>2. HighHalf(source[at + 1]) \in Char /\ LowHalf(source[at + 1]) \in Char
    BY <2>1, HalvesAreDigits DEF HexTypeOK
  <2>3. text' \in [1..Len(text) -> Char]
    BY <1>2, <2>2, Marks DEF FormatByte, HexTypeOK
  <2>4. text' \in Seq(Char)
    BY <2>3 DEF HexTypeOK
  <2> QED BY <1>2, <2>4 DEF FormatByte, HexTypeOK
<1>3. CASE Formatted
  BY <1>3 DEF Formatted, HexTypeOK
<1>4. CASE Skip
  BY <1>4 DEF Skip, HexTypeOK
<1>5. CASE RejectCharacter \/ RejectOdd
  BY <1>5 DEF RejectCharacter, RejectOdd, Reject, HexTypeOK
<1>6. CASE CountDigit
  BY <1>6 DEF CountDigit, HexTypeOK
<1>7. CASE Counted
  <2>1. digit_count \div 2 \in Nat
    BY DEF HexTypeOK
  <2> QED BY <1>7, <2>1 DEF Counted, HexTypeOK
<1>8. CASE TakeHigh
  <2>1. text[at + 1] \in Char
    BY <1>8 DEF TakeHigh, Pairs, HexTypeOK
  <2>2. digit(Current) \in -1..15
    BY <2>1, DigitFacts DEF Current
  <2> QED BY <1>8, <2>2 DEF TakeHigh, Pairs, HexTypeOK
<1>9. CASE PushByte
  <2>1. text[at + 1] \in Char
    BY <1>9 DEF PushByte, Pairs, HexTypeOK
  <2>2. digit(Current) \in -1..15
    BY <2>1, DigitFacts DEF Current
  <2>h. high \in 0..15
    BY <1>9 DEF PushByte, HexTypeOK
  <2>3. Joined(high, digit(Current)) \in Octet
    BY <2>h, <2>2, JoinedIsByte
  <2>4. result' \in Seq(Octet)
    BY <1>9, <2>3 DEF PushByte, HexTypeOK
  <2> QED BY <1>9, <2>4 DEF PushByte, Pairs, HexTypeOK
<1>10. CASE Paired
  BY <1>10 DEF Paired, HexTypeOK
<1> QED BY <1>1, <1>2, <1>3, <1>4, <1>5, <1>6, <1>7, <1>8, <1>9, <1>10 DEF HexNext

----------------------------------------------------------------------------
(* The sizes agree.                                                        *)

LEMMA DigitsCounted ==
  ASSUME HexTypeOK, NEW k \in Nat, k < Len(text)
  PROVE  /\ DigitsBefore(text, k) \in Nat
         /\ DigitsBefore(text, k + 1) = DigitsBefore(text, k) + IF text[k + 1].kind = "digit" THEN 1 ELSE 0
<1> DEFINE D(m) == {j \in 1..m : text[j].kind = "digit"}
<1>1. IsFiniteSet(1..k) /\ D(k) \subseteq 1..k
  BY FS_Interval
<1>2. IsFiniteSet(D(k)) /\ Cardinality(D(k)) \in Nat
  BY <1>1, FS_Subset, FS_CardinalityType
<1>3. CASE text[k + 1].kind = "digit"
  <2>1. D(k + 1) = D(k) \cup {k + 1} /\ k + 1 \notin D(k)
    BY <1>3
  <2>2. Cardinality(D(k) \cup {k + 1}) = Cardinality(D(k)) + 1
    BY <1>2, <2>1, FS_AddElement
  <2> QED BY <1>2, <1>3, <2>1, <2>2 DEF DigitsBefore
<1>4. CASE text[k + 1].kind # "digit"
  <2>1. D(k + 1) = D(k)
    BY <1>4
  <2>2. DigitsBefore(text, k + 1) = DigitsBefore(text, k) /\ DigitsBefore(text, k) \in Nat
    BY <1>2, <2>1 DEF DigitsBefore
  <2> QED BY <1>4, <2>2
<1> QED BY <1>3, <1>4

LEMMA DigitsNone == ASSUME NEW t PROVE DigitsBefore(t, 0) = 0
<1>1. {j \in 1..0 : t[j].kind = "digit"} = {}
  OBVIOUS
<1> QED BY <1>1, FS_EmptySet DEF DigitsBefore

LEMMA DigitsGrow ==
  ASSUME NEW k \in Nat, NEW m \in Nat, k <= m
  PROVE  DigitsBefore(text, k) \in Nat /\ DigitsBefore(text, m) \in Nat /\ DigitsBefore(text, k) <= DigitsBefore(text, m)
<1> DEFINE D(n) == {j \in 1..n : text[j].kind = "digit"}
<1>1. IsFiniteSet(1..m) /\ D(m) \subseteq 1..m /\ D(k) \subseteq D(m)
  BY FS_Interval
<1>2. IsFiniteSet(D(m)) /\ Cardinality(D(m)) \in Nat
  BY <1>1, FS_Subset, FS_CardinalityType
<1>3. IsFiniteSet(D(k)) /\ Cardinality(D(k)) <= Cardinality(D(m)) /\ Cardinality(D(k)) \in Nat
  BY <1>1, <1>2, FS_Subset, FS_CardinalityType
<1> QED BY <1>2, <1>3 DEF DigitsBefore

Odd == IF high >= 0 THEN 1 ELSE 0

SizeInv ==
    /\ made => Len(text) = ResultSize(source, with_spaces)
    /\ stage = "formatting" =>
           output = IF with_spaces
                      THEN IF at = Len(source) /\ at > 0 THEN 3 * at - 1 ELSE 3 * at
                      ELSE 2 * at
    /\ made /\ stage # "formatting" => output = Len(text)

CountInv ==
    /\ stage = "formatting" => digit_count = 0
    /\ stage = "counting" => digit_count = DigitsBefore(text, at)
    /\ stage \in {"pairing", "done"} =>
           /\ digit_count = DigitsBefore(text, Len(text)) /\ digit_count % 2 = 0
           /\ room = digit_count \div 2
           /\ \A j \in 1..Len(text) : text[j].kind # "other"
           /\ 2 * Len(result) + Odd = DigitsBefore(text, at)
    /\ stage = "counting" => \A j \in 1..at : text[j].kind # "other"
    /\ stage = "done" => at = Len(text)

\* The inductive invariant behind PassesAgree: where to_hex's index is, and
\* how many digits each pass has met at its position.
PassInv == HexTypeOK /\ SizeInv /\ CountInv

LEMMA PassInit == ASSUME HexAssumption PROVE HexInit => PassInv
<1> SUFFICES ASSUME HexInit PROVE PassInv
  OBVIOUS
<1>1. HexTypeOK
  BY InitType, HexAssumption
<1>2. /\ at = 0 /\ output = 0 /\ digit_count = 0
      /\ stage \in {"formatting", "counting"} /\ (stage = "counting" => ~made)
  BY DEF HexInit
<1>3. made => text = Blank(ResultSize(source, with_spaces))
  BY DEF HexInit
<1>4. ResultSize(source, with_spaces) \in Nat
  BY <1>1, Sizing DEF HexTypeOK
<1>5. made => Len(text) = ResultSize(source, with_spaces)
  BY <1>3, <1>4 DEF Blank
<1>6. SizeInv
  BY <1>2, <1>5 DEF SizeInv
<1>7. CountInv
  BY <1>2, DigitsNone DEF CountInv
<1> QED BY <1>1, <1>6, <1>7 DEF PassInv

\* One position further, the digits met are one more or the same.
LEMMA NextPosition ==
  ASSUME HexTypeOK, stage # "formatting", at < Len(text)
  PROVE  /\ Current \in Char /\ Current = text[at + 1] /\ at + 1 \in Nat
         /\ DigitsBefore(text, at) \in Nat
         /\ DigitsBefore(text, at + 1) = DigitsBefore(text, at) + IF Current.kind = "digit" THEN 1 ELSE 0
<1>1. at \in Nat /\ text \in Seq(Char) /\ Current = text[at + 1]
  BY DEF HexTypeOK, Current
<1>2. Current \in Char
  BY <1>1
<1> QED BY <1>1, <1>2, DigitsCounted

LEMMA PassStep == PassInv /\ [HexNext]_hexVars => PassInv'
<1> SUFFICES ASSUME PassInv, [HexNext]_hexVars PROVE PassInv'
  OBVIOUS
<1>t. HexTypeOK /\ HexTypeOK' /\ SizeInv /\ CountInv
  BY StepType DEF PassInv
<1>s. SizeInv'
  <2>1. CASE FormatByte
    <3>1. at \in Nat /\ at < Len(source) /\ Len(source) \in Nat /\ at' = at + 1 /\ stage' = stage
          /\ source' = source /\ with_spaces' = with_spaces /\ made' = made
          /\ output' = output + (IF Separated(at) THEN 3 ELSE 2) /\ stage = "formatting"
      BY <2>1, <1>t DEF FormatByte, HexTypeOK
    <3>2. Len(text') = Len(text)
      BY <2>1, <1>t DEF FormatByte, HexTypeOK
    <3>3. output = IF with_spaces THEN 3 * at ELSE 2 * at
      BY <3>1, <1>t DEF SizeInv
    <3>4. PICK n \in Nat : n = Len(source)
      BY <3>1
    <3>5. CASE with_spaces = TRUE
      <4>1. output' = IF at + 1 = n THEN 3 * (at + 1) - 1 ELSE 3 * (at + 1)
        BY <3>1, <3>3, <3>4, <3>5 DEF Separated
      <4>2. output' = IF with_spaces'
                        THEN IF at' = Len(source') /\ at' > 0 THEN 3 * at' - 1 ELSE 3 * at'
                        ELSE 2 * at'
        BY <3>1, <3>4, <3>5, <4>1
      <4>3. made' => Len(text') = ResultSize(source', with_spaces')
        BY <3>1, <3>2, <1>t DEF SizeInv
      <4> QED BY <3>1, <4>2, <4>3 DEF SizeInv
    <3>6. CASE with_spaces = FALSE
      <4>1. output' = 2 * (at + 1)
        BY <3>1, <3>3, <3>6 DEF Separated
      <4> QED BY <3>1, <3>2, <3>6, <4>1, <1>t DEF SizeInv
    <3> QED BY <3>5, <3>6, <1>t DEF HexTypeOK
  <2>2. CASE Formatted
    <3>1. made = TRUE /\ stage = "formatting" /\ at = Len(source) /\ at \in Nat
      BY <2>2, <1>t DEF Formatted, HexTypeOK
    <3>2. source \in Seq(Octet) /\ with_spaces \in BOOLEAN
      BY <1>t DEF HexTypeOK
    <3>3. Len(text) = ResultSize(source, with_spaces)
      BY <3>1, <1>t DEF SizeInv
    <3>4. output = IF with_spaces THEN IF at > 0 THEN 3 * at - 1 ELSE 3 * at ELSE 2 * at
      BY <3>1, <1>t DEF SizeInv
    <3>5. output = Len(text)
      <4>1. CASE with_spaces = TRUE /\ at > 0
        <5>1. ResultSize(source, with_spaces) = 3 * at - 1
          BY <3>1, <3>2, <4>1, Sizing
        <5> QED BY <3>1, <3>3, <3>4, <4>1, <5>1
      <4>2. CASE with_spaces = FALSE \/ at = 0
        <5>1. ResultSize(source, with_spaces) = 2 * at
          BY <3>1, <3>2, <4>2, Sizing
        <5>2. output = 2 * at
          BY <3>1, <3>2, <3>4, <4>2
        <5> QED BY <3>3, <5>1, <5>2
      <4>3. (with_spaces = TRUE \/ with_spaces = FALSE) /\ (at > 0 \/ at = 0)
        BY <3>1, <3>2
      <4> QED BY <4>1, <4>2, <4>3
    <3> QED BY <2>2, <3>5, <1>t DEF Formatted, SizeInv
  <2>3. CASE /\ UNCHANGED <<made, source, with_spaces, text, output>>
             /\ stage # "formatting" /\ stage' # "formatting"
    BY <2>3, <1>t DEF SizeInv
  <2>4. CASE UNCHANGED hexVars
    BY <2>4, <1>t DEF SizeInv, hexVars
  <2>5. CASE Skip \/ RejectCharacter \/ CountDigit \/ RejectOdd \/ Counted \/ TakeHigh
             \/ PushByte \/ Paired
    BY <2>5, <2>3 DEF Skip, RejectCharacter, CountDigit, RejectOdd, Counted, TakeHigh,
                      PushByte, Paired, Pairs, Reject
  <2> QED BY <2>1, <2>2, <2>4, <2>5 DEF HexNext
<1>c. CountInv'
  <2>1. CASE FormatByte
    BY <2>1, <1>t DEF FormatByte, CountInv
  <2>2. CASE Formatted
    <3>1. stage' = "counting" /\ at' = 0 /\ digit_count' = 0
      BY <2>2, <1>t DEF Formatted, CountInv
    <3>2. DigitsBefore(text', 0) = 0
      BY DigitsNone
    <3> QED BY <3>1, <3>2 DEF CountInv
  <2>3. CASE Skip
    <3>1. /\ stage \in {"counting", "pairing"} /\ at < Len(text) /\ at' = at + 1
          /\ Skipped(Current)
          /\ UNCHANGED <<text, stage, digit_count, high, result, room>>
      BY <2>3 DEF Skip
    <3>2. Current.kind # "digit" /\ Current.kind # "other" /\ Current = text[at + 1]
      BY <3>1, <1>t, NextPosition, DigitFacts
    <3>3. DigitsBefore(text, at + 1) = DigitsBefore(text, at)
      BY <3>1, <3>2, <1>t, NextPosition
    <3>4. \A j \in 1..(at + 1) : j \in 1..at \/ j = at + 1
      BY <1>t DEF HexTypeOK
    <3> QED BY <3>1, <3>2, <3>3, <3>4, <1>t DEF CountInv, Odd
  <2>4. CASE RejectCharacter \/ RejectOdd
    BY <2>4 DEF RejectCharacter, RejectOdd, Reject, CountInv
  <2>5. CASE CountDigit
    <3>1. /\ stage = "counting" /\ at < Len(text) /\ at' = at + 1
          /\ ~Skipped(Current) /\ digit(Current) >= 0 /\ digit_count' = digit_count + 1
          /\ UNCHANGED <<text, stage, high, result, room>>
      BY <2>5 DEF CountDigit
    <3>2. Current.kind = "digit" /\ Current = text[at + 1]
      BY <3>1, <1>t, NextPosition, DigitFacts
    <3>3. DigitsBefore(text, at + 1) = DigitsBefore(text, at) + 1
      BY <3>1, <3>2, <1>t, NextPosition
    <3>4. \A j \in 1..(at + 1) : j \in 1..at \/ j = at + 1
      BY <1>t DEF HexTypeOK
    <3> QED BY <3>1, <3>2, <3>3, <3>4, <1>t DEF CountInv
  <2>6. CASE Counted
    <3>1. /\ stage = "counting" /\ at = Len(text) /\ digit_count % 2 = 0 /\ stage' = "pairing"
          /\ at' = 0 /\ room' = digit_count \div 2
          /\ UNCHANGED <<text, digit_count, high, result>>
      BY <2>6 DEF Counted
    <3>2. result = <<>> /\ high = -1
      BY <3>1, <1>t DEF HexTypeOK
    <3>3. 2 * Len(result') + Odd' = 0
      BY <3>1, <3>2 DEF Odd
    <3>4. DigitsBefore(text, 0) = 0
      BY DigitsNone
    <3> QED BY <3>1, <3>3, <3>4, <1>t DEF CountInv
  <2>7. CASE TakeHigh
    <3>1. /\ stage = "pairing" /\ at < Len(text) /\ ~Skipped(Current) /\ at' = at + 1
          /\ high < 0 /\ high' = digit(Current)
          /\ UNCHANGED <<text, stage, digit_count, result, room>>
      BY <2>7 DEF TakeHigh, Pairs
    <3>2. Current.kind # "other"
      BY <3>1, <1>t, NextPosition DEF CountInv, HexTypeOK
    <3>3. Current.kind = "digit" /\ digit(Current) >= 0
      BY <3>1, <3>2, <1>t, NextPosition, DigitFacts
    <3>4. DigitsBefore(text, at + 1) = DigitsBefore(text, at) + 1 /\ DigitsBefore(text, at) \in Nat
      BY <3>1, <3>3, <1>t, NextPosition
    <3>5. Odd = 0 /\ Odd' = 1
      BY <3>1, <3>3, <1>t DEF Odd, HexTypeOK
    <3>6. Len(result) \in Nat /\ Len(result') = Len(result)
      BY <3>1, <1>t DEF HexTypeOK
    <3>7. 2 * Len(result') + Odd' = DigitsBefore(text', at')
      BY <3>1, <3>4, <3>5, <3>6, <1>t DEF CountInv
    <3> QED BY <3>1, <3>7, <1>t DEF CountInv
  <2>8. CASE PushByte
    <3>1. /\ stage = "pairing" /\ at < Len(text) /\ ~Skipped(Current) /\ at' = at + 1
          /\ high >= 0 /\ high' = -1
          /\ result' = Append(result, Joined(high, digit(Current)))
          /\ UNCHANGED <<text, stage, digit_count, room>>
      BY <2>8 DEF PushByte, Pairs
    <3>2. Current.kind # "other"
      BY <3>1, <1>t, NextPosition DEF CountInv, HexTypeOK
    <3>3. Current.kind = "digit"
      BY <3>1, <3>2, <1>t, NextPosition, DigitFacts
    <3>4. DigitsBefore(text, at + 1) = DigitsBefore(text, at) + 1 /\ DigitsBefore(text, at) \in Nat
      BY <3>1, <3>3, <1>t, NextPosition
    <3>5. Odd = 1 /\ Odd' = 0
      BY <3>1 DEF Odd
    <3>6. Len(result) \in Nat /\ Len(result') = Len(result) + 1
      BY <3>1, <1>t DEF HexTypeOK
    <3>7. 2 * Len(result') + Odd' = DigitsBefore(text', at')
      BY <3>1, <3>4, <3>5, <3>6, <1>t DEF CountInv
    <3> QED BY <3>1, <3>7, <1>t DEF CountInv
  <2>9. CASE Paired
    BY <2>9, <1>t DEF Paired, CountInv, Odd
  <2>10. CASE UNCHANGED hexVars
    BY <2>10, <1>t DEF CountInv, hexVars, DigitsBefore, Odd
  <2> QED BY <2>1, <2>2, <2>3, <2>4, <2>5, <2>6, <2>7, <2>8, <2>9, <2>10 DEF HexNext
<1> QED BY <1>t, <1>s, <1>c DEF PassInv

LEMMA PassInvHolds == PassInv => PassesAgree
<1> SUFFICES ASSUME PassInv PROVE PassesAgree
  OBVIOUS
<1>t. HexTypeOK /\ SizeInv /\ CountInv
  BY DEF PassInv
<1>1. stage = "formatting" => output <= Len(text)
  <2> SUFFICES ASSUME stage = "formatting" PROVE output <= Len(text)
    OBVIOUS
  <2>1. /\ source \in Seq(Octet) /\ with_spaces \in BOOLEAN /\ made = TRUE
        /\ at \in Nat /\ at <= Len(source) /\ Len(source) \in Nat
    BY <1>t DEF HexTypeOK
  <2>2. Len(text) = ResultSize(source, with_spaces)
    BY <2>1, <1>t DEF SizeInv
  <2>3. output = IF with_spaces
                   THEN IF at = Len(source) /\ at > 0 THEN 3 * at - 1 ELSE 3 * at
                   ELSE 2 * at
    BY <1>t DEF SizeInv
  <2>4. PICK n \in Nat, k \in Nat : n = Len(source) /\ k = at /\ k <= n
    BY <2>1
  <2>5. CASE with_spaces = TRUE /\ n > 0
    <3>1. Len(text) = 3 * n - 1
      BY <2>1, <2>2, <2>4, <2>5, Sizing
    <3>2. output = IF k = n /\ k > 0 THEN 3 * k - 1 ELSE 3 * k
      BY <2>3, <2>4, <2>5
    <3>3. output <= 3 * n - 1
      BY <3>2, <2>4, <2>5
    <3> QED BY <3>1, <3>3
  <2>6. CASE with_spaces = FALSE
    <3>1. Len(text) = 2 * n
      BY <2>1, <2>2, <2>4, <2>6, Sizing
    <3> QED BY <2>1, <2>3, <2>4, <2>6, <3>1
  <2>7. CASE n = 0
    <3>1. Len(text) = 2 * n
      BY <2>1, <2>2, <2>4, <2>7, Sizing
    <3> QED BY <2>1, <2>3, <2>4, <2>7, <3>1
  <2>8. (with_spaces = TRUE \/ with_spaces = FALSE) /\ (n > 0 \/ n = 0)
    BY <2>1, <2>4
  <2> QED BY <2>5, <2>6, <2>7, <2>8
<1>2. stage \in {"pairing", "done"} => Len(result) <= room
  <2> SUFFICES ASSUME stage \in {"pairing", "done"} PROVE Len(result) <= room
    OBVIOUS
  <2>1. /\ digit_count = DigitsBefore(text, Len(text)) /\ room = digit_count \div 2
        /\ 2 * Len(result) + Odd = DigitsBefore(text, at)
        /\ at \in Nat /\ Len(text) \in Nat /\ at <= Len(text) /\ Len(result) \in Nat
        /\ digit_count \in Nat
    BY <1>t DEF CountInv, HexTypeOK
  <2>2. DigitsBefore(text, at) <= digit_count /\ DigitsBefore(text, at) \in Nat
    BY <2>1, DigitsGrow
  <2>3. PICK r \in Nat, d \in Nat : r = Len(result) /\ d = digit_count
    BY <2>1
  <2>4. 2 * r <= d
    BY <2>1, <2>2, <2>3 DEF Odd
  <2>5. r <= d \div 2
    BY <2>4
  <2> QED BY <2>1, <2>3, <2>5
<1>3. stage = "done" => Len(result) = room /\ high = -1
  <2> SUFFICES ASSUME stage = "done" PROVE Len(result) = room /\ high = -1
    OBVIOUS
  <2>1. /\ digit_count % 2 = 0 /\ room = digit_count \div 2 /\ digit_count \in Nat
        /\ 2 * Len(result) + Odd = digit_count /\ Len(result) \in Nat
    BY <1>t DEF CountInv, HexTypeOK
  <2>2. PICK r \in Nat, d \in Nat, odd \in {0, 1} :
           r = Len(result) /\ d = digit_count /\ odd = Odd
    BY <2>1 DEF Odd
  <2>3. 2 * r + odd = d /\ d % 2 = 0
    BY <2>1, <2>2
  <2>4. odd = 0 /\ r = d \div 2
    BY <2>3
  <2>5. ~(high >= 0)
    BY <2>2, <2>4 DEF Odd
  <2> QED BY <2>1, <2>2, <2>4, <2>5, <1>t DEF HexTypeOK
<1> QED BY <1>1, <1>2, <1>3, <1>t DEF PassesAgree, SizeInv

\* For texts and arrays of every length, to_hex writes exactly the string it
\* has sized, and the second pass of from_hex exactly fills what the first
\* one reserved.
THEOREM PassesAlwaysAgree ==
  HexSpec => []PassesAgree
<1>1. HexInit => PassInv
  BY PassInit, HexAssumption
<1> QED BY <1>1, PassStep, PassInvHolds, PTL DEF HexSpec

----------------------------------------------------------------------------
(* from_hex undoes to_hex.                                                 *)

\* Where byte k of the source begins in the text.
Place(k) == IF with_spaces THEN 3 * (k - 1) ELSE 2 * (k - 1)

\* Octet k of the source is in the text.
Shown(k) ==
    /\ text[Place(k) + 1] = HighHalf(source[k])
    /\ text[Place(k) + 2] = LowHalf(source[k])
    /\ with_spaces /\ k < Len(source) => text[Place(k) + 3] = Space

\* The digits in front of position j of a text that to_hex made.
SpeltTo(j) == IF with_spaces THEN 2 * (j \div 3) + (j % 3) ELSE j

Sized ==
    /\ HexTypeOK /\ made = TRUE /\ stage # "formatting"
    /\ Len(text) = ResultSize(source, with_spaces)
    /\ \A k \in 1..Len(source) : Shown(k)

\* What stands at the position of a pass.
LEMMA WhatStandsThere ==
  ASSUME Sized, at < Len(text)
  PROVE  \E m \in 0..(Len(source) - 1) :
            \/ Current = HighHalf(source[m + 1]) /\ SpeltTo(at) = 2 * m
                    /\ SpeltTo(at + 1) = 2 * m + 1
            \/ Current = LowHalf(source[m + 1]) /\ SpeltTo(at) = 2 * m + 1
                    /\ SpeltTo(at + 1) = 2 * m + 2
            \/ Current = Space /\ SpeltTo(at) = SpeltTo(at + 1)
<1>1. /\ at \in Nat /\ source \in Seq(Octet) /\ with_spaces \in BOOLEAN /\ Len(source) \in Nat
      /\ Current = text[at + 1] /\ Len(text) = ResultSize(source, with_spaces)
      /\ \A k \in 1..Len(source) : Shown(k)
  BY DEF Sized, HexTypeOK, Current
<1>2. PICK n \in Nat, j \in Nat : n = Len(source) /\ j = at
  BY <1>1
<1>3. CASE with_spaces = TRUE
  <2>1. n > 0 /\ j < 3 * n - 1
    <3>1. CASE n = 0
      <4>1. Len(text) = 2 * n
        BY <1>1, <1>2, <3>1, Sizing
      <4> QED BY <1>2, <3>1, <4>1
    <3>2. CASE n > 0
      <4>1. Len(text) = 3 * n - 1
        BY <1>1, <1>2, <1>3, <3>2, Sizing
      <4> QED BY <1>2, <3>2, <4>1
    <3> QED BY <1>2, <3>1, <3>2
  <2>2. PICK m \in Nat : m = j \div 3
    BY <1>2
  <2>3. m \in 0..(n - 1) /\ (j = 3 * m \/ j = 3 * m + 1 \/ (j = 3 * m + 2 /\ m + 1 < n))
    <3>1. j = 3 * m \/ j = 3 * m + 1 \/ j = 3 * m + 2
      BY <2>2
    <3>2. 3 * m <= j
      BY <3>1
    <3>3. m < n /\ n \in Nat /\ m \in Nat
      BY <2>1, <3>2
    <3>4. j = 3 * m + 2 => m + 1 < n
      BY <2>1
    <3>5. m \in 0..(n - 1)
      BY <3>3
    <3>6. j = 3 * m \/ j = 3 * m + 1 \/ (j = 3 * m + 2 /\ m + 1 < n)
      BY <3>1, <3>4
    <3> QED BY <3>5, <3>6
  <2>4. Shown(m + 1) /\ Place(m + 1) = 3 * m
    BY <1>1, <1>2, <1>3, <2>3 DEF Place
  <2>5. SpeltTo(j) = 2 * (j \div 3) + (j % 3) /\ SpeltTo(j + 1) = 2 * ((j + 1) \div 3) + ((j + 1) % 3)
    BY <1>3 DEF SpeltTo
  <2>6. CASE j = 3 * m
    <3>1. Current = HighHalf(source[m + 1])
      BY <1>1, <1>2, <2>4, <2>6 DEF Shown
    <3>2. SpeltTo(j) = 2 * m /\ SpeltTo(j + 1) = 2 * m + 1
      BY <2>5, <2>6
    <3> QED BY <1>2, <2>3, <3>1, <3>2
  <2>7. CASE j = 3 * m + 1
    <3>1. Current = LowHalf(source[m + 1])
      BY <1>1, <1>2, <2>4, <2>7 DEF Shown
    <3>2. SpeltTo(j) = 2 * m + 1 /\ SpeltTo(j + 1) = 2 * m + 2
      BY <2>5, <2>7
    <3> QED BY <1>2, <2>3, <3>1, <3>2
  <2>8. CASE j = 3 * m + 2 /\ m + 1 < n
    <3>1. Current = Space
      <4>1. text[Place(m + 1) + 3] = Space
        BY <1>2, <1>3, <2>4, <2>8 DEF Shown
      <4>2. Place(m + 1) + 3 = j + 1
        BY <2>3, <2>4, <2>8
      <4> QED BY <1>1, <1>2, <4>1, <4>2
    <3>2. SpeltTo(j) = SpeltTo(j + 1)
      BY <2>5, <2>8
    <3> QED BY <1>2, <2>3, <3>1, <3>2
  <2> QED BY <2>3, <2>6, <2>7, <2>8
<1>4. CASE with_spaces = FALSE
  <2>1. j < 2 * n
    BY <1>1, <1>2, <1>4, Sizing
  <2>2. PICK m \in Nat : m = j \div 2
    BY <1>2
  <2>3. m \in 0..(n - 1) /\ (j = 2 * m \/ j = 2 * m + 1)
    BY <2>1, <2>2
  <2>4. Shown(m + 1) /\ Place(m + 1) = 2 * m
    BY <1>1, <1>2, <1>4, <2>3 DEF Place
  <2>5. SpeltTo(j) = j /\ SpeltTo(j + 1) = j + 1
    BY <1>4 DEF SpeltTo
  <2>6. CASE j = 2 * m
    <3>1. Current = HighHalf(source[m + 1])
      BY <1>1, <1>2, <2>4, <2>6 DEF Shown
    <3> QED BY <1>2, <2>3, <2>5, <2>6, <3>1
  <2>7. CASE j = 2 * m + 1
    <3>1. Current = LowHalf(source[m + 1])
      BY <1>1, <1>2, <2>4, <2>7 DEF Shown
    <3> QED BY <1>2, <2>3, <2>5, <2>7, <3>1
  <2> QED BY <2>3, <2>6, <2>7
<1> QED BY <1>1, <1>3, <1>4

LEMMA SpeltAll ==
  ASSUME Sized
  PROVE  SpeltTo(Len(text)) = 2 * Len(source)
<1>1. /\ source \in Seq(Octet) /\ with_spaces \in BOOLEAN /\ Len(source) \in Nat
      /\ Len(text) \in Nat /\ Len(text) = ResultSize(source, with_spaces)
  BY DEF Sized, HexTypeOK
<1>2. PICK n \in Nat, j \in Nat : n = Len(source) /\ j = Len(text)
  BY <1>1
<1>3. CASE with_spaces = TRUE
  <2>1. CASE n > 0
    <3>1. j = 3 * n - 1
      BY <1>1, <1>2, <1>3, <2>1, Sizing
    <3>2. SpeltTo(j) = 2 * (j \div 3) + (j % 3)
      BY <1>3 DEF SpeltTo
    <3>3. j \div 3 = n - 1 /\ j % 3 = 2
      BY <2>1, <3>1
    <3> QED BY <1>2, <3>2, <3>3
  <2>2. CASE n = 0
    <3>1. j = 0
      <4>1. ResultSize(source, with_spaces) = 2 * n
        BY <1>1, <1>2, <2>2, Sizing
      <4> QED BY <1>1, <1>2, <2>2, <4>1
    <3>2. SpeltTo(j) = 2 * (j \div 3) + (j % 3)
      BY <1>3 DEF SpeltTo
    <3> QED BY <1>2, <2>2, <3>1, <3>2
  <2> QED BY <1>2, <2>1, <2>2
<1>4. CASE with_spaces = FALSE
  <2>1. j = 2 * n
    BY <1>1, <1>2, <1>4, Sizing
  <2> QED BY <1>2, <1>4, <2>1 DEF SpeltTo
<1> QED BY <1>1, <1>3, <1>4

\* The inductive invariant behind HexRoundTrip: the bytes formatted stand in
\* the text, and each pass is as far as its position says.
HexTripInv ==
    made =>
        /\ stage # "failed"
        /\ \A k \in 1..(IF stage = "formatting" THEN at ELSE Len(source)) : Shown(k)
        /\ stage = "counting" => digit_count = SpeltTo(at)
        /\ stage \in {"pairing", "done"} =>
               /\ 2 * Len(result) + Odd = SpeltTo(at)
               /\ Len(result) <= Len(source)
               /\ \A k \in 1..Len(result) : result[k] = source[k]
               /\ high >= 0 => /\ Len(result) < Len(source)
                              /\ high = source[Len(result) + 1] \div 16
        /\ stage = "done" => at = Len(text)

LEMMA TripInit == HexInit => HexTripInv
<1> SUFFICES ASSUME HexInit PROVE HexTripInv
  OBVIOUS
<1>1. at = 0 /\ (made => stage = "formatting")
  BY DEF HexInit
<1> QED BY <1>1 DEF HexTripInv

LEMMA ShownStep ==
  ASSUME HexTypeOK, SizeInv, HexTripInv, FormatByte
  PROVE  \A k \in 1..at' : Shown(k)'
<1>1. /\ stage = "formatting" /\ at < Len(source) /\ at \in Nat /\ Len(source) \in Nat
      /\ with_spaces \in BOOLEAN /\ made = TRUE /\ text \in Seq(Char) /\ source \in Seq(Octet)
      /\ at' = at + 1 /\ UNCHANGED <<source, with_spaces, uppercase>>
  BY DEF FormatByte, HexTypeOK
<1>2. PICK n \in Nat, j \in Nat : n = Len(source) /\ j = at /\ j < n
  BY <1>1
<1>3. output = (IF with_spaces THEN 3 * j ELSE 2 * j) /\ Place(j + 1) = output
  BY <1>1, <1>2 DEF SizeInv, Place
<1>4. output \in Nat /\ output + 2 <= Len(text)
      /\ (with_spaces /\ j + 1 < n => output + 3 <= Len(text))
  <2>1. Len(text) = ResultSize(source, with_spaces)
    BY <1>1 DEF SizeInv
  <2>2. CASE with_spaces = TRUE
    <3>1. n > 0
      BY <1>2
    <3>2. ResultSize(source, with_spaces) = 3 * n - 1
      BY <1>1, <1>2, <2>2, <3>1, Sizing
    <3> QED BY <1>2, <1>3, <2>1, <2>2, <3>2
  <2>3. CASE with_spaces = FALSE
    <3>1. Len(text) = 2 * n
      BY <1>1, <1>2, <2>1, <2>3, Sizing
    <3> QED BY <1>2, <1>3, <2>3, <3>1
  <2> QED BY <1>1, <2>2, <2>3
<1>5. \A p \in 1..Len(text) :
         text'[p] = IF p = output + 1 THEN HighHalf(source[j + 1])
                    ELSE IF p = output + 2 THEN LowHalf(source[j + 1])
                    ELSE IF p = output + 3 /\ Separated(j) THEN Space
                    ELSE text[p]
  BY <1>1, <1>2 DEF FormatByte
<1>6. ASSUME NEW k \in 1..j PROVE Shown(k)'
  <2>1. Shown(k) /\ k \in Nat /\ k >= 1 /\ k <= j
    BY <1>1, <1>2, <1>6 DEF HexTripInv
  <2>2. Place(k) \in Nat /\ Place(k) + 2 <= output /\ (with_spaces => Place(k) + 3 <= output)
    BY <1>1, <1>3, <2>1 DEF Place
  <2>3. \A p \in 1..output : text'[p] = text[p]
    BY <1>4, <1>5
  <2>4. UNCHANGED <<Place(k), HighHalf(source[k]), LowHalf(source[k])>>
    BY <1>1 DEF Place, HighHalf, LowHalf
  <2> QED BY <1>1, <1>4, <2>1, <2>2, <2>3, <2>4 DEF Shown
<1>7. Shown(j + 1)'
  <2>1. text'[output + 1] = HighHalf(source[j + 1])
    BY <1>4, <1>5
  <2>2. text'[output + 2] = LowHalf(source[j + 1])
    BY <1>4, <1>5
  <2>3. with_spaces /\ j + 1 < n => text'[output + 3] = Space
    BY <1>2, <1>4, <1>5 DEF Separated
  <2>4. Place(j + 1)' = output /\ HighHalf(source[j + 1])' = HighHalf(source[j + 1])
        /\ LowHalf(source[j + 1])' = LowHalf(source[j + 1])
    BY <1>1, <1>3 DEF Place, HighHalf, LowHalf
  <2> QED BY <1>1, <1>2, <2>1, <2>2, <2>3, <2>4 DEF Shown
<1>8. \A k \in 1..at' : k \in 1..j \/ k = j + 1
  BY <1>1, <1>2
<1> QED BY <1>6, <1>7, <1>8

LEMMA TripStep == PassInv /\ HexTripInv /\ [HexNext]_hexVars => HexTripInv'
<1> SUFFICES ASSUME PassInv, HexTripInv, [HexNext]_hexVars PROVE HexTripInv'
  OBVIOUS
<1> SUFFICES ASSUME made' = TRUE PROVE HexTripInv'
  <2>1. made' \in BOOLEAN
    BY PassStep DEF PassInv, HexTypeOK
  <2> QED BY <2>1 DEF HexTripInv
<1>t. HexTypeOK /\ SizeInv /\ made = TRUE /\ HexTypeOK'
  <2>1. made' = made
    BY DEF HexNext, hexVars, FormatByte, Formatted, Skip, RejectCharacter, CountDigit, RejectOdd,
           Counted, TakeHigh, PushByte, Paired, Reject
  <2> QED BY <2>1, PassStep DEF PassInv
<1>z. stage # "formatting" => Sized
  BY <1>t DEF SizeInv, HexTripInv, Sized
<1>1. CASE FormatByte
  <2>1. \A k \in 1..at' : Shown(k)'
    BY <1>1, <1>t, ShownStep
  <2>2. stage' = "formatting"
    BY <1>1 DEF FormatByte
  <2> QED BY <2>1, <2>2 DEF HexTripInv
<1>2. CASE UNCHANGED hexVars
  BY <1>2 DEF hexVars, HexTripInv, Shown, Place, HighHalf, LowHalf, SpeltTo, Odd
<1>3. CASE ~FormatByte /\ HexNext
  <2>0. UNCHANGED <<made, source, with_spaces, uppercase, text>>
    BY <1>3 DEF HexNext, Formatted, Skip, RejectCharacter, CountDigit, RejectOdd,
                Counted, TakeHigh, PushByte, Paired, Reject
  <2>1. \A k : Shown(k)' = Shown(k)
    BY <2>0 DEF Shown, Place, HighHalf, LowHalf
  <2>2. \A j : SpeltTo(j)' = SpeltTo(j)
    BY <2>0 DEF SpeltTo
  <2>3. CASE Formatted
    <3>1. stage = "formatting" /\ stage' = "counting" /\ at = Len(source) /\ at' = 0
          /\ digit_count' = digit_count
      BY <2>3 DEF Formatted
    <3>2. digit_count = 0
      BY <3>1 DEF PassInv, CountInv
    <3>3. SpeltTo(0) = 0
      BY DEF SpeltTo
    <3> QED BY <2>0, <2>1, <2>2, <3>1, <3>2, <3>3 DEF HexTripInv
  <2>s. stage # "formatting" =>
           /\ Sized /\ stage # "failed" /\ \A k \in 1..Len(source) : Shown(k)
           /\ stage = "counting" => digit_count = SpeltTo(at)
           /\ stage \in {"pairing", "done"} =>
                  /\ 2 * Len(result) + Odd = SpeltTo(at)
                  /\ Len(result) <= Len(source)
                  /\ \A k \in 1..Len(result) : result[k] = source[k]
                  /\ high >= 0 => /\ Len(result) < Len(source)
                                 /\ high = source[Len(result) + 1] \div 16
    BY <1>t, <1>z DEF HexTripInv
  <2>n. at \in Nat /\ Len(source) \in Nat /\ Len(result) \in Nat /\ high \in -1..15
        /\ source \in Seq(Octet) /\ result \in Seq(Octet) /\ uppercase \in BOOLEAN
    BY <1>t DEF HexTypeOK
  <2>f. \A m \in 0..(Len(source) - 1) :
           LET high_ == HighHalf(source[m + 1])
               low == LowHalf(source[m + 1])
               byte == source[m + 1]
           IN  /\ ~Skipped(high_) /\ digit(high_) = byte \div 16 /\ digit(high_) >= 0
               /\ ~Skipped(low) /\ digit(low) = byte % 16 /\ digit(low) >= 0
               /\ Joined(byte \div 16, byte % 16) = byte /\ byte \in Octet
    <3> SUFFICES ASSUME NEW m \in 0..(Len(source) - 1)
                 PROVE  /\ ~Skipped(HighHalf(source[m + 1]))
                        /\ digit(HighHalf(source[m + 1])) = source[m + 1] \div 16
                        /\ digit(HighHalf(source[m + 1])) >= 0
                        /\ ~Skipped(LowHalf(source[m + 1]))
                        /\ digit(LowHalf(source[m + 1])) = source[m + 1] % 16
                        /\ digit(LowHalf(source[m + 1])) >= 0
                        /\ Joined(source[m + 1] \div 16, source[m + 1] % 16) = source[m + 1]
                        /\ source[m + 1] \in Octet
      OBVIOUS
    <3>1. source[m + 1] \in Octet
      BY <2>n
    <3> QED BY <3>1, <2>n, HalvesAreDigits, DigitFacts
  <2>b. Skipped(Space) /\ Space \in Char /\ Space.kind = "space"
    BY DEF Skipped, is_space, Space, Char
  <2>4. CASE Skip
    <3>1. /\ stage \in {"counting", "pairing"} /\ at < Len(text) /\ Skipped(Current) /\ at' = at + 1
          /\ UNCHANGED <<stage, digit_count, high, result>>
      BY <2>4 DEF Skip
    <3>2. SpeltTo(at + 1) = SpeltTo(at)
      BY <3>1, <2>s, <2>f, WhatStandsThere
    <3> QED BY <2>0, <2>1, <2>2, <2>s, <3>1, <3>2 DEF HexTripInv, Odd
  <2>5. CASE RejectCharacter
    <3>1. stage = "counting" /\ at < Len(text) /\ ~Skipped(Current) /\ ~(digit(Current) >= 0)
      <4>1. stage = "counting" /\ at < Len(text) /\ ~Skipped(Current) /\ digit(Current) < 0
        BY <2>5 DEF RejectCharacter
      <4>2. Current \in Char
        BY <4>1, <1>t, NextPosition
      <4> QED BY <4>1, <4>2, DigitFacts
    <3> QED BY <3>1, <2>s, <2>f, <2>b, WhatStandsThere
  <2>6. CASE RejectOdd
    <3>1. stage = "counting" /\ at = Len(text) /\ digit_count % 2 # 0
      BY <2>6 DEF RejectOdd
    <3>2. digit_count = 2 * Len(source)
      BY <3>1, <2>s, SpeltAll
    <3>3. PICK n \in Nat : n = Len(source)
      BY <2>n
    <3>4. (2 * n) % 2 = 0
      OBVIOUS
    <3> QED BY <3>1, <3>2, <3>3, <3>4
  <2>7. CASE CountDigit
    <3>1. /\ stage = "counting" /\ at < Len(text) /\ ~Skipped(Current) /\ at' = at + 1
          /\ digit_count' = digit_count + 1 /\ stage' = stage
      BY <2>7 DEF CountDigit
    <3>2. SpeltTo(at + 1) = SpeltTo(at) + 1
      BY <3>1, <2>s, <2>b, WhatStandsThere
    <3> QED BY <2>0, <2>1, <2>2, <2>s, <3>1, <3>2 DEF HexTripInv
  <2>8. CASE Counted
    <3>1. /\ stage = "counting" /\ stage' = "pairing" /\ at' = 0 /\ result' = result /\ high' = high
      BY <2>8 DEF Counted
    <3>2. result = <<>> /\ high = -1
      BY <3>1, <1>t DEF HexTypeOK
    <3>3. SpeltTo(0) = 0
      BY DEF SpeltTo
    <3>4. 2 * Len(result') + Odd' = 0 /\ ~(high' >= 0) /\ Len(result') = 0
      BY <3>1, <3>2 DEF Odd
    <3> QED BY <2>0, <2>1, <2>2, <2>n, <2>s, <3>1, <3>3, <3>4 DEF HexTripInv
  <2>9. CASE TakeHigh
    <3>1. /\ stage = "pairing" /\ at < Len(text) /\ ~Skipped(Current) /\ at' = at + 1 /\ high < 0
          /\ high' = digit(Current) /\ UNCHANGED <<stage, result>>
      BY <2>9 DEF TakeHigh, Pairs
    <3>2. SpeltTo(at) = 2 * Len(result)
      BY <3>1, <2>n, <2>s DEF Odd
    <3>3. PICK m \in 0..(Len(source) - 1) :
            \/ Current = HighHalf(source[m + 1]) /\ SpeltTo(at) = 2 * m
                    /\ SpeltTo(at + 1) = 2 * m + 1
            \/ Current = LowHalf(source[m + 1]) /\ SpeltTo(at) = 2 * m + 1
                    /\ SpeltTo(at + 1) = 2 * m + 2
      BY <3>1, <2>s, <2>b, WhatStandsThere
    <3>4. PICK r \in Nat : r = Len(result)
      BY <2>n
    <3>5. m \in Nat /\ 2 * r # 2 * m + 1
      BY <3>4
    <3>6. /\ Current = HighHalf(source[m + 1]) /\ 2 * r = 2 * m /\ SpeltTo(at + 1) = 2 * m + 1
      BY <3>2, <3>3, <3>4, <3>5
    <3>7. r = m
      BY <3>5, <3>6
    <3>8. high' >= 0 /\ high' = source[r + 1] \div 16 /\ r < Len(source)
      BY <3>1, <3>6, <3>7, <2>f, <2>n
    <3>9. 2 * Len(result') + Odd' = SpeltTo(at')
      BY <3>1, <3>4, <3>6, <3>7, <3>8 DEF Odd
    <3> QED BY <2>0, <2>1, <2>2, <2>s, <3>1, <3>4, <3>8, <3>9 DEF HexTripInv
  <2>10. CASE PushByte
    <3>1. /\ stage = "pairing" /\ at < Len(text) /\ ~Skipped(Current) /\ at' = at + 1 /\ high >= 0
          /\ high' = -1 /\ result' = Append(result, Joined(high, digit(Current))) /\ stage' = stage
      BY <2>10 DEF PushByte, Pairs
    <3>2. SpeltTo(at) = 2 * Len(result) + 1
      BY <3>1, <2>n, <2>s DEF Odd
    <3>3. PICK m \in 0..(Len(source) - 1) :
            \/ Current = HighHalf(source[m + 1]) /\ SpeltTo(at) = 2 * m
                    /\ SpeltTo(at + 1) = 2 * m + 1
            \/ Current = LowHalf(source[m + 1]) /\ SpeltTo(at) = 2 * m + 1
                    /\ SpeltTo(at + 1) = 2 * m + 2
      BY <3>1, <2>s, <2>b, WhatStandsThere
    <3>4. PICK r \in Nat : r = Len(result)
      BY <2>n
    <3>5. m \in Nat /\ 2 * r + 1 # 2 * m
      BY <3>4
    <3>6. /\ Current = LowHalf(source[m + 1]) /\ 2 * r + 1 = 2 * m + 1 /\ SpeltTo(at + 1) = 2 * m + 2
      BY <3>2, <3>3, <3>4, <3>5
    <3>7. r = m
      BY <3>5, <3>6
    <3>8. Joined(high, digit(Current)) = source[r + 1] /\ r < Len(source)
      BY <3>1, <3>4, <3>6, <3>7, <2>f, <2>n, <2>s
    <3>9. result' = Append(result, source[r + 1]) /\ Len(result') = r + 1
      BY <3>1, <3>4, <3>8, <2>n
    <3>10. \A k \in 1..Len(result') : result'[k] = source[k]
      <4> SUFFICES ASSUME NEW k \in 1..(r + 1) PROVE result'[k] = source[k]
        BY <3>9
      <4>1. CASE k = r + 1
        BY <4>1, <3>4, <3>9, <2>n
      <4>2. CASE k \in 1..r
        BY <4>2, <3>1, <3>4, <3>9, <2>n, <2>s
      <4> QED BY <4>1, <4>2
    <3>11. 2 * Len(result') + Odd' = SpeltTo(at')
      BY <3>1, <3>6, <3>7, <3>9 DEF Odd
    <3> QED BY <2>0, <2>1, <2>2, <2>n, <2>s, <3>1, <3>8, <3>9, <3>10, <3>11 DEF HexTripInv
  <2>11. CASE Paired
    BY <2>11, <2>0, <2>1, <2>2, <2>s DEF Paired, HexTripInv, Odd
  <2> QED BY <1>3, <2>3, <2>4, <2>5, <2>6, <2>7, <2>8, <2>9, <2>10, <2>11 DEF HexNext
<1> QED BY <1>1, <1>2, <1>3

LEMMA TripHolds == PassInv /\ HexTripInv => HexRoundTrip
<1> SUFFICES ASSUME PassInv, HexTripInv, made = TRUE
             PROVE  stage # "failed" /\ (stage = "done" => result = source)
  BY DEF HexRoundTrip, PassInv, HexTypeOK
<1>1. stage # "failed"
  BY DEF HexTripInv
<1>2. ASSUME stage = "done" PROVE result = source
  <2>1. Sized
    BY <1>2 DEF PassInv, SizeInv, HexTripInv, Sized
  <2>2. 2 * Len(result) + Odd = 2 * Len(source)
    BY <1>2, <2>1, SpeltAll DEF HexTripInv
  <2>3. source \in Seq(Octet) /\ result \in Seq(Octet)
    BY DEF PassInv, HexTypeOK
  <2>4. PICK r \in Nat, n \in Nat, odd \in {0, 1} : r = Len(result) /\ n = Len(source) /\ odd = Odd
    BY <2>3 DEF Odd
  <2>5. r = n
    BY <2>2, <2>4
  <2>6. result \in [1..n -> Octet] /\ source \in [1..n -> Octet]
    <3>1. result \in [1..Len(result) -> Octet] /\ source \in [1..Len(source) -> Octet]
      BY <2>3
    <3>2. Len(result) = n /\ Len(source) = n
      BY <2>4, <2>5
    <3> QED BY <3>1, <3>2
  <2>7. \A k \in 1..n : result[k] = source[k]
    BY <1>2, <2>4, <2>5 DEF HexTripInv
  <2> QED BY <2>6, <2>7
<1> QED BY <1>1, <1>2

\* For every byte array, with spaces or without, in either case: from_hex
\* gives back what to_hex was given.
THEOREM HexRoundTripHolds ==
  HexSpec => []HexRoundTrip
<1>1. HexInit => PassInv /\ HexTripInv
  BY PassInit, TripInit, HexAssumption
<1>2. PassInv /\ HexTripInv /\ [HexNext]_hexVars => (PassInv /\ HexTripInv)'
  BY PassStep, TripStep
<1> QED BY <1>1, <1>2, TripHolds, PTL DEF HexSpec

----------------------------------------------------------------------------
(* from_hex gives the bytes that the digits spell.                         *)

\* A digit is counted at its own position.
LEMMA DigitCounts ==
  ASSUME HexTypeOK, NEW k \in 1..Len(text), text[k].kind = "digit", NEW j \in Nat, j < k
  PROVE  DigitsBefore(text, j) \in Nat /\ DigitsBefore(text, k) \in Nat
         /\ DigitsBefore(text, j) < DigitsBefore(text, k)
<1>1. PICK l \in Nat : l = k - 1 /\ l + 1 = k /\ l < Len(text) /\ j <= l
  <2>1. Len(text) \in Nat
    BY DEF HexTypeOK
  <2>2. k - 1 \in Nat
    BY <2>1
  <2> QED BY <2>1, <2>2
<1>2. DigitsBefore(text, l) \in Nat /\ DigitsBefore(text, l + 1) = DigitsBefore(text, l) + 1
  BY <1>1, DigitsCounted
<1>3. DigitsBefore(text, j) \in Nat /\ DigitsBefore(text, j) <= DigitsBefore(text, l)
  BY <1>1, DigitsGrow
<1> QED BY <1>1, <1>2, <1>3

\* So no two digits have the same number.
LEMMA DigitsDiffer ==
  ASSUME HexTypeOK, NEW j \in 1..Len(text), NEW k \in 1..Len(text),
         text[j].kind = "digit", text[k].kind = "digit",
         DigitsBefore(text, j) = DigitsBefore(text, k)
  PROVE  j = k
<1>1. Len(text) \in Nat /\ j \in Nat /\ k \in Nat
  BY DEF HexTypeOK
<1>2. ~(j < k)
  <2> SUFFICES ASSUME j < k PROVE FALSE
    OBVIOUS
  <2>1. DigitsBefore(text, j) \in Nat /\ DigitsBefore(text, j) < DigitsBefore(text, k)
    BY <1>1, DigitCounts
  <2> QED BY <2>1
<1>3. ~(k < j)
  <2> SUFFICES ASSUME k < j PROVE FALSE
    OBVIOUS
  <2>1. DigitsBefore(text, k) \in Nat /\ DigitsBefore(text, k) < DigitsBefore(text, j)
    BY <1>1, DigitCounts
  <2> QED BY <2>1
<1> QED BY <1>1, <1>2, <1>3

\* The pairs of digits in front of the second pass are the bytes it has
\* pushed, and a first half it holds is the last digit it met.
SpellInv ==
    /\ stage = "failed" => ~WellFormed
    /\ stage \in {"pairing", "done"} =>
           /\ \A j, k \in 1..at :
                 SpellByte(j, k) =>
                     result[DigitsBefore(text, k) \div 2] = 16 * text[j].v + text[k].v
           /\ high >= 0 => \E j \in 1..at :
                               /\ text[j].kind = "digit" /\ high = text[j].v
                               /\ DigitsBefore(text, j) = DigitsBefore(text, at)

LEMMA SpellInit == HexInit => SpellInv
BY DEF HexInit, SpellInv

\* What a step of the second pass may use of the digit it is at.
LEMMA AtDigit ==
  ASSUME PassInv, Pairs
  PROVE  /\ stage = "pairing" /\ at \in Nat /\ at < Len(text) /\ Len(text) \in Nat
         /\ at + 1 \in 1..Len(text) /\ Current = text[at + 1] /\ text[at + 1].kind = "digit"
         /\ text[at + 1].v \in 0..15 /\ digit(Current) = text[at + 1].v
         /\ DigitsBefore(text, at) \in Nat
         /\ DigitsBefore(text, at + 1) = DigitsBefore(text, at) + 1
<1>1. /\ stage = "pairing" /\ at < Len(text) /\ ~Skipped(Current)
      /\ HexTypeOK /\ CountInv /\ at \in Nat /\ Len(text) \in Nat
  BY DEF PassInv, Pairs, HexTypeOK
<1>2. at + 1 \in 1..Len(text)
  BY <1>1
<1>3. Current \in Char /\ Current = text[at + 1] /\ Current.kind # "other"
  BY <1>1, <1>2, NextPosition DEF CountInv
<1>4. Current.kind = "digit" /\ digit(Current) = Current.v /\ Current.v \in 0..15
  BY <1>1, <1>3, DigitFacts
<1> QED BY <1>1, <1>2, <1>3, <1>4, NextPosition

\* A digit more makes no pair with the first half of itself.
LEMMA NewPairs ==
  ASSUME PassInv, Pairs, NEW j \in 1..(at + 1), NEW k \in 1..(at + 1), SpellByte(j, k)
  PROVE  j \in 1..at /\ (k \in 1..at \/ k = at + 1)
         /\ (k = at + 1 => DigitsBefore(text, j) = DigitsBefore(text, at))
<1>1. /\ at \in Nat /\ at + 1 \in 1..Len(text) /\ at < Len(text) /\ Len(text) \in Nat
      /\ DigitsBefore(text, at) \in Nat
      /\ DigitsBefore(text, at + 1) = DigitsBefore(text, at) + 1 /\ HexTypeOK
  BY AtDigit DEF PassInv
<1>2. /\ text[j].kind = "digit" /\ text[k].kind = "digit"
      /\ DigitsBefore(text, k) = DigitsBefore(text, j) + 1
  BY DEF SpellByte
<1>3. j \in Nat /\ k \in Nat /\ j <= at + 1 /\ k <= at + 1
  BY <1>1
<1>4. DigitsBefore(text, j) \in Nat /\ DigitsBefore(text, k) \in Nat
      /\ DigitsBefore(text, k) <= DigitsBefore(text, at + 1)
  BY <1>1, <1>3, DigitsGrow
<1>5. j # at + 1
  <2> SUFFICES ASSUME j = at + 1 PROVE FALSE
    OBVIOUS
  <2>1. DigitsBefore(text, j) = DigitsBefore(text, at + 1)
    OBVIOUS
  <2> QED BY <1>1, <1>2, <1>4, <2>1
<1>6. k = at + 1 => DigitsBefore(text, j) = DigitsBefore(text, at)
  <2> SUFFICES ASSUME k = at + 1 PROVE DigitsBefore(text, j) = DigitsBefore(text, at)
    OBVIOUS
  <2>1. DigitsBefore(text, k) = DigitsBefore(text, at) + 1
    BY <1>1
  <2> QED BY <1>1, <1>2, <1>4, <2>1
<1> QED BY <1>1, <1>3, <1>5, <1>6

LEMMA SpellStep == PassInv /\ SpellInv /\ [HexNext]_hexVars => SpellInv'
<1> SUFFICES ASSUME PassInv, SpellInv, [HexNext]_hexVars PROVE SpellInv'
  OBVIOUS
<1>t. HexTypeOK /\ SizeInv /\ CountInv
  BY DEF PassInv
<1>1. CASE FormatByte
  BY <1>1 DEF FormatByte, SpellInv
<1>2. CASE Formatted
  BY <1>2 DEF Formatted, SpellInv
<1>3. CASE Skip
  <2>1. /\ stage \in {"counting", "pairing"} /\ at < Len(text) /\ Skipped(Current) /\ at' = at + 1
        /\ UNCHANGED <<text, stage, high, result>>
    BY <1>3 DEF Skip
  <2>2. /\ Current.kind # "digit" /\ Current = text[at + 1] /\ at \in Nat
        /\ DigitsBefore(text, at + 1) = DigitsBefore(text, at)
    <3>1. Current \in Char /\ Current = text[at + 1] /\ at \in Nat
      BY <2>1, <1>t, NextPosition DEF HexTypeOK
    <3>2. Current.kind # "digit"
      BY <2>1, <3>1, DigitFacts
    <3> QED BY <2>1, <3>1, <3>2, <1>t, NextPosition
  <2>3. ASSUME stage = "pairing", NEW j \in 1..(at + 1), NEW k \in 1..(at + 1), SpellByte(j, k)
        PROVE  result[DigitsBefore(text, k) \div 2] = 16 * text[j].v + text[k].v
    <3>1. j \in 1..at /\ k \in 1..at
      BY <2>2, <2>3 DEF SpellByte
    <3> QED BY <2>3, <3>1 DEF SpellInv
  <2>4. stage = "pairing" /\ high >= 0 =>
           \E j \in 1..(at + 1) : /\ text[j].kind = "digit" /\ high = text[j].v
                                  /\ DigitsBefore(text, j) = DigitsBefore(text, at + 1)
    BY <2>2 DEF SpellInv
  <2> QED BY <2>1, <2>3, <2>4 DEF SpellInv, SpellByte
<1>4. CASE RejectCharacter
  <2>1. /\ stage = "counting" /\ at < Len(text) /\ ~Skipped(Current) /\ digit(Current) < 0
        /\ stage' = "failed" /\ text' = text
    BY <1>4 DEF RejectCharacter, Reject
  <2>2. Current \in Char /\ Current = text[at + 1]
    BY <2>1, <1>t, NextPosition
  <2>3. Current.kind = "other"
    <3>1. digit(Current) \in -1..15
      BY <2>2, DigitFacts
    <3>2. ~(digit(Current) >= 0)
      BY <2>1, <3>1
    <3> QED BY <2>1, <2>2, <3>2, DigitFacts
  <2>4. at + 1 \in 1..Len(text)
    BY <2>1, <1>t DEF HexTypeOK
  <2>5. ~WellFormed
    BY <2>2, <2>3, <2>4 DEF WellFormed
  <2> QED BY <2>1, <2>5 DEF SpellInv, WellFormed
<1>5. CASE RejectOdd
  <2>1. stage = "counting" /\ at = Len(text) /\ digit_count % 2 # 0 /\ stage' = "failed" /\ text' = text
    BY <1>5 DEF RejectOdd, Reject
  <2>2. DigitsBefore(text, Len(text)) = digit_count
    BY <2>1, <1>t DEF CountInv
  <2>3. ~WellFormed
    BY <2>1, <2>2 DEF WellFormed
  <2> QED BY <2>1, <2>3 DEF SpellInv, WellFormed
<1>6. CASE CountDigit
  BY <1>6 DEF CountDigit, SpellInv
<1>7. CASE Counted
  <2>1. stage = "counting" /\ stage' = "pairing" /\ at' = 0 /\ high' = high
    BY <1>7 DEF Counted
  <2>2. high = -1
    BY <2>1, <1>t DEF HexTypeOK
  <2> QED BY <2>1, <2>2 DEF SpellInv
<1>8. CASE TakeHigh
  <2>1. /\ Pairs /\ high < 0 /\ high' = digit(Current) /\ at' = at + 1
        /\ UNCHANGED <<text, stage, result>>
    BY <1>8 DEF TakeHigh
  <2>2. /\ stage = "pairing" /\ at \in Nat /\ text[at + 1].kind = "digit"
        /\ digit(Current) = text[at + 1].v
    BY <2>1, AtDigit
  <2>3. DigitsBefore(text, at) = 2 * Len(result) /\ Len(result) \in Nat
    BY <2>1, <2>2, <1>t DEF CountInv, Odd, HexTypeOK
  <2>4. ASSUME NEW j \in 1..(at + 1), NEW k \in 1..(at + 1), SpellByte(j, k)
        PROVE  result[DigitsBefore(text, k) \div 2] = 16 * text[j].v + text[k].v
    <3>1. j \in 1..at /\ (k \in 1..at \/ k = at + 1)
          /\ (k = at + 1 => DigitsBefore(text, j) = DigitsBefore(text, at))
      BY <2>1, <2>4, NewPairs
    <3>2. k # at + 1
      <4> SUFFICES ASSUME k = at + 1 PROVE FALSE
        OBVIOUS
      <4>1. PICK r \in Nat : r = Len(result)
        BY <2>3
      <4>2. DigitsBefore(text, j) = 2 * r
        BY <2>3, <3>1, <4>1
      <4>3. (2 * r) % 2 = 0
        OBVIOUS
      <4> QED BY <2>4, <4>2, <4>3 DEF SpellByte
    <3> QED BY <2>2, <2>4, <3>1, <3>2 DEF SpellInv
  <2>5. \E j \in 1..(at + 1) : /\ text[j].kind = "digit" /\ high' = text[j].v
                               /\ DigitsBefore(text, j) = DigitsBefore(text, at + 1)
    <3>1. at + 1 \in 1..(at + 1)
      BY <2>2
    <3> QED BY <2>1, <2>2, <3>1
  <2> QED BY <2>1, <2>2, <2>4, <2>5 DEF SpellInv, SpellByte
<1>9. CASE PushByte
  <2>1. /\ Pairs /\ high >= 0 /\ high' = -1 /\ at' = at + 1
        /\ result' = Append(result, Joined(high, digit(Current)))
        /\ UNCHANGED <<text, stage>>
    BY <1>9 DEF PushByte
  <2>2. /\ stage = "pairing" /\ at \in Nat /\ at < Len(text) /\ Len(text) \in Nat
        /\ text[at + 1].kind = "digit" /\ text[at + 1].v \in 0..15
        /\ digit(Current) = text[at + 1].v
        /\ DigitsBefore(text, at + 1) = DigitsBefore(text, at) + 1
    BY <2>1, AtDigit
  <2>3. PICK r \in Nat : r = Len(result) /\ DigitsBefore(text, at) = 2 * r + 1
    BY <2>1, <2>2, <1>t DEF CountInv, Odd, HexTypeOK
  <2>4. PICK h \in 1..at : /\ text[h].kind = "digit" /\ high = text[h].v
                           /\ DigitsBefore(text, h) = DigitsBefore(text, at)
    BY <2>1, <2>2 DEF SpellInv
  <2>5. Joined(high, digit(Current)) = 16 * text[h].v + text[at + 1].v
    <3>1. high \in 0..15
      BY <2>1, <1>t DEF HexTypeOK
    <3>2. PICK x \in 0..15, y \in 0..15 : x = high /\ y = digit(Current)
      BY <2>2, <3>1
    <3>3. (x * 16 + y) % 256 = 16 * x + y
      OBVIOUS
    <3> QED BY <2>2, <2>4, <3>2, <3>3 DEF Joined
  <2>6. Len(result') = r + 1 /\ result'[r + 1] = Joined(high, digit(Current))
        /\ \A m \in 1..r : result'[m] = result[m]
    <3>1. result \in Seq(Octet)
      BY <1>t DEF HexTypeOK
    <3> QED BY <2>1, <2>3, <3>1
  <2>7. ASSUME NEW j \in 1..(at + 1), NEW k \in 1..(at + 1), SpellByte(j, k)
        PROVE  result'[DigitsBefore(text, k) \div 2] = 16 * text[j].v + text[k].v
    <3>1. j \in 1..at /\ (k \in 1..at \/ k = at + 1)
          /\ (k = at + 1 => DigitsBefore(text, j) = DigitsBefore(text, at))
      BY <2>1, <2>7, NewPairs
    <3>2. CASE k = at + 1
      <4>1. j = h
        BY <2>2, <2>4, <2>7, <3>1, <3>2, <1>t, DigitsDiffer DEF SpellByte
      <4>2. DigitsBefore(text, k) = 2 * (r + 1)
        BY <2>2, <2>3, <3>2
      <4>3. (2 * (r + 1)) \div 2 = r + 1
        OBVIOUS
      <4> QED BY <2>5, <2>6, <3>2, <4>1, <4>2, <4>3
    <3>3. CASE k \in 1..at
      <4>1. result[DigitsBefore(text, k) \div 2] = 16 * text[j].v + text[k].v
        BY <2>2, <2>7, <3>1, <3>3 DEF SpellInv
      <4>2. PICK x \in Nat, y \in Nat :
                x = DigitsBefore(text, j) /\ y = DigitsBefore(text, k) /\ y <= 2 * r + 1
        <5>1. j \in Nat /\ k \in Nat /\ j <= at /\ k <= at
          BY <2>2, <3>1, <3>3
        <5> QED BY <2>2, <2>3, <5>1, DigitsGrow
      <4>3. x % 2 = 1 /\ y = x + 1
        BY <2>7, <4>2 DEF SpellByte
      <4>4. y \div 2 \in 1..r
        BY <4>2, <4>3
      <4> QED BY <2>6, <4>1, <4>2, <4>4
    <3> QED BY <3>1, <3>2, <3>3
  <2>8. /\ stage' = "pairing" /\ text' = text /\ at' = at + 1 /\ ~(high' >= 0)
        /\ \A j, k : SpellByte(j, k)' <=> SpellByte(j, k)
    BY <2>1, <2>2 DEF SpellByte
  <2>9. \A j, k \in 1..(at + 1) :
           SpellByte(j, k) => result'[DigitsBefore(text, k) \div 2] = 16 * text[j].v + text[k].v
    BY <2>7
  <2> QED BY <2>8, <2>9 DEF SpellInv
<1>10. CASE Paired
  BY <1>10 DEF Paired, SpellInv, SpellByte
<1>11. CASE UNCHANGED hexVars
  BY <1>11 DEF hexVars, SpellInv, SpellByte, WellFormed
<1> QED BY <1>1, <1>2, <1>3, <1>4, <1>5, <1>6, <1>7, <1>8, <1>9, <1>10, <1>11 DEF HexNext

\* For every text: from_hex fails on exactly those that are not an even
\* number of digits and white space, and gives the bytes the others spell.
THEOREM DecodesExactlyHolds ==
  HexSpec => []DecodesExactly
<1>1. HexInit => PassInv /\ SpellInv
  BY PassInit, SpellInit, HexAssumption
<1>2. PassInv /\ SpellInv /\ [HexNext]_hexVars => (PassInv /\ SpellInv)'
  BY PassStep, SpellStep
<1>3. PassInv /\ SpellInv => DecodesExactly
  <2> SUFFICES ASSUME PassInv, SpellInv PROVE DecodesExactly
    OBVIOUS
  <2>1. stage = "failed" => ~WellFormed
    BY DEF SpellInv
  <2>2. ASSUME stage = "done"
        PROVE  /\ WellFormed /\ 2 * Len(result) = DigitsBefore(text, Len(text))
               /\ \A j, k \in 1..Len(text) :
                     SpellByte(j, k) =>
                         result[DigitsBefore(text, k) \div 2] = 16 * text[j].v + text[k].v
    <3>1. /\ at = Len(text) /\ DigitsBefore(text, Len(text)) % 2 = 0
          /\ 2 * Len(result) + Odd = DigitsBefore(text, at)
          /\ \A j \in 1..Len(text) : text[j].kind # "other"
          /\ text \in Seq(Char) /\ Len(result) \in Nat
      BY <2>2 DEF PassInv, HexTypeOK, CountInv
    <3>2. \A k \in 1..Len(text) : text[k].kind \in {"digit", "space"}
      <4> SUFFICES ASSUME NEW k \in 1..Len(text) PROVE text[k].kind \in {"digit", "space"}
        OBVIOUS
      <4>1. text[k] \in Char
        BY <3>1
      <4> QED BY <3>1, <4>1, DigitFacts
    <3>3. PICK r \in Nat, odd \in {0, 1} : r = Len(result) /\ odd = Odd
      BY <3>1 DEF Odd
    <3>4. (2 * r + odd) % 2 = 0
      BY <3>1, <3>3
    <3>5. odd = 0
      BY <3>4
    <3> QED BY <2>2, <3>1, <3>2, <3>3, <3>5 DEF SpellInv, WellFormed
  <2> QED BY <2>1, <2>2 DEF DecodesExactly
<1> QED BY <1>1, <1>2, <1>3, PTL DEF HexSpec

----------------------------------------------------------------------------
(* The loops end.                                                          *)

\* The rounds there still are, at most: of to_hex, of the pass that counts
\* and of the pass that pairs.
RoundsLeft ==
    CASE stage = "formatting" -> (Len(source) - at) + 2 * Len(text) + 3
      [] stage = "counting" -> (Len(text) - at) + Len(text) + 2
      [] stage = "pairing" -> (Len(text) - at) + 1
      [] OTHER -> 0

Fewer == RoundsLeft \in Nat /\ RoundsLeft' \in Nat /\ RoundsLeft' < RoundsLeft

LEMMA RoundsFewer ==
  ASSUME HexTypeOK, HexNext
  PROVE  Fewer
<1> SUFFICES RoundsLeft \in Nat /\ RoundsLeft' \in Nat /\ RoundsLeft' < RoundsLeft
  BY DEF Fewer
<1>1. /\ Len(source) \in Nat /\ Len(text) \in Nat /\ at \in Nat
      /\ stage \in {"formatting", "counting", "pairing", "done", "failed"}
      /\ IF stage = "formatting" THEN at <= Len(source) ELSE at <= Len(text)
  BY DEF HexTypeOK
<1>2. RoundsLeft \in Nat
  BY <1>1 DEF RoundsLeft
<1>3. CASE FormatByte
  <2>1. /\ stage = "formatting" /\ at < Len(source) /\ at' = at + 1
        /\ UNCHANGED <<source, stage>> /\ text' = [k \in DOMAIN text |-> text'[k]]
    BY <1>3 DEF FormatByte
  <2>2. Len(text') = Len(text)
    <3>1. DOMAIN text' = 1..Len(text) /\ HexTypeOK'
      BY <2>1, <1>3, StepType DEF HexTypeOK
    <3>2. Len(text') \in Nat /\ DOMAIN text' = 1..Len(text')
      BY <3>1 DEF HexTypeOK
    <3>3. PICK x \in Nat, y \in Nat : x = Len(text) /\ y = Len(text') /\ 1..x = 1..y
      BY <1>1, <3>1, <3>2
    <3>4. x = y
      <4>1. x \in 1..x \/ x = 0
        OBVIOUS
      <4>2. y \in 1..y \/ y = 0
        OBVIOUS
      <4> QED BY <3>3, <4>1, <4>2
    <3> QED BY <3>3, <3>4
  <2>3. PICK s \in Nat, t \in Nat, k \in Nat : s = Len(source) /\ t = Len(text) /\ k = at /\ k < s
    BY <1>1, <2>1
  <2>4. RoundsLeft = (s - k) + 2 * t + 3 /\ RoundsLeft' = (s - (k + 1)) + 2 * t + 3
    BY <2>1, <2>2, <2>3 DEF RoundsLeft
  <2> QED BY <2>3, <2>4
<1>4. CASE Formatted
  <2>1. stage = "formatting" /\ at = Len(source) /\ stage' = "counting" /\ at' = 0 /\ text' = text
    BY <1>4 DEF Formatted
  <2>2. PICK t \in Nat : t = Len(text)
    BY <1>1
  <2>3. RoundsLeft = 2 * t + 3 /\ RoundsLeft' = t + t + 2
    BY <1>1, <2>1, <2>2 DEF RoundsLeft
  <2> QED BY <2>2, <2>3
<1>5. CASE Skip \/ CountDigit \/ TakeHigh \/ PushByte
  <2>1. /\ stage \in {"counting", "pairing"} /\ at < Len(text) /\ at' = at + 1
        /\ UNCHANGED <<text, stage>>
    BY <1>5 DEF Skip, CountDigit, TakeHigh, PushByte, Pairs
  <2>2. PICK t \in Nat, k \in Nat : t = Len(text) /\ k = at /\ k < t
    BY <1>1, <2>1
  <2>3. CASE stage = "counting"
    <3>1. RoundsLeft = (t - k) + t + 2 /\ RoundsLeft' = (t - (k + 1)) + t + 2
      BY <2>1, <2>2, <2>3 DEF RoundsLeft
    <3> QED BY <2>2, <3>1
  <2>4. CASE stage = "pairing"
    <3>1. RoundsLeft = (t - k) + 1 /\ RoundsLeft' = (t - (k + 1)) + 1
      BY <2>1, <2>2, <2>4 DEF RoundsLeft
    <3> QED BY <2>2, <3>1
  <2> QED BY <2>1, <2>3, <2>4
<1>6. CASE RejectCharacter \/ RejectOdd \/ Paired
  <2>1. stage \in {"counting", "pairing"} /\ stage' \in {"done", "failed"}
    BY <1>6 DEF RejectCharacter, RejectOdd, Reject, Paired
  <2>2. RoundsLeft' = 0
    BY <2>1 DEF RoundsLeft
  <2>3. RoundsLeft > 0
    BY <1>1, <2>1 DEF RoundsLeft
  <2> QED BY <1>2, <2>2, <2>3
<1>7. CASE Counted
  <2>1. stage = "counting" /\ at = Len(text) /\ stage' = "pairing" /\ at' = 0 /\ text' = text
    BY <1>7 DEF Counted
  <2>2. PICK t \in Nat : t = Len(text)
    BY <1>1
  <2>3. RoundsLeft = t + 2 /\ RoundsLeft' = t + 1
    BY <1>1, <2>1, <2>2 DEF RoundsLeft
  <2> QED BY <2>2, <2>3
<1> QED BY <1>3, <1>4, <1>5, <1>6, <1>7 DEF HexNext

\* to_hex and from_hex go on for no longer than their arguments are: every
\* round leaves fewer of them.  With the fairness of HexSpec this is that they
\* return.
THEOREM HexLoopsEnd ==
  HexSpec => [][Fewer]_hexVars
<1>1. HexInit => HexTypeOK
  BY InitType, HexAssumption
<1>2. HexTypeOK /\ [HexNext]_hexVars => HexTypeOK'
  BY StepType
<1>3. HexTypeOK /\ [HexNext]_hexVars => [Fewer]_hexVars
  BY RoundsFewer
<1> QED BY <1>1, <1>2, <1>3, PTL DEF HexSpec

=============================================================================
