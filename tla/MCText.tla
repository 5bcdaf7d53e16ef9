------------------------------- MODULE MCText -------------------------------
(* The two algorithms on text and frames, each on its own inputs: a        *)
(* behaviour is one of Escape, with no hexadecimal text, or one of Hex,    *)
(* with no frame.  Escape: every table of at most two rules with sequences *)
(* of at most two bytes.  Hex: every text of at most five characters.      *)
EXTENDS Escape, Hex

MCSequences == BoundedSeq(Byte, 2)
MCSources == BoundedSeq({0, 26, 255}, 3)
MCTexts == BoundedSeq({Digit(1, FALSE), Digit(15, TRUE), Space, Other}, 5)

NoFrame ==
    /\ rules = <<>> /\ header = 0 /\ tail = 0 /\ sent = <<>> /\ frame = <<>>
    /\ mode = "ended" /\ i = 0 /\ out = <<>>

NoText ==
    /\ made = FALSE /\ source = <<>> /\ with_spaces = FALSE /\ uppercase = FALSE
    /\ text = <<>> /\ stage = "done" /\ at = 0 /\ output = 0 /\ digit_count = 0
    /\ high = -1 /\ result = <<>> /\ room = 0

MCInit == \/ Init /\ NoText
          \/ HexInit /\ NoFrame

MCNext == \/ Next /\ UNCHANGED hexVars
          \/ HexNext /\ UNCHANGED vars

\* The fairness of both: one of them has nothing to do.
MCSpec == MCInit /\ [][MCNext]_<<vars, hexVars>> /\ WF_<<vars, hexVars>>(MCNext)

\* Whatever the frame, the table or the text, the functions return.
EveryCallReturns == Terminates /\ HexTerminates
=============================================================================
