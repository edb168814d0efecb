---------------------------- MODULE ScheduleText ----------------------------
(***************************************************************************)
(* The conversions of lib/common/html/pulse.js between a list of the       *)
(* schedule and the text of its input field.  Opening the page writes the  *)
(* text, saving it reads it back, so both together are applied to every    *)
(* schedule the user does not touch.                                       *)
(*                                                                         *)
(* A text is "*", or the numbers between its commas and, inside of such a  *)
(* part, between its dashes: "12,50-53" is <<<<12>>, <<50, 53>>>>.         *)
(***************************************************************************)
EXTENDS Integers, SequencesExt

Star == [star |-> TRUE, parts |-> <<>>]
Parts(p) == [star |-> FALSE, parts |-> p]

(* buildScheduleString: the first number of a run is written before it is   *)
(* known to be one, and a dash without its end waits for the next number    *)
(* that is written, which is the last of the list or one that follows none. *)
Joined(parts, n) == Append(Front(parts), Append(Last(parts), n))
Written(parts, n, afterDash) == IF afterDash THEN Joined(parts, n) ELSE Append(parts, <<n>>)

Follows(a, i) == i > 1 /\ a[i] = a[i - 1] + 1

BuildScheduleString(a, max) ==
    LET after[i \in 0 .. Len(a)] ==
            IF i = 0 THEN <<>>
            ELSE IF Follows(a, i) /\ i < Len(a) THEN after[i - 1]
            ELSE Written(after[i - 1], a[i], Follows(a, i) \/ Follows(a, i - 1))
    IN  IF Len(a) = max THEN Star ELSE Parts(after[Len(a)])

\* Bug: a range is read without its last number.
RangeOpen(part) ==
    IF Len(part) = 2 THEN [i \in 1 .. part[2] - part[1] |-> part[1] + i - 1]
    ELSE <<Head(part)>>

(* buildTimeArray: a part of two numbers is a range, of any other only the  *)
(* first number is read.                                                    *)
Numbers(part) ==
    IF Len(part) = 2 THEN [i \in 1 .. part[2] - part[1] + 1 |-> part[1] + i - 1]
    ELSE <<Head(part)>>

BuildTimeArray(text, max) ==
    IF text.star THEN [i \in 1 .. max |-> i - 1]
    ELSE FlattenSeq([k \in DOMAIN text.parts |-> Numbers(text.parts[k])])
-----------------------------------------------------------------------------
\* An ascending list of a field with max values, opened and saved again.
Resaved(a, max) == BuildTimeArray(BuildScheduleString(a, max), max)

\* A run of consecutive numbers that another number follows.
RunBeforeOther(a) ==
    \E i, j \in DOMAIN a : i < j /\ Follows(a, i) /\ ~Follows(a, j)
=============================================================================
