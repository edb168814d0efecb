------------------------------- MODULE MCQuarter -------------------------------
(* The README's example: every 15 minutes, started at half past eleven in the evening. *)
EXTENDS ScheduleLoop

MCSchedules ==
    {[hour |-> [i \in 1 .. 24 |-> i - 1], minute |-> <<0, 15, 30, 45>>, second |-> <<0>>]}
MCStarts == {23 * 3600000 + 30 * 60000}
=============================================================================
