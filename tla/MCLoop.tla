------------------------------- MODULE MCLoop -------------------------------
(* Every regular schedule of a small clock, its lists ascending as the web page *)
(* writes them, started in any second, at its first or its last millisecond.    *)
EXTENDS ScheduleLoop, ScheduleText

Ascending(S) == SetToSortSeq(S, <)
Lists(n) == {Ascending(S) : S \in (SUBSET (0 .. n - 1)) \ {{}}}
MCSchedules ==
    {s \in [hour : {Ascending(0 .. HoursPerDay - 1)}, minute : Lists(MinutesPerHour),
            second : Lists(SecondsPerMinute)] : Regular(s)}
MCStarts == {1000 * t + m : t \in 0 .. SecondsPerDay - 1, m \in {0, 999}}

\* A clock that was a bit off, and one that was never set.
MCShifts == {-1300, 300, 17000}

(* A list of the schedule that is opened in the page and saved unchanged     *)
(* (pulse.js:335, 50) comes back as it was exactly when it is full or no run *)
(* of consecutive numbers is followed by another number: then the end of the *)
(* run is lost with its comma, and the thread gets other seconds to run in.  *)
ResaveKeeps ==
    \A field \in {<<schedule.minute, MinutesPerHour>>, <<schedule.second, SecondsPerMinute>>} :
        LET a == field[1]
        IN  Resaved(a, field[2]) = a <=> Len(a) = field[2] \/ ~RunBeforeOther(a)
=============================================================================
