----------------------------- MODULE ScheduleTime -----------------------------
(***************************************************************************)
(* The time arithmetic of lib/scheduler/scheduler.cpp: how long the        *)
(* scheduler thread waits for the next configured hour:minute:second.      *)
(*                                                                         *)
(* A schedule is a record of three sequences.  A moment is a number of     *)
(* seconds since a midnight and the milliseconds of tv_usec; a tm is a     *)
(* record that mktime normalises.  The sizes of the clock are parameters,  *)
(* so that a small clock can be checked with every schedule it has.  No    *)
(* time zone, no change to daylight saving time.                           *)
(***************************************************************************)
EXTENDS Integers, Sequences, FiniteSetsExt

CONSTANTS HoursPerDay, MinutesPerHour, SecondsPerMinute

ASSUME ClockAssumption == {HoursPerDay, MinutesPerHour, SecondsPerMinute} \subseteq Nat \ {0, 1}

SecondsPerHour == MinutesPerHour * SecondsPerMinute
SecondsPerDay == HoursPerDay * SecondsPerHour
Elements(v) == {v[i] : i \in DOMAIN v}

Mktime(tm) ==
    tm.day * SecondsPerDay + tm.hour * SecondsPerHour + tm.min * SecondsPerMinute + tm.sec

Localtime(t) ==
    [day  |-> t \div SecondsPerDay,
     hour |-> (t % SecondsPerDay) \div SecondsPerHour,
     min  |-> (t % SecondsPerHour) \div SecondsPerMinute,
     sec  |-> t % SecondsPerMinute]
-----------------------------------------------------------------------------
(* getMaxWaitTime: the longest gap of the first list that has one above 1   *)

MaxGap(v, biggest) ==
    IF v = <<>> THEN -1
    ELSE IF Len(v) = 1 THEN biggest
    ELSE Max({v[i + 1] - v[i] : i \in 1 .. Len(v) - 1} \cup {v[1] + biggest - v[Len(v)], 0})

MaxWaitTime(s) ==
    LET h == MaxGap(s.hour, HoursPerDay)
        m == MaxGap(s.minute, MinutesPerHour)
        x == MaxGap(s.second, SecondsPerMinute)
    IN  CASE h > 1 -> h * SecondsPerHour * 1000
          [] h <= 1 /\ m > 1 /\ h # -1 -> m * SecondsPerMinute * 1000
          [] h = -1 \/ (h <= 1 /\ m = -1) -> -1
          [] OTHER -> IF x = -1 THEN -1 ELSE x * 1000
-----------------------------------------------------------------------------
(* getNextTime: the first entry from current on, max when there is none     *)

NextTime(v, current, max) ==
    LET later == {e \in Elements(v) : current <= e /\ e <= max}
    IN  IF later = {} THEN max ELSE Min(later)

(* getMilliSecondsToNextRun, step by step.  A state of the calculation is   *)
(* the tm it builds, the tm of the last run of the day and the milliseconds *)
(* of the current second that it will subtract.                             *)

Passed(last, now, ms) == Mktime(last) < now \/ (ms >= 1 /\ Mktime(last) = now)

FirstOfDay(s, now, ms) ==
    LET tm == Localtime(now)
    IN  [tm |-> tm, cm |-> ms,
         last |-> [day |-> tm.day, hour |-> s.hour[Len(s.hour)],
                   min |-> s.minute[Len(s.minute)], sec |-> s.second[Len(s.second)]]]

SwitchDay(c, now, ms) ==
    IF Passed(c.last, now, ms)
    THEN [tm |-> [day |-> c.tm.day + 1, hour |-> 0, min |-> 0, sec |-> 0], cm |-> 0,
          last |-> [c.last EXCEPT !.day = c.tm.day + 1]]
    ELSE c

SetHour(c, s) == [c EXCEPT !.tm.hour = NextTime(s.hour, @, HoursPerDay)]

\* After the last second of the list the next minute begins.
NoMinuteCarry(c) == c                          \* mutant
MinuteCarry(c) ==
    IF c.tm.sec > c.last.sec
    THEN [tm |-> [day |-> c.tm.day, hour |-> c.tm.hour, min |-> c.tm.min + 1, sec |-> 0],
          cm |-> 0, last |-> c.last]
    ELSE c

ClearMinute(c, now, ms) ==
    IF Passed(c.last, now, ms)
    THEN [c EXCEPT !.tm.min = 0, !.last.min = 0, !.tm.sec = 0, !.cm = 0]
    ELSE c

SetMinute(c, s, now, ms) ==
    LET d == [c EXCEPT !.tm.min = NextTime(s.minute, @, MinutesPerHour)]
    IN  IF Passed(d.last, now, ms) \/ d.tm.min = MinutesPerHour
        THEN [tm |-> [day |-> d.tm.day, hour |-> d.tm.hour + 1, min |-> s.minute[1], sec |-> 0],
              cm |-> 0, last |-> [d.last EXCEPT !.sec = 0]]
        ELSE d

\* The last day's run is compared with the time of it that mktime computed before the
\* seconds of last were cleared.
SetSecond(c, s, lastT, now, ms) ==
    [tm |-> [c.tm EXCEPT !.sec = NextTime(s.second, @, SecondsPerMinute)],
     cm |-> IF ms >= 1 /\ lastT = now THEN 0 ELSE c.cm]

NotNow(wait, limit) == 0 < wait /\ wait < limit \* mutant: no run in this second
Within(wait, limit) == 0 <= wait /\ wait < limit

\* What the calculation took, as the code has it: the difference of two tv_usec, which is
\* negative when the second changed in between.
ConsumedTime(ms, took) == IF ms + took < 1000 THEN took ELSE took - 1000

MilliSecondsToNextRun(s, now, ms, took) ==
    IF \E v \in {s.hour, s.minute, s.second} : v = <<>> THEN -1
    ELSE LET day  == SwitchDay(FirstOfDay(s, now, ms), now, ms)
             hour == ClearMinute(MinuteCarry(SetHour(day, s)), now, ms)
             min  == SetMinute(hour, s, now, ms)
             end  == SetSecond(min, s, Mktime(hour.last), now, ms)
             gap  == (Mktime(end.tm) - now) * 1000 - ConsumedTime(ms, took)
             wait == IF gap > end.cm THEN gap - end.cm ELSE 0
         IN  IF Within(wait, MaxWaitTime(s)) THEN wait ELSE -1
-----------------------------------------------------------------------------
(* The reference: the seconds a schedule names, and the first from now on   *)

Scheduled(s, t) ==
    LET tm == Localtime(t)
    IN  /\ tm.hour \in Elements(s.hour)
        /\ tm.min \in Elements(s.minute)
        /\ tm.sec \in Elements(s.second)

FirstScheduled(s, now) == Min({t \in now .. now + SecondsPerDay : Scheduled(s, t)})
LastOfDay(s, now) == Max({t \in 0 .. SecondsPerDay - 1 : Scheduled(s, t)}) = now % SecondsPerDay

\* Every hour, and every minute or one second only: what the calculation is right for.
Regular(s) ==
    /\ Elements(s.hour) = 0 .. HoursPerDay - 1
    /\ Elements(s.minute) = 0 .. MinutesPerHour - 1 \/ Len(s.second) = 1
=============================================================================
