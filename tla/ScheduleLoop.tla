------------------------------ MODULE ScheduleLoop ------------------------------
(***************************************************************************)
(* The days of the scheduler thread: executeLocal of                       *)
(* lib/scheduler/scheduler.cpp asks for the next run, waits, executes and  *)
(* asks again.  Nobody stops it here (see SchedulerThread).  NTP may set    *)
(* the clock during a wait, whose duration stays, and a wait may end for   *)
(* no reason: wait_for has no predicate.  Time is in milliseconds.         *)
(***************************************************************************)
EXTENDS ScheduleTime

CONSTANTS
    Schedules,      \* the schedules that may be configured
    Starts,         \* when the thread may be started
    Took,           \* milliseconds a calculation may take
    Late,           \* milliseconds by which the wait may return late
    RunMillis,      \* milliseconds execute may take (publish sleeps 400)
    Shifts,         \* milliseconds by which NTP may move the clock
    Waited,         \* milliseconds after which a wait may end for no reason
    MaxDisturbed,   \* bound: waits that are disturbed
    MaxDays         \* bound: days followed

VARIABLES
    schedule,       \* the configured one
    time,           \* the wall clock
    pc,             \* "ask", "wait", "execute" or "stopped"
    lastRun,        \* the second of the moment before the last wait
    asked,          \* the second the thread asked for: becomes lastRun
    wakeAt,         \* when the wait ends
    due,            \* history: the scheduled second that is to run next
    upset,          \* history: 2 after the clock was set, a wait cut short or a
                    \* calculation that lasted into the next second, one less with every run
    disturbances    \* how often that happened
vars == <<schedule, time, pc, lastRun, asked, wakeAt, due, upset, disturbances>>

\* A list that the calculation is made for: ascending and not empty.  (The page writes the
\* numbers in the order in which they were typed, and nobody checks it.)
Listed(v, max) ==
    /\ v \in Seq(0 .. max - 1) /\ v # <<>>
    /\ \A i, j \in DOMAIN v : i < j => v[i] < v[j]

ASSUME ScheduleAssumption ==
    /\ \A s \in Schedules :
          /\ s \in [hour : Seq(Nat), minute : Seq(Nat), second : Seq(Nat)]
          /\ Listed(s.hour, HoursPerDay)
          /\ Listed(s.minute, MinutesPerHour)
          /\ Listed(s.second, SecondsPerMinute)
    /\ UNION {Starts, Took, Late, RunMillis, Waited} \subseteq Nat
    /\ Shifts \subseteq Int

Second(t) == t \div 1000
Milli(t) == t % 1000

\* lastRun is static: a thread that is started again in the second of its predecessor's
\* last run may find that second there.
Init ==
    /\ schedule \in Schedules
    /\ time \in Starts
    /\ pc = "ask"
    /\ \/ lastRun = -1
       \/ lastRun = Second(time) /\ Scheduled(schedule, Second(time))
    /\ asked = 0
    /\ wakeAt = 0
    /\ due = FirstScheduled(schedule, Second(time) + 1)
    /\ upset = 0
    /\ disturbances = 0

Ask(t, took) == MilliSecondsToNextRun(schedule, t, Milli(time), took)

\* The second that has begun is over for the thread: it asks from the next one.
AskLate(took) == Ask(Second(time) + 1, took) + 2000 \* mutant: the second is waited twice
AskAfter(took) == Ask(Second(time) + 1, took) + 1000

PlanRun ==
    /\ pc = "ask"
    /\ time < MaxDays * SecondsPerDay * 1000
    /\ \E took \in Took :
        LET same == lastRun = Second(time)
            first == IF same THEN AskAfter(took) ELSE Ask(Second(time), took)
            skip == same \/ first = 0
            millis == IF first = 0 THEN AskAfter(took) ELSE first
        IN  /\ upset' = IF Milli(time) + took < 1000 THEN upset ELSE 2
            /\ IF millis > 0
               THEN /\ asked' = IF skip THEN Second(time) + 1 ELSE Second(time)
                    /\ time' = time + took
                    /\ wakeAt' = time + took + millis
                    /\ pc' = "wait"
               ELSE /\ pc' = "stopped"
                    /\ UNCHANGED <<asked, time, wakeAt>>
    /\ UNCHANGED <<schedule, lastRun, due, disturbances>>

Wake ==
    /\ pc = "wait"
    /\ \E late \in Late : time' = wakeAt + late
    /\ lastRun' = asked
    /\ pc' = "execute"
    /\ UNCHANGED <<schedule, asked, wakeAt, due, upset, disturbances>>

\* The wait ends when the clock shows something else than was planned.
Disturb ==
    /\ pc = "wait"
    /\ disturbances < MaxDisturbed
    /\ disturbances' = disturbances + 1
    /\ upset' = 2
    /\ UNCHANGED <<schedule, time, pc, lastRun, asked, due>>

SetClock ==
    /\ \E s \in Shifts : wakeAt + s >= 0 /\ wakeAt' = wakeAt + s
    /\ Disturb

WakeSpuriously ==
    /\ \E d \in Waited : time + d < wakeAt /\ wakeAt' = time + d
    /\ Disturb

Execute ==
    /\ pc = "execute"
    /\ \E d \in RunMillis : time' = time + d
    /\ due' = FirstScheduled(schedule, Second(time') + 1)
    /\ upset' = IF upset > 0 THEN upset - 1 ELSE 0
    /\ pc' = "ask"
    /\ UNCHANGED <<schedule, lastRun, asked, wakeAt, disturbances>>

Next == PlanRun \/ SetClock \/ WakeSpuriously \/ Wake \/ Execute

Spec == Init /\ [][Next]_vars
-----------------------------------------------------------------------------
\* The next run of a regular schedule is the first scheduled second from now on: the
\* second that runs now counts as reached (the thread then asks for the one after it), but
\* the last one of a day, once begun, as done.  The wait ends within that second,
\* unless the calculation itself lasted into the next.
NextRunExact ==
    pc = "ask" /\ Regular(schedule) => \A took \in Took :
        LET now == Second(time)
            wait == Ask(now, took)
            from == IF LastOfDay(schedule, now) /\ Milli(time) > 0 THEN now + 1 ELSE now
        IN  wait # -1 /\ Milli(time) + took < 1000 =>
                Second(time + took + wait) = FirstScheduled(schedule, from)

\* A regular schedule is refused (and the thread stops) only when the next run is as far
\* away as the longest gap of the schedule.
RefusedOnlyAtLongestGap ==
    pc = "stopped" /\ Regular(schedule) =>
        (FirstScheduled(schedule, Second(time) + 1) - Second(time)) * 1000 >= MaxWaitTime(schedule)

\* No two runs in neighbouring seconds: the request from the second after a run would take
\* the day's last run for passed.
Apart(s) == \A a, b \in Elements(s.second) : (b - a) % SecondsPerMinute # 1

\* Every wait for a run of a regular schedule ends in the second that is due: none is left
\* out, none comes twice, none comes at a time the schedule does not name.  (The thread may
\* return late from the wait.)  When NTP sets the clock, a wait ends early, or the
\* calculation lasts into the next second (and waits for a second too long), the run of this
\* wait may come at any time, and the thread may take the next scheduled second for done;
\* from then on the runs are the due ones again.
EveryRunIsDue ==
    Regular(schedule) /\ Apart(schedule) /\ pc = "execute" =>
        /\ upset <= 1 => Scheduled(schedule, Second(wakeAt))
        /\ upset = 0 => Second(wakeAt) = due

\* A thread with a schedule goes on for ever.
KeepsRunning == pc # "stopped"
=============================================================================
