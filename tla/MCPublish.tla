------------------------------ MODULE MCPublish ------------------------------
(* Two outputs whose counters are mixed in the configuration, two outputs more *)
(* than the table has room for, and an error text more than the list has; and  *)
(* a page that shows the status of the same device.                            *)
EXTENDS PCScheduler, StatusPage, TLC

MCCounters == <<[out |-> 0, in |-> 0], [out |-> 4, in |-> 0], [out |-> 5, in |-> 0],
                [out |-> 6, in |-> 0], [out |-> 0, in |-> 5]>>

\* The texts are only compared with each other.
MessageSymmetry == Permutations(Messages)
-----------------------------------------------------------------------------
CONSTANTS
    Now,        \* the time at which the page asks
    Ages        \* seconds since the last pulse

ASSUME TimeAssumption == Now \in Nat \ {0} /\ Ages \subseteq 0 .. Now - 1

\* What the reader has made of a channel: no pulse yet, counted, or published and reset.
Traces ==
    {t \in [counter : 0 .. MaxPulses, pulses : 0 .. MaxPulses] : t.counter <= t.pulses}

\* The slots of the configuration, the table's next one being unused.
SlotsOf(trace, age) ==
    Append([i \in DOMAIN Counters |->
        [numInputPort |-> Counters[i].in, numOutPort |-> Counters[i].out,
         counter |-> trace[Counters[i]].counter,
         lastSecond |-> IF trace[Counters[i]].pulses = 0 THEN 0 ELSE Now - age]],
        [numInputPort |-> NoInputPort, numOutPort |-> 7, counter |-> 0, lastSecond |-> 0])

Response(e, s, slots) ==
    [status |-> 200,
     json |-> GetStatusJson([errors |-> e, mqttStatus |-> s, schedulerRunTime |-> Now,
                             slots |-> slots])]
Refused == [status |-> 500, json |-> <<>>]

\* A page that was opened, and may have shown a status before or lost an answer.
Divisions == {<<c.out, c.in>> : c \in Channels}
Earlier == [last |-> 7, unit |-> "minutes", ago |-> 7]
Pages ==
    [lastCountIsRunning : BOOLEAN, text : 0 .. MaxRuns, meter : [Divisions -> {Blank, Earlier}]]

Shown(trace, age) ==
    IF trace.pulses = 0 THEN Blank
    ELSE IF age < 60 THEN [last |-> trace.counter, unit |-> "seconds", ago |-> 0]
    ELSE IF age < 3600 THEN [last |-> trace.counter, unit |-> "minutes", ago |-> age \div 60]
    ELSE [last |-> 0, unit |-> "hours", ago |-> age \div 3600]

\* An answer that is refused or lost changes nothing that is shown, nor does the timer while
\* an answer is waited for.
KeepsItsText(page, response) ==
    LET silent == UpdateLastCount(page, Lost, Now)
    IN  /\ silent.text = page.text /\ silent.meter = page.meter
        /\ UpdateLastCount(page, Refused, Now) = page
        /\ page.lastCountIsRunning => UpdateLastCount(page, response, Now) = page

\* A page that asks a device of which c has this trace, and once more after resetTicks.
ShowsStatus(page, s, c, trace, age) ==
    LET slots == SlotsOf(trace, age)
        division == <<c.out, c.in>>
        response1 == Response(FALSE, s, slots)
        next1 == UpdateLastCount(page, response1, Now)
        next2 == UpdateLastCount(next1, Response(FALSE, s, ResetLastSeconds(slots)), Now)
    IN  /\ KeepsItsText(page, response1)
        /\ ~ page.lastCountIsRunning =>
              /\ next1.text = s
              /\ next1.meter[division] = Shown(trace[c], age)
              /\ next2.meter[division] = Blank

\* What the pages make of a device without errors, whatever its other channels do; it is
\* computed once.
Statuses == [mqttStatus : 0 .. MaxRuns, of : Channels, trace : Traces]
AnyPageShows(d) ==
    \A page \in Pages, age \in Ages, others \in Traces :
        ShowsStatus(page, d.mqttStatus, d.of,
                    [c \in Channels |-> IF c = d.of THEN d.trace ELSE others], age)
Verdicts == {<<d, AnyPageShows(d)>> : d \in Statuses}
PagesServed ==
    /\ \A uri \in PageFiles \cup PageRequests :
          HandlerOf("GET", uri) = "getHandler" /\ Head(GetHandler(uri)) = uri
    /\ \A uri \in PagePosts : HandlerOf("POST", uri) # "getHandler"

TraceOf(c) == [counter |-> counter[c], pulses |-> pulses[c]]

(* The page is given the errors of the broker from the first one until a     *)
(* payload is acknowledged, and none any more with the second payload        *)
(* (pcscheduler.cpp:135, 189).  While there are none, a page that asks shows *)
(* the last publication and the last pulse of every meter as they are        *)
(* (pulse.js:435), whatever it has shown before, and the pulse no more after *)
(* resetTicks.                                                               *)
StatusShown ==
    /\ calm = 0 => errors
    /\ calm = 2 => ~ errors
    /\ PagesServed
    /\ ~ errors => \A c \in Channels : c.in # NoInputPort =>
          <<[mqttStatus |-> mqttStatus, of |-> c, trace |-> TraceOf(c)], TRUE>> \in Verdicts
=============================================================================
