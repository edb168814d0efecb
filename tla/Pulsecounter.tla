----------------------------- MODULE Pulsecounter -----------------------------
(***************************************************************************)
(* The pulse counter of lib/pulsecounter: the reader thread that scans a   *)
(* matrix of meters through the I2C expanders every 20 ms, and the batch   *)
(* of the scheduler thread that reads the counters and asks for a reset.   *)
(*                                                                         *)
(* A meter hangs between one output port and one input line of the matrix, *)
(* or directly at an input line (output NoPort, 0xFF in the code).  A      *)
(* pulse closes its contact and opens it again.  The masks of the code are *)
(* sets of port numbers here.  The state in which the model starts is the  *)
(* one app_main reaches after Pulsecounter::setConfig and startThread.     *)
(*                                                                         *)
(* Here every I2C transfer succeeds; FaultyBus adds those that fail.  Left *)
(* out: lastSecond, the status page, stopping the reader (never done).     *)
(***************************************************************************)
EXTENDS Integers, Sequences, FiniteSetsExt

CONSTANTS
    NumOutPorts,        \* output ports of the board
    InPorts,            \* input lines of the board
    NoPort,             \* 0xFF: "no output" of a counter, "no input" of an unused one
    MaxPulseCounters,   \* capacity of pulseCounters
    WaitTimeInMillis,   \* the sleep of the reader
    Outputs,            \* cfg.getOutputs()
    Counters,           \* cfg.getCounters()
    Meters,             \* the meters wired to the board, of the channels of the counters
    SchedulerRuns,      \* checkConfiguration passed, so app_main started the scheduler
    SleepTicks,         \* clock ticks of that sleep
    MinHold,            \* ticks a meter's contact holds a position, at least
    MaxPulses           \* bound: pulses each meter gives

EMeterType == "EMeterType"
WaterMeterType == "WaterMeterType"
NoType == "NoType"

OutPorts == 0 .. NumOutPorts - 1
Groups == OutPorts \cup {NoPort}    \* whose input masks are kept
MaxInt == 2147483647                \* of getDivider()'s int
Dividers == 1 .. MaxInt
HourInMillis == 3600000

\* The entries of the configuration.
OutputConfig == [port : OutPorts, type : {EMeterType, WaterMeterType, NoType}]
CounterConfig == [out : Groups, in : InPorts \cup {NoPort}, divider : Dividers]

\* The counters that fit into the table; the others are dropped silently.
NumSlots == IF Len(Counters) <= MaxPulseCounters THEN Len(Counters) ELSE MaxPulseCounters
Slots == 1 .. NumSlots
Out(s) == Counters[s].out
In(s) == Counters[s].in

Channels == {<<Out(s), In(s)>> : s \in {t \in Slots : In(t) # NoPort}}
Direct == {m \in Meters : m[1] = NoPort}

ASSUME BoardAssumption ==
    /\ NumOutPorts \in Nat \ {0}
    /\ NoPort \notin OutPorts
    /\ NoPort \notin InPorts
    /\ MaxPulseCounters \in Nat
    /\ WaitTimeInMillis \in 1 .. HourInMillis
    /\ SleepTicks \in Nat \ {0}
    /\ MaxPulses \in Nat
    /\ SchedulerRuns \in BOOLEAN

ASSUME ConfigAssumption ==
    /\ Outputs \in Seq(OutputConfig)
    /\ \A i, j \in DOMAIN Outputs : Outputs[i].port = Outputs[j].port => i = j
    /\ Counters \in Seq(CounterConfig)
    /\ MinHold \in [Meters -> Nat]

\* A direct meter pulls its line whatever is selected: no matrix meter may share it (the
\* direct counters the web page adds for every unused line have no meter), and a meter
\* hangs at an output the configuration gives a meter type.
ASSUME WiringAssumption ==
    /\ Meters \subseteq Channels
    /\ \A d \in Direct, m \in Meters \ Direct : d[2] # m[2]
    /\ \A m \in Meters \ Direct :
          \E i \in DOMAIN Outputs : Outputs[i].port = m[1] /\ Outputs[i].type # NoType
-----------------------------------------------------------------------------
(* Configuration: setConfig, setOutputConfiguration, setPulseCounter        *)

PortsOf(type) == {Outputs[i].port : i \in {j \in DOMAIN Outputs : Outputs[j].type = type}}
EMeters == PortsOf(EMeterType)
WaterMeters == PortsOf(WaterMeterType)

\* The masks of an output: an EMeter is switched on by clearing its bit while the other
\* EMeters' bits are set, a water meter by setting its bit.
PcMask == EMeters \cup WaterMeters
OthersOn(p) == WaterMeters \cap {p}            \* mutant: the other EMeters stay on
OnMask(p) == (EMeters \ {p}) \cup (WaterMeters \cap {p})

\* Between two scans every configured output is cleared.
RestMask == OutPorts \ PcMask

MaxDivider(p) ==
    Max({1} \cup {Counters[i].divider : i \in {j \in DOMAIN Counters : Counters[j].out = p}})

\* Iterations an output is skipped between two samples; an output without a
\* configuration keeps the 0 of initOutputData and is never sampled.
MaxCount(p) ==
    IF p \in EMeters THEN 1
    ELSE IF p \in WaterMeters \cup PortsOf(NoType)
         THEN (5 * MaxDivider(p)) \div (2 * (HourInMillis \div WaitTimeInMillis))
         ELSE 0

HasCounter(p) == \E s \in Slots : Out(s) = p
AtLeastOneOutput == \E s \in Slots : Out(s) # NoPort
-----------------------------------------------------------------------------
VARIABLES
    \* the meters and the output expander
    closed,             \* meters whose contact is closed
    held,               \* ticks since a contact last moved, up to MinHold
    outputPorts,        \* the register of the output expander
    \* the reader thread
    pc, scan,           \* its place, and the output the scan has reached
    sleepLeft,          \* ticks left of its sleep
    currentMask,        \* the output mask it read and will restore
    currentCount,       \* iterations until an output is due
    previousInputMask, currentInputMask,
    risingEdges,        \* inputsHaveRisingEdges of this iteration
    counter,            \* pulseCounters[].counter
    \* the scheduler thread
    resetRequest,
    storeIdx,           \* the counter storePulseCounts reads next, 0 outside of it
    \* history, read by the properties only
    pulses,             \* pulses each meter gave
    edges,              \* rising edges the samples of a slot's group showed
    counted,            \* increments of a slot's counter
    reported            \* counts the batches read, per configured counter

meterVars == <<closed, held, pulses>>
sampleVars == <<previousInputMask, currentInputMask, risingEdges, edges>>
storeVars == <<storeIdx, reported>>
vars == <<closed, held, outputPorts, pc, scan, sleepLeft, currentMask, currentCount,
          previousInputMask, currentInputMask, risingEdges, counter, resetRequest,
          storeIdx, pulses, edges, counted, reported>>

\* A matrix meter is connected while its output selects it, a direct meter always.
Selected(mask) ==
    {m \in Meters : \/ m \in Direct
                    \/ m[1] \in EMeters /\ m[1] \notin mask
                    \/ m[1] \in WaterMeters /\ m[1] \in mask}

\* A line is high unless a connected meter with a closed contact pulls it.
ReadInputPorts(mask) == InPorts \ {m[2] : m \in Selected(mask) \cap closed}

\* app_main has written 0xFF to the outputs when init reads the direct meters' lines, and
\* setConfig then clears the configured outputs.
InitReading(lines) ==
    /\ closed \in SUBSET Meters
    /\ held = [m \in Meters |-> 0]
    /\ outputPorts = RestMask
    /\ pc = "sleep"
    /\ scan = 0
    /\ sleepLeft = 0
    /\ currentMask = {}
    /\ currentCount = [p \in OutPorts |-> 0]
    /\ currentInputMask = [g \in Groups |-> IF g = NoPort THEN lines ELSE InPorts]
    /\ previousInputMask = currentInputMask
    /\ risingEdges = FALSE
    /\ counter = [s \in Slots |-> 0]
    /\ resetRequest = FALSE
    /\ storeIdx = 0
    /\ pulses = [m \in Meters |-> 0]
    /\ edges = [s \in Slots |-> 0]
    /\ counted = [s \in Slots |-> 0]
    /\ reported = [i \in DOMAIN Counters |-> 0]

Init == InitReading(ReadInputPorts(OutPorts))
-----------------------------------------------------------------------------
(* The meters and the clock                                                 *)

Toggle(m) ==
    /\ held[m] >= MinHold[m]
    /\ held' = [held EXCEPT ![m] = 0]
    /\ UNCHANGED <<outputPorts, pc, scan, sleepLeft, currentMask, currentCount, counter,
                   resetRequest, counted, sampleVars, storeVars>>

CloseContact(m) ==
    /\ m \notin closed
    /\ pulses[m] < MaxPulses
    /\ closed' = closed \cup {m}
    /\ UNCHANGED pulses
    /\ Toggle(m)

OpenContact(m) ==
    /\ m \in closed
    /\ closed' = closed \ {m}
    /\ pulses' = [pulses EXCEPT ![m] = @ + 1]
    /\ Toggle(m)

\* The clock runs while the reader sleeps; its I2C transfers take no time.
Elapse ==
    /\ pc = "sleep"
    /\ sleepLeft > 0
    /\ sleepLeft' = sleepLeft - 1
    /\ held' = [m \in Meters |-> IF held[m] < MinHold[m] THEN held[m] + 1 ELSE held[m]]
    /\ UNCHANGED <<closed, pulses, outputPorts, pc, scan, currentMask, currentCount, counter,
                   resetRequest, counted, sampleVars, storeVars>>
-----------------------------------------------------------------------------
(* The reader thread: readInput                                             *)

\* numInputPort's bit is set in the current mask of the counter's group, not in the previous.
InputHasRisingEdge(s, prev, cur) ==
    In(s) # NoPort /\ In(s) \in cur[Out(s)] \ prev[Out(s)]

\* Any edge of the iteration makes it count.
LastOnly(found) == found                       \* mutant: the last sample decides
Accumulated(found) == risingEdges \/ found

\* A sample of group g: shift its masks, note whether any line rose.
SampleReading(g, mask, lines) ==
    /\ outputPorts' = mask
    /\ previousInputMask' = [previousInputMask EXCEPT ![g] = currentInputMask[g]]
    /\ currentInputMask' = [currentInputMask EXCEPT ![g] = lines]
    /\ risingEdges' = Accumulated(currentInputMask'[g] \ previousInputMask'[g] # {})
    /\ edges' = [s \in Slots |->
                    IF Out(s) = g /\ InputHasRisingEdge(s, previousInputMask', currentInputMask')
                    THEN edges[s] + 1 ELSE edges[s]]

Sample(g, mask) == SampleReading(g, mask, ReadInputPorts(mask))

NotCleared == counter                          \* mutant: the request is dropped
CountersAfterReset == IF resetRequest THEN [s \in Slots |-> 0] ELSE counter

\* The sleep is over: serve a reset request, read the output mask, begin the scan.
StartIterationReading(mask) ==
    /\ pc = "sleep"
    /\ sleepLeft = 0
    /\ counter' = CountersAfterReset
    /\ resetRequest' = FALSE
    /\ risingEdges' = FALSE
    /\ currentMask' = IF AtLeastOneOutput THEN mask ELSE {}
    /\ scan' = 0
    /\ pc' = "scan"
    /\ UNCHANGED <<outputPorts, sleepLeft, currentCount, previousInputMask, currentInputMask,
                   edges, counted, meterVars, storeVars>>

StartIteration == StartIterationReading(outputPorts)

Due(p) == HasCounter(p) /\ currentCount[p] = 0 /\ MaxCount(p) > 0

\* Select one output, read the input lines.
OutputDue ==
    /\ pc = "scan"
    /\ scan < NumOutPorts
    /\ Due(scan)

OutputSampled ==
    /\ scan' = scan + 1
    /\ UNCHANGED <<pc, sleepLeft, currentMask, currentCount, counter, resetRequest, counted,
                   meterVars, storeVars>>

SampleOutput ==
    /\ OutputDue
    /\ Sample(scan, (currentMask \ PcMask) \cup OnMask(scan))
    /\ OutputSampled

SkipOutput ==
    /\ pc = "scan"
    /\ scan < NumOutPorts
    /\ ~ Due(scan)
    /\ scan' = scan + 1
    /\ UNCHANGED <<outputPorts, pc, sleepLeft, currentMask, currentCount, counter,
                   resetRequest, counted, meterVars, sampleVars, storeVars>>

\* Restore the output mask, then read the direct meters.
ScanComplete ==
    /\ pc = "scan"
    /\ scan = NumOutPorts

DirectSampled ==
    /\ pc' = "count"
    /\ UNCHANGED <<scan, sleepLeft, currentMask, currentCount, counter, resetRequest, counted,
                   meterVars, storeVars>>

SampleNoOutput ==
    /\ ScanComplete
    /\ Sample(NoPort, IF AtLeastOneOutput THEN currentMask ELSE outputPorts)
    /\ DirectSampled

\* countPulses looks at the masks of every group, also of those not sampled just now.
CountPulses ==
    /\ pc = "count"
    /\ LET rises(s) == risingEdges /\ InputHasRisingEdge(s, previousInputMask, currentInputMask)
       IN  /\ counter' = [s \in Slots |-> IF rises(s) THEN counter[s] + 1 ELSE counter[s]]
           /\ counted' = [s \in Slots |-> IF rises(s) THEN counted[s] + 1 ELSE counted[s]]
    /\ pc' = "countdown"
    /\ UNCHANGED <<outputPorts, scan, sleepLeft, currentMask, currentCount, resetRequest,
                   meterVars, sampleVars, storeVars>>

OneMore(p) == IF currentCount[p] > 0 THEN currentCount[p] - 1 ELSE MaxCount(p) + 1 \* mutant
Underflow(p) == currentCount[p] - 1            \* mutant: no test for zero
Stuck(p) == IF currentCount[p] > 0 THEN currentCount[p] ELSE MaxCount(p) \* mutant
NextCount(p) == IF currentCount[p] > 0 THEN currentCount[p] - 1 ELSE MaxCount(p)

CountDown ==
    /\ pc = "countdown"
    /\ currentCount' = [p \in OutPorts |-> NextCount(p)]
    /\ sleepLeft' = SleepTicks
    /\ pc' = "sleep"
    /\ UNCHANGED <<outputPorts, scan, currentMask, counter, resetRequest, counted,
                   meterVars, sampleVars, storeVars>>

Reader == StartIteration \/ SampleOutput \/ SkipOutput \/ SampleNoOutput \/ CountPulses \/ CountDown
-----------------------------------------------------------------------------
(* The scheduler thread: storePulseCounts                                   *)

\* The first slot of a channel, 0 for a channel that was dropped.
GetCounts(out, in) ==
    LET same == {s \in Slots : Out(s) = out /\ In(s) = in}
    IN  IF same = {} THEN 0 ELSE counter[Min(same)]

\* A batch begins at the earliest a second after the last one (executeLocal), when the
\* reader has long served its reset request.
StartStore ==
    /\ SchedulerRuns
    /\ storeIdx = 0
    /\ ~ resetRequest
    /\ storeIdx' = 1
    /\ UNCHANGED <<outputPorts, pc, scan, sleepLeft, currentMask, currentCount, counter,
                   resetRequest, counted, reported, meterVars, sampleVars>>

StoreCount ==
    /\ storeIdx \in DOMAIN Counters
    /\ reported' = [reported EXCEPT ![storeIdx] =
                       @ + GetCounts(Counters[storeIdx].out, Counters[storeIdx].in)]
    /\ storeIdx' = storeIdx + 1
    /\ UNCHANGED <<outputPorts, pc, scan, sleepLeft, currentMask, currentCount, counter,
                   resetRequest, counted, meterVars, sampleVars>>

\* The batch is complete: Pulsecounter::reset.
RequestReset ==
    /\ storeIdx = Len(Counters) + 1
    /\ resetRequest' = TRUE
    /\ storeIdx' = 0
    /\ UNCHANGED <<outputPorts, pc, scan, sleepLeft, currentMask, currentCount, counter,
                   counted, reported, meterVars, sampleVars>>

Store == StartStore \/ StoreCount \/ RequestReset
-----------------------------------------------------------------------------
Next ==
    \/ \E m \in Meters : CloseContact(m) \/ OpenContact(m)
    \/ Elapse
    \/ Reader
    \/ Store

\* The reader is never blocked, its sleep ends, and a batch runs to its end.
Fairness ==
    /\ WF_vars(Elapse)
    /\ WF_vars(Reader)
    /\ WF_vars(StoreCount \/ RequestReset)

Spec == Init /\ [][Next]_vars
FairSpec == Spec /\ Fairness
-----------------------------------------------------------------------------
TypeOK ==
    /\ closed \subseteq Meters
    /\ held \in [Meters -> Nat]
    /\ outputPorts \subseteq OutPorts
    /\ pc \in {"sleep", "scan", "count", "countdown"}
    /\ scan \in 0 .. NumOutPorts
    /\ sleepLeft \in Nat
    /\ currentMask \subseteq OutPorts
    /\ currentCount \in [OutPorts -> Nat]
    /\ previousInputMask \in [Groups -> SUBSET InPorts]
    /\ currentInputMask \in [Groups -> SUBSET InPorts]
    /\ risingEdges \in BOOLEAN
    /\ counter \in [Slots -> Nat]
    /\ resetRequest \in BOOLEAN
    /\ storeIdx \in 0 .. Len(Counters) + 1
    /\ pulses \in [Meters -> Nat]
    /\ edges \in [Slots -> Nat]
    /\ counted \in [Slots -> Nat]
    /\ reported \in [DOMAIN Counters -> Nat]

\* The meter of a slot; a counter without one is not used.
MeterOf(s) == <<Out(s), In(s)>>
Used(s) == MeterOf(s) \in Meters

\* A rising edge in the masks of a group comes from a pulse of the one meter at that
\* crossing: never from another meter of the same line, from switching the outputs, or
\* from the masks before the first sample.
NoPhantomPulse == \A s \in Slots : Used(s) => edges[s] <= pulses[MeterOf(s)]

\* When countPulses is through, every edge any group's sample showed so far has been
\* counted, whichever group showed it and whatever the other groups showed.
EveryEdgeCounted ==
    pc \in {"countdown", "sleep"} => \A s \in Slots : counted[s] >= edges[s]

\* The masks of an output that is not sampled stay as they are and are counted again
\* when another line rises, but an edge never counts for more than the iterations from
\* one sample of its output to the next; a direct meter's edge counts exactly once.
RecountBound == \A s \in Slots : counted[s] <= (1 + MaxCount(Out(s))) * edges[s]

\* A batch never reads a count twice: what all batches together read of a channel was
\* counted, the reset of one batch being served before the next begins.
ReportedOnce ==
    \A i \in Slots : \E s \in Slots :
        Out(s) = Out(i) /\ In(s) = In(i) /\ reported[i] <= counted[s]

\* Ticks from one sample of a group to the next; an output without a period has none.
Period(g) == SleepTicks * (MaxCount(g) + 1)
IsSampled(g) == g # NoPort => MaxCount(g) > 0
SlowEnough(s) == IsSampled(Out(s)) /\ MinHold[MeterOf(s)] > Period(Out(s))

\* Of a meter that holds its contact longer than that the scan misses no pulse: at most the
\* one given since the last sample has not been seen.
NoMissedPulse ==
    \A s \in Slots : Used(s) /\ SlowEnough(s) => pulses[MeterOf(s)] <= edges[s] + 1

\* An output with a counter and a sampling period is sampled again and again.
EveryOutputSampled ==
    \A p \in OutPorts : HasCounter(p) /\ MaxCount(p) > 0 =>
        []<><<SampleOutput /\ scan = p>>_vars

\* Every pulse of a slow enough meter is counted in the end.
PulseEventuallyCounted ==
    \A s \in Slots : Used(s) =>
        \A n \in 1 .. MaxPulses : pulses[MeterOf(s)] >= n ~> counted[s] >= n

UsedSlots == {s \in Slots : Used(s)}
Promise == INSTANCE PulseCount WITH
    Slots <- UsedSlots,
    Source <- [s \in UsedSlots |-> MeterOf(s)],
    Repeats <- [s \in UsedSlots |-> 1 + MaxCount(Out(s))],
    given <- pulses,
    recorded <- [s \in UsedSlots |-> counted[s]],
    published <- [s \in UsedSlots |-> reported[s]]

\* Seen through its meters, its counts and its batches, the scan of a matrix through two
\* expanders with a scheduler that reads and resets the counters at any time records and
\* publishes nothing but the pulses the meters gave.
KeepsPromise == Promise!Spec
=============================================================================
