------------------------------ MODULE PCScheduler ------------------------------
(***************************************************************************)
(* What a scheduled run does: PulseCounterScheduler::execute of            *)
(* lib/scheduler/pcscheduler.cpp reads the counters into countersStorage,  *)
(* makes the payload of it and lets a PCMqttClient publish that, while the *)
(* task of the MQTT library calls the client's callbacks.                  *)
(*                                                                         *)
(* A channel is a pair of an output and an input port.  Two runs never     *)
(* fall into one second (ScheduleLoop), so the number of the run stands    *)
(* for the date.  Since a payload has one date only, the sorting before it *)
(* has no effect; its text and the texts of the status page are left out.  *)
(***************************************************************************)
EXTENDS Integers, Sequences, FiniteSetsExt

CONSTANTS
    Counters,       \* config.getCounters(): the channels, in their order
    TableSize,      \* the size of countersStorage, 128
    Messages,       \* the texts of MQTT errors
    MAX_ERRORS,     \* the size of mqttErrors, 10
    MaxRuns,        \* bound: scheduled runs
    MaxReports,     \* bound: MQTT errors
    MaxPulses       \* bound: pulses of a channel

CounterConfig == [out : Nat, in : Nat]

ASSUME ConfigAssumption == Counters \in Seq(CounterConfig)

ASSUME BoundsAssumption ==
    /\ TableSize \in Nat \ {0}
    /\ MAX_ERRORS \in Nat \ {0}
    /\ IsFiniteSet(Messages)
    /\ {MaxRuns, MaxPulses, MaxReports} \subseteq Nat

Channels == {Counters[i] : i \in DOMAIN Counters}
Inputs == {c.in : c \in Channels}

VARIABLES
    counter,        \* what Pulsecounter::getCounts returns for a channel
    countersStorage, counterStorageCount,
    pc, next,       \* the place in execute, the counter storePulseCounts reads next
    run,            \* the number of the run
    payload,        \* what it publishes: the date and the value of each channel it holds
    mqttClient,     \* "none", "connecting", "published", "received" or "acked"
    broker,         \* the broker can be reached
    pulses,         \* history: pulses of a channel
    batch,          \* history: what this run read of a channel
    published,      \* history: payloads the broker has received
    delivered,      \* history: what those say of a channel, all together
    mqttErrors, mqttErrorsCount,
    reports,        \* how many MQTT errors there were
    unpublished,    \* history: errors of each text since the last acknowledged payload
    errors,         \* Pulsecounter's errors: the status page is given a text of errors
    mqttStatus,     \* Pulsecounter's mqttStatus: the run that lastPublished tells of, or 0
    calm            \* history: payloads acknowledged since the last error, at most 2

storageVars == <<countersStorage, counterStorageCount>>
runVars == <<pc, next, run, payload, batch>>
errorVars == <<mqttErrors, mqttErrorsCount, reports, unpublished, errors, mqttStatus, calm>>
brokerVars == <<broker, published, delivered>>
mqttVars == <<mqttClient, brokerVars, errorVars>>
vars == <<counter, pulses, storageVars, runVars, mqttVars>>

Nothing == [date |-> 0, values |-> {}]
NoError == [error |-> "", count |-> 0]

Init ==
    /\ counter = [c \in Channels |-> 0]
    /\ pulses = [c \in Channels |-> 0]
    /\ countersStorage = [a \in 1 .. TableSize |->
          [datetime |-> 0, outputPort |-> 0, counts |-> [i \in Inputs |-> 0]]]
    /\ counterStorageCount = 0
    /\ pc = "idle"
    /\ next = 0
    /\ run = 0
    /\ payload = Nothing
    /\ batch = [c \in Channels |-> 0]
    /\ mqttClient = "none"
    /\ broker \in BOOLEAN
    /\ published = <<>>
    /\ delivered = [c \in Channels |-> 0]
    /\ mqttErrors = [i \in 1 .. MAX_ERRORS |-> NoError]
    /\ mqttErrorsCount = 0
    /\ reports = 0
    /\ unpublished = [m \in Messages |-> 0]
    /\ errors = FALSE
    /\ mqttStatus = 0
    /\ calm = 2
-----------------------------------------------------------------------------
\* The reader thread counts at any time.
Pulse(c) ==
    /\ pulses[c] < MaxPulses
    /\ pulses' = [pulses EXCEPT ![c] = @ + 1]
    /\ counter' = [counter EXCEPT ![c] = @ + 1]
    /\ UNCHANGED <<storageVars, runVars, mqttVars>>

Execute ==
    /\ pc = "idle"
    /\ run < MaxRuns
    /\ run' = run + 1
    /\ next' = 1
    /\ pc' = "store"
    /\ UNCHANGED <<counter, pulses, payload, batch, storageVars, mqttVars>>

\* One entry holds the inputs of one output port at one date.
SameDate(e, c) == e.datetime = run             \* mutant: one entry for all outputs
SameEntry(e, c) == e.datetime = run /\ e.outputPort = c.out

\* The last entry is never used.
NoLimit == TRUE                                \* mutant: the size is not looked at
HasRoom == counterStorageCount < TableSize - 1

\* storePulseCounts, the loop's body: into the entry of the output, into a new one, or,
\* the table being full, nowhere.
StoreCount ==
    /\ pc = "store"
    /\ next \in DOMAIN Counters
    /\ LET c == Counters[next]
           same == {a \in 1 .. counterStorageCount : SameEntry(countersStorage[a], c)}
           new == counterStorageCount + 1
       IN  \/ /\ same # {}
              /\ countersStorage' =
                    [countersStorage EXCEPT ![Min(same)].counts[c.in] = counter[c]]
              /\ UNCHANGED counterStorageCount
           \/ /\ same = {}
              /\ HasRoom
              /\ countersStorage' =
                    [countersStorage EXCEPT ![new].datetime = run,
                                            ![new].outputPort = c.out,
                                            ![new].counts[c.in] = counter[c]]
              /\ counterStorageCount' = new
           \/ /\ same = {}
              /\ ~ HasRoom
              /\ UNCHANGED storageVars
    /\ batch' = [batch EXCEPT ![Counters[next]] = counter[Counters[next]]]
    /\ next' = next + 1
    /\ UNCHANGED <<counter, pulses, pc, run, payload, mqttVars>>

\* Pulsecounter::reset; the reader does it with its next iteration.
NotReset == counter                            \* mutant: the request is forgotten
CountersReset == [c \in Channels |-> 0]

ResetCounters ==
    /\ pc = "store"
    /\ next = Len(Counters) + 1
    /\ counter' = CountersReset
    /\ pc' = "payload"
    /\ UNCHANGED <<pulses, next, run, payload, batch, storageVars, mqttVars>>

\* Every configured counter of an entry's output port, whatever the run that wrote the
\* entry put there: an entry is not cleared when it is used again.
Values ==
    UNION {{<<c, countersStorage[a].counts[c.in]>> :
               c \in {d \in Channels : d.out = countersStorage[a].outputPort}} :
           a \in 1 .. counterStorageCount}

StoredAfterPayload == 0

GeneratePayload ==
    /\ pc = "payload"
    /\ payload' = [date |-> run, values |-> Values]
    /\ counterStorageCount' = StoredAfterPayload
    /\ pc' = "publish"
    /\ UNCHANGED <<counter, pulses, countersStorage, next, run, batch, mqttVars>>
-----------------------------------------------------------------------------
(* publish and the callbacks of its client                                  *)

\* Another client is in use, or this one cannot be started and is deleted at once.
PublishNotStarted == UNCHANGED mqttClient /\ pc' = "idle"

PublishStarted ==
    /\ mqttClient = "none"
    /\ mqttClient' = "connecting"
    /\ pc' = "sleep"

Publish ==
    /\ pc = "publish"
    /\ PublishNotStarted \/ PublishStarted
    /\ UNCHANGED <<counter, pulses, next, run, payload, batch, brokerVars, errorVars, storageVars>>

\* After 400 ms the client is deleted, with its task and all it has not sent.
ClientKept == mqttClient                       \* mutant: it lives on
ClientDeleted == "none"

EndPublish ==
    /\ pc = "sleep"
    /\ mqttClient' = ClientDeleted
    /\ pc' = "idle"
    /\ UNCHANGED <<counter, pulses, next, run, payload, batch, brokerVars, errorVars, storageVars>>

\* reset: what onPublished and onError call.
Reset == counterStorageCount' = 0 /\ UNCHANGED countersStorage

OnConnected ==
    /\ mqttClient = "connecting"
    /\ broker
    /\ mqttClient' = "published"
    /\ UNCHANGED <<counter, pulses, brokerVars, errorVars, storageVars, runVars>>

\* What a payload says of a channel (PayloadIsBatch: it has one value at most).
ValueOf(p, c) == Max({0} \cup {v[2] : v \in {w \in p.values : w[1] = c}})

\* The broker gets the message; its answer may come too late.
Receive ==
    /\ mqttClient = "published"
    /\ broker
    /\ mqttClient' = "received"
    /\ published' = Append(published, payload)
    /\ delivered' = [c \in Channels |-> delivered[c] + ValueOf(payload, c)]
    /\ UNCHANGED <<counter, pulses, broker, errorVars, storageVars, runVars>>

\* getErrorsString: no text for an empty list.
ErrorsOfMany(count) == count > 1               \* mutant: an error is missing
ErrorsOf(count) == count > 0

\* The errors are given to the status page and then forgotten.
OnPublished ==
    /\ mqttClient = "received"
    /\ mqttClient' = "acked"
    /\ Reset
    /\ mqttStatus' = run
    /\ errors' = ErrorsOf(mqttErrorsCount)
    /\ calm' = IF calm = 0 THEN 1 ELSE 2
    /\ mqttErrorsCount' = 0
    /\ unpublished' = [m \in Messages |-> 0]
    /\ UNCHANGED <<counter, pulses, brokerVars, mqttErrors, reports, runVars>>

\* The list is full: memcpy moves its entries up by one.  Source and destination overlap, so
\* it may as well repeat the first entry in all of them.
MovedUp ==
    {[i \in 1 .. MAX_ERRORS |-> IF i = 1 THEN mqttErrors[1] ELSE mqttErrors[i - 1]],
     [i \in 1 .. MAX_ERRORS |-> mqttErrors[1]]}

IsFull == mqttErrorsCount >= MAX_ERRORS

FirstOnly(m) == {i \in 1 .. mqttErrorsCount : i = 1 /\ mqttErrors[i].error = m} \* mutant
Known(m) == {i \in 1 .. mqttErrorsCount : mqttErrors[i].error = m}

\* updateMqttErrors: one more of a known text, or a new one at the end of the list.
UpdateMqttErrors(m) ==
    \/ /\ Known(m) # {}
       /\ mqttErrors' = [mqttErrors EXCEPT ![Min(Known(m))].count = @ + 1]
       /\ UNCHANGED mqttErrorsCount
    \/ /\ Known(m) = {}
       /\ mqttErrorsCount' = (IF IsFull THEN MAX_ERRORS ELSE mqttErrorsCount + 1)
       /\ \E list \in IF IsFull THEN MovedUp ELSE {mqttErrors} :
             mqttErrors' = [list EXCEPT ![mqttErrorsCount'] = [error |-> m, count |-> 1]]

\* Refused, unreachable or disconnected; a failing connection reports several texts, and the
\* library tries again after the client's life.
OnError(m) ==
    /\ mqttClient # "none"
    /\ ~ broker
    /\ reports < MaxReports
    /\ reports' = reports + 1
    /\ UpdateMqttErrors(m)
    /\ mqttStatus' = 0
    /\ errors' = ErrorsOf(mqttErrorsCount')
    /\ calm' = 0
    /\ unpublished' = [unpublished EXCEPT ![m] = @ + 1]
    /\ Reset
    /\ UNCHANGED <<counter, pulses, mqttClient, brokerVars, runVars>>

BrokerChanges ==
    /\ broker' = ~ broker
    /\ UNCHANGED <<counter, pulses, mqttClient, published, delivered, errorVars, storageVars,
                   runVars>>

Mqtt == OnConnected \/ Receive \/ OnPublished \/ \E m \in Messages : OnError(m)
-----------------------------------------------------------------------------
Next ==
    \/ \E c \in Channels : Pulse(c)
    \/ Execute \/ StoreCount \/ ResetCounters \/ GeneratePayload \/ Publish \/ EndPublish
    \/ Mqtt
    \/ BrokerChanges

Spec == Init /\ [][Next]_vars
-----------------------------------------------------------------------------
\* The counters there is room for: an entry for each of the first TableSize - 1 outputs.
FirstOf(out) == Min({i \in DOMAIN Counters : Counters[i].out = out})
Stored ==
    {c \in Channels : Cardinality({Counters[i].out : i \in 1 .. FirstOf(c.out)}) < TableSize}

\* A payload holds what its run read, one value for every counter there is room for: nothing
\* of another counter that shares an entry, nothing an earlier run left in an entry.
PayloadIsBatch ==
    pc = "publish" => payload.values = {<<c, batch[c]>> : c \in Stored}

\* The callbacks clear the table in the task of the MQTT library, without a lock, but never
\* while it holds counts that no payload has: the client does not outlive publish.
ResetDiscardsNothing ==
    [][OnPublished \/ (\E m \in Messages : OnError(m)) => counterStorageCount = 0]_vars

\* The broker never gets a pulse twice, not over all runs together.
DeliveredOnce == \A c \in Channels : delivered[c] <= pulses[c]

\* However many outputs the configuration names, no entry beyond the table is written, and
\* however many texts there are, no error beyond the list.
TablesInBounds == counterStorageCount <= TableSize /\ mqttErrorsCount \in 0 .. MAX_ERRORS

\* As long as the list has room for all texts it tells of every error since the last payload
\* that was acknowledged: each text once, with the number of its errors, over all the clients
\* of that time.
ErrorsAccounted ==
    Cardinality({m \in Messages : unpublished[m] > 0}) <= MAX_ERRORS =>
        \A m \in Messages :
            IF unpublished[m] = 0 THEN Known(m) = {}
            ELSE \E i \in 1 .. mqttErrorsCount :
                    Known(m) = {i} /\ mqttErrors[i].count = unpublished[m]

\* Between two runs every result has reached the broker or is still stored.
ResultsKept ==
    pc = "idle" => \A r \in 1 .. run :
        \/ \E i \in DOMAIN published : published[i].date = r
        \/ \E a \in 1 .. counterStorageCount : countersStorage[a].datetime = r
=============================================================================
