--------------------------- MODULE PCSchedulerProofs ---------------------------
(* What holds of PCScheduler for every configuration and table, with proofs. *)
EXTENDS MCPublish, ListProofs, FiniteSetTheorems

\* A client lives only while publish sleeps, and from generatePayload to the next run the
\* table is empty; it never holds more than the size leaves room for.
Inv ==
    /\ pc \in {"idle", "store", "payload", "publish", "sleep"}
    /\ mqttClient # "none" => pc = "sleep"
    /\ pc \in {"idle", "publish", "sleep"} => counterStorageCount = 0
    /\ counterStorageCount \in 0 .. TableSize

\* The invariant holds at the start and is kept by every step.
LEMMA InvInductive == Spec => []Inv
<1>1. Init => Inv
  BY BoundsAssumption DEF Init, Inv
<1>2. Inv /\ [Next]_vars => Inv'
  <2> SUFFICES ASSUME Inv, [Next]_vars PROVE Inv'
    OBVIOUS
  <2> USE BoundsAssumption DEF Inv
  <2>1. CASE \E c \in Channels : Pulse(c)
    BY <2>1 DEF Pulse, storageVars, runVars, mqttVars
  <2>2. CASE Execute
    BY <2>2 DEF Execute, storageVars, mqttVars
  <2>3. CASE StoreCount
    <3>1. pc' = "store" /\ mqttClient' = "none"
      BY <2>3 DEF StoreCount, mqttVars
    <3>2. \/ counterStorageCount' = counterStorageCount
          \/ HasRoom /\ counterStorageCount' = counterStorageCount + 1
      BY <2>3 DEF StoreCount, storageVars
    <3> QED BY <3>1, <3>2 DEF HasRoom
  <2>4. CASE ResetCounters
    BY <2>4 DEF ResetCounters, storageVars, mqttVars
  <2>5. CASE GeneratePayload
    BY <2>5 DEF GeneratePayload, StoredAfterPayload, mqttVars
  <2>6. CASE Publish
    BY <2>6 DEF Publish, PublishNotStarted, PublishStarted, storageVars
  <2>7. CASE EndPublish
    BY <2>7 DEF EndPublish, ClientDeleted, storageVars
  <2>8. CASE Mqtt
    <3>1. CASE OnConnected \/ Receive \/ OnPublished
      BY <3>1 DEF OnConnected, Receive, OnPublished, Reset, storageVars, runVars
    <3>2. ASSUME NEW m \in Messages, OnError(m) PROVE Inv'
      BY <3>2 DEF OnError, Reset, runVars
    <3> QED
      BY <2>8, <3>1, <3>2 DEF Mqtt
  <2>9. CASE BrokerChanges
    BY <2>9 DEF BrokerChanges, storageVars, runVars
  <2>10. CASE UNCHANGED vars
    BY <2>10 DEF vars, storageVars, runVars, mqttVars
  <2> QED
    BY <2>1, <2>2, <2>3, <2>4, <2>5, <2>6, <2>7, <2>8, <2>9, <2>10 DEF Next
<1> QED BY <1>1, <1>2, PTL DEF Spec

\* Whenever a callback of the MQTT client clears countersStorage, in the task of the MQTT
\* library and without a lock, the table is empty: no count that was read is thrown away.
THEOREM ResetHarmless == Spec => ResetDiscardsNothing
<1>1. Inv /\ [Next]_vars =>
        [OnPublished \/ (\E m \in Messages : OnError(m)) => counterStorageCount = 0]_vars
  BY DEF Inv, OnPublished, OnError
<1> QED BY <1>1, InvInductive, PTL DEF Spec, ResetDiscardsNothing
-----------------------------------------------------------------------------
(* The list of MQTT errors                                                  *)

\* The texts of the errors since the last acknowledged payload.
Open == {m \in Messages : unpublished[m] > 0}

\* An entry of the list; the unused ones have no text.
Texts == Messages \cup {""}
Entry == [error : Texts, count : Nat]

Listed(m) ==
    IF unpublished[m] = 0 THEN Known(m) = {}
    ELSE \E i \in 1 .. mqttErrorsCount :
            Known(m) = {i} /\ mqttErrors[i].count = unpublished[m]

\* While there is room for all texts the list has exactly one entry for each.
ErrorInv ==
    /\ mqttErrorsCount \in 0 .. MAX_ERRORS
    /\ mqttErrors \in [1 .. MAX_ERRORS -> Entry]
    /\ unpublished \in [Messages -> Nat]
    /\ Cardinality(Open) <= MAX_ERRORS =>
          mqttErrorsCount = Cardinality(Open) /\ \A m \in Messages : Listed(m)

LEMMA MinOfOne == ASSUME NEW n \in Nat PROVE Min({n}) = n
BY DEF Min

LEMMA OpenFinite == IsFiniteSet(Open) /\ Cardinality(Open) \in Nat
<1>1. Open \in SUBSET Messages
  BY DEF Open
<1>2. IsFiniteSet(Open)
  BY <1>1, BoundsAssumption, FS_Subset
<1> QED
  BY <1>2, FS_CardinalityType

\* An error of a known text: its entry counts one more, no other entry changes.
LEMMA KnownError ==
    ASSUME ErrorInv, NEW m \in Messages, OnError(m), Known(m) # {},
           Cardinality(Open) <= MAX_ERRORS
    PROVE  Open' = Open /\ mqttErrorsCount' = mqttErrorsCount /\ \A k \in Messages : Listed(k)'
<1> USE DEF ErrorInv
<1>1. PICK i \in 1 .. mqttErrorsCount : Known(m) = {i} /\ mqttErrors[i].count = unpublished[m]
  BY DEF Listed
<1>2. unpublished[m] > 0 /\ i \in 1 .. MAX_ERRORS
  BY BoundsAssumption DEF Listed
<1>3. /\ mqttErrors' = [mqttErrors EXCEPT ![i].count = @ + 1]
      /\ mqttErrorsCount' = mqttErrorsCount
  BY <1>1, MinOfOne, SMTT(30) DEF OnError, UpdateMqttErrors
<1>4. unpublished' = [unpublished EXCEPT ![m] = @ + 1]
  BY DEF OnError
<1>5. Open' = Open
  BY <1>2, <1>4 DEF Open
<1>6. \A j \in 1 .. MAX_ERRORS :
          /\ mqttErrors'[j].error = mqttErrors[j].error
          /\ mqttErrors'[j].count = IF j = i THEN mqttErrors[j].count + 1 ELSE mqttErrors[j].count
  BY <1>2, <1>3 DEF Entry
<1>7. \A k \in Messages : Known(k)' = Known(k)
  BY <1>3, <1>6, BoundsAssumption DEF Known
<1>8. ASSUME NEW k \in Messages PROVE Listed(k)'
  <2>1. CASE k = m
    BY <2>1, <1>1, <1>2, <1>3, <1>4, <1>6, <1>7 DEF Listed
  <2>2. CASE k # m /\ unpublished[k] = 0
    BY <2>2, <1>4, <1>7 DEF Listed
  <2>3. CASE k # m /\ unpublished[k] # 0
    <3>1. PICK j \in 1 .. mqttErrorsCount :
              Known(k) = {j} /\ mqttErrors[j].count = unpublished[k]
      BY <2>3 DEF Listed
    <3>2. j # i /\ j \in 1 .. MAX_ERRORS
      BY <2>3, <3>1, <1>1, BoundsAssumption DEF Known
    <3> QED
      BY <2>3, <3>1, <3>2, <1>3, <1>4, <1>6, <1>7 DEF Listed
  <2> QED
    BY <2>1, <2>2, <2>3
<1> QED
  BY <1>3, <1>5, <1>8

\* An error of a new text: if there is still room for all texts, there is room for this one.
LEMMA NewError ==
    ASSUME ErrorInv, NEW m \in Messages, OnError(m), Known(m) = {},
           Cardinality(Open') <= MAX_ERRORS
    PROVE  mqttErrorsCount' = Cardinality(Open') /\ \A k \in Messages : Listed(k)'
<1> USE DEF ErrorInv
<1>1. unpublished' = [unpublished EXCEPT ![m] = @ + 1]
  BY DEF OnError
<1>2. Open' = Open \cup {m}
  BY <1>1 DEF Open
<1>3. Cardinality(Open') = IF m \in Open THEN Cardinality(Open) ELSE Cardinality(Open) + 1
  BY <1>2, OpenFinite, FS_AddElement
<1>4. Cardinality(Open) <= MAX_ERRORS
  BY <1>3, OpenFinite, BoundsAssumption
<1>5. unpublished[m] = 0
  BY <1>4 DEF Listed
<1>6. /\ Cardinality(Open') = mqttErrorsCount + 1
      /\ ~ IsFull
  BY <1>3, <1>4, <1>5, BoundsAssumption DEF Open, IsFull
<1>7. /\ mqttErrorsCount' = mqttErrorsCount + 1
      /\ mqttErrors' = [mqttErrors EXCEPT ![mqttErrorsCount'] = [error |-> m, count |-> 1]]
  BY <1>6 DEF OnError, UpdateMqttErrors
<1>8. mqttErrorsCount + 1 \in 1 .. MAX_ERRORS
  BY <1>6, BoundsAssumption DEF IsFull
<1>9. \A j \in 1 .. MAX_ERRORS : mqttErrors'[j] =
          IF j = mqttErrorsCount + 1 THEN [error |-> m, count |-> 1] ELSE mqttErrors[j]
  BY <1>7, <1>8
<1>10. ASSUME NEW k \in Messages PROVE Listed(k)'
  <2>1. CASE k = m
    <3>1. Known(m)' = {mqttErrorsCount + 1}
      BY <1>7, <1>8, <1>9, BoundsAssumption DEF Known
    <3> QED
      BY <2>1, <3>1, <1>1, <1>5, <1>7, <1>8, <1>9 DEF Listed
  <2>2. CASE k # m
    <3>1. Known(k)' = Known(k)
      BY <2>2, <1>7, <1>8, <1>9, BoundsAssumption DEF Known
    <3>2. Listed(k) /\ unpublished'[k] = unpublished[k]
      BY <2>2, <1>1, <1>4
    <3>3. CASE unpublished[k] # 0
      <4>1. PICK j \in 1 .. mqttErrorsCount :
                Known(k) = {j} /\ mqttErrors[j].count = unpublished[k]
        BY <3>2, <3>3 DEF Listed
      <4>2. j # mqttErrorsCount + 1 /\ j \in 1 .. MAX_ERRORS
        BY BoundsAssumption
      <4> QED
        BY <3>1, <3>2, <3>3, <4>1, <4>2, <1>7, <1>9 DEF Listed
    <3> QED
      BY <3>1, <3>2, <3>3 DEF Listed
  <2> QED
    BY <2>1, <2>2
<1> QED
  BY <1>6, <1>7, <1>10

LEMMA ErrorTypes ==
    ASSUME ErrorInv, NEW m \in Messages, OnError(m)
    PROVE  /\ mqttErrorsCount' \in 0 .. MAX_ERRORS
           /\ mqttErrors' \in [1 .. MAX_ERRORS -> Entry]
           /\ unpublished' \in [Messages -> Nat]
<1> USE BoundsAssumption DEF ErrorInv
<1>1. unpublished' \in [Messages -> Nat]
  BY DEF OnError
<1>2. CASE Known(m) # {}
  <2>1. /\ mqttErrors' = [mqttErrors EXCEPT ![Min(Known(m))].count = @ + 1]
        /\ mqttErrorsCount' = mqttErrorsCount
    BY <1>2 DEF OnError, UpdateMqttErrors
  <2>2. ASSUME NEW i, mqttErrors' = [mqttErrors EXCEPT ![i].count = @ + 1]
        PROVE  mqttErrors' \in [1 .. MAX_ERRORS -> Entry]
    <3>1. CASE i \in 1 .. MAX_ERRORS
      <4>1. mqttErrors[i] \in Entry
        BY <3>1
      <4>2. [mqttErrors[i] EXCEPT !.count = @ + 1] \in Entry
        BY <4>1, SMTT(30) DEF Entry
      <4> QED
        BY <2>2, <3>1, <4>2
    <3>2. CASE i \notin 1 .. MAX_ERRORS
      <4>1. mqttErrors' = mqttErrors
        BY <2>2, <3>2
      <4> QED
        BY <4>1
    <3> QED
      BY <3>1, <3>2
  <2> QED
    BY <1>1, <2>1, <2>2
<1>3. CASE Known(m) = {}
  <2>1. mqttErrorsCount' \in 1 .. MAX_ERRORS
    BY <1>3 DEF OnError, UpdateMqttErrors, IsFull
  <2>2. PICK list \in IF IsFull THEN MovedUp ELSE {mqttErrors} :
            mqttErrors' = [list EXCEPT ![mqttErrorsCount'] = [error |-> m, count |-> 1]]
    BY <1>3 DEF OnError, UpdateMqttErrors
  <2>3. list \in [1 .. MAX_ERRORS -> Entry]
    BY <2>2 DEF MovedUp
  <2>4. [error |-> m, count |-> 1] \in Entry
    BY DEF Entry, Texts
  <2> QED
    BY <1>1, <2>1, <2>2, <2>3, <2>4
<1> QED
  BY <1>2, <1>3

LEMMA ErrorInductive == Spec => []ErrorInv
<1>1. Init => ErrorInv
  <2> SUFFICES ASSUME Init PROVE ErrorInv
    OBVIOUS
  <2>1. Open = {}
    BY DEF Init, Open
  <2>2. Cardinality(Open) = 0
    BY <2>1, FS_EmptySet
  <2> QED
    <3>1. NoError \in Entry
      BY DEF NoError, Entry, Texts
    <3> QED
      BY <2>2, <3>1, BoundsAssumption DEF Init, ErrorInv, Listed, Known
<1>2. ErrorInv /\ [Next]_vars => ErrorInv'
  <2> SUFFICES ASSUME ErrorInv, [Next]_vars PROVE ErrorInv'
    OBVIOUS
  <2>1. CASE UNCHANGED <<mqttErrors, mqttErrorsCount, unpublished>>
    BY <2>1 DEF ErrorInv, Open, Listed, Known
  <2>2. CASE OnPublished
    <3>1. /\ mqttErrorsCount' = 0 /\ mqttErrors' = mqttErrors
          /\ unpublished' = [k \in Messages |-> 0]
      BY <2>2 DEF OnPublished
    <3>2. Open' = {} /\ Cardinality(Open') = 0
      BY <3>1, FS_EmptySet DEF Open
    <3> QED
      BY <3>1, <3>2, BoundsAssumption DEF ErrorInv, Listed, Known
  <2>3. ASSUME NEW m \in Messages, OnError(m) PROVE ErrorInv'
    <3>1. CASE Known(m) # {}
      <4>1. Open' = Open \/ unpublished[m] = 0
        BY <2>3 DEF OnError, Open, ErrorInv
      <4>2. Cardinality(Open') <= MAX_ERRORS => Cardinality(Open) <= MAX_ERRORS
        <5>1. CASE unpublished[m] = 0
          <6>1. Open' = Open \cup {m} /\ m \notin Open
            BY <2>3, <5>1 DEF OnError, Open, ErrorInv
          <6>2. Cardinality(Open') = Cardinality(Open) + 1
            BY <6>1, OpenFinite, FS_AddElement
          <6> QED
            BY <6>2, OpenFinite, BoundsAssumption
        <5> QED
          BY <4>1, <5>1
      <4> QED
        BY <2>3, <3>1, <4>2, KnownError, ErrorTypes DEF ErrorInv
    <3>2. CASE Known(m) = {}
      BY <2>3, <3>2, NewError, ErrorTypes DEF ErrorInv
    <3> QED
      BY <3>1, <3>2
  <2> QED
    BY <2>1, <2>2, <2>3 DEF Next, vars, mqttVars, errorVars, Pulse, Execute, StoreCount,
       ResetCounters, GeneratePayload, Publish, EndPublish, Mqtt, OnConnected, Receive,
       BrokerChanges
<1> QED
  BY <1>1, <1>2, PTL DEF Spec

\* storePulseCounts never writes an entry beyond countersStorage, however many outputs the
\* configuration names, nor updateMqttErrors one beyond the list of MQTT errors.
THEOREM InBounds == Spec => []TablesInBounds
<1>1. Inv => counterStorageCount <= TableSize
  BY BoundsAssumption DEF Inv
<1>2. ErrorInv => mqttErrorsCount \in 0 .. MAX_ERRORS
  BY DEF ErrorInv
<1> QED
  BY <1>1, <1>2, InvInductive, ErrorInductive, PTL DEF TablesInBounds

\* While it has room for all texts, the list of MQTT errors says how often each was reported
\* since the last acknowledged payload, for any number of texts and any size of the list.
THEOREM ErrorsCounted == Spec => []ErrorsAccounted
<1>1. ErrorInv => ErrorsAccounted
  BY DEF ErrorInv, ErrorsAccounted, Listed, Open
<1> QED
  BY <1>1, ErrorInductive, PTL
-----------------------------------------------------------------------------
(* A payload holds exactly what its run read of the counters the table has   *)
(* room for, for every configuration and table.                              *)
-----------------------------------------------------------------------------
(* The outputs of the first counters                                        *)

Outs(k) == {Counters[i].out : i \in 1 .. k}
Fits(o) == Cardinality(Outs(FirstOf(o))) < TableSize

LEMMA CounterType ==
    /\ Len(Counters) \in Nat
    /\ DOMAIN Counters = 1 .. Len(Counters)
    /\ \A i \in 1 .. Len(Counters) :
          /\ Counters[i] \in CounterConfig
          /\ Counters[i] \in Channels
          /\ Counters[i].in \in Inputs
          /\ Counters[i].out \in Nat
<1>1. /\ Len(Counters) \in Nat
      /\ DOMAIN Counters = 1 .. Len(Counters)
      /\ \A i \in 1 .. Len(Counters) : Counters[i] \in CounterConfig
  BY ConfigAssumption
<1>2. \A i \in 1 .. Len(Counters) : Counters[i] \in Channels
  BY <1>1 DEF Channels
<1>3. \A i \in 1 .. Len(Counters) : Counters[i].in \in Inputs
  <2>1. \A c \in Channels : c.in \in Inputs
    BY DEF Inputs
  <2> QED
    BY <1>2, <2>1
<1>4. \A i \in 1 .. Len(Counters) : Counters[i].out \in Nat
  BY <1>1 DEF CounterConfig
<1> QED
  BY <1>1, <1>2, <1>3, <1>4

\* Two counters of one output and one input are one channel.
LEMMA SameChannel ==
    ASSUME NEW i \in 1 .. Len(Counters), NEW j \in 1 .. Len(Counters),
           Counters[i].out = Counters[j].out, Counters[i].in = Counters[j].in
    PROVE  Counters[i] = Counters[j]
BY CounterType DEF CounterConfig

LEMMA OutsFinite ==
    ASSUME NEW k \in 0 .. Len(Counters)
    PROVE  IsFiniteSet(Outs(k)) /\ Cardinality(Outs(k)) \in Nat
<1> DEFINE f == [i \in 1 .. k |-> Counters[i].out]
<1>1. f \in Surjection(1 .. k, Outs(k))
  BY DEF Surjection, Outs
<1>2. IsFiniteSet(1 .. k)
  <2>1. 1 \in Int /\ k \in Int
    BY CounterType
  <2> QED
    BY <2>1, FS_Interval
<1>3. IsFiniteSet(Outs(k))
  BY <1>1, <1>2, FS_Surjection
<1> QED
  BY <1>3, FS_CardinalityType

\* One counter more: its output is new or it is not.
LEMMA NextOuts ==
    ASSUME NEW k \in 1 .. Len(Counters)
    PROVE  /\ Outs(k) = Outs(k - 1) \cup {Counters[k].out}
           /\ Cardinality(Outs(k)) =
                 IF Counters[k].out \in Outs(k - 1) THEN Cardinality(Outs(k - 1))
                 ELSE Cardinality(Outs(k - 1)) + 1
<1>1. k - 1 \in 0 .. Len(Counters)
  BY CounterType
<1>2. \A i : i \in 1 .. k <=> i \in 1 .. k - 1 \/ i = k
  BY CounterType
<1>3. Outs(k) = Outs(k - 1) \cup {Counters[k].out}
  BY <1>2 DEF Outs
<1> QED
  BY <1>1, <1>3, OutsFinite, FS_AddElement

LEMMA FirstOfType ==
    ASSUME NEW k \in 1 .. Len(Counters)
    PROVE  /\ FirstOf(Counters[k].out) \in 1 .. k
           /\ Counters[k].out \notin Outs(k - 1) => FirstOf(Counters[k].out) = k
<1> DEFINE S == {i \in DOMAIN Counters : Counters[i].out = Counters[k].out}
<1>1. S \subseteq Nat /\ k \in S
  BY CounterType
<1>2. Min(S) \in S /\ \A n \in S : Min(S) <= n
  BY <1>1, Smallest
<1>3. Min(S) \in 1 .. k
  BY <1>1, <1>2, CounterType
<1>4. Counters[k].out \notin Outs(k - 1) => Min(S) = k
  BY <1>1, <1>2, <1>3, CounterType DEF Outs
<1> QED
  BY <1>3, <1>4 DEF FirstOf

\* An output that was seen and does not fit has filled the table.
LEMMA NoFit ==
    ASSUME NEW k \in 0 .. Len(Counters), NEW o \in Outs(k), ~ Fits(o)
    PROVE  Cardinality(Outs(k)) >= TableSize
<1>1. PICK i \in 1 .. k : o = Counters[i].out
  BY DEF Outs
<1>2. FirstOf(o) \in 1 .. k
  BY <1>1, FirstOfType, CounterType
<1>3. Outs(FirstOf(o)) \in SUBSET Outs(k)
  BY <1>2, CounterType DEF Outs
<1>4. IsFiniteSet(Outs(k)) /\ Cardinality(Outs(k)) \in Nat
  BY OutsFinite
<1>5. Cardinality(Outs(FirstOf(o))) <= Cardinality(Outs(k))
  BY <1>3, <1>4, FS_Subset
<1>6. Cardinality(Outs(FirstOf(o))) \in Nat
  BY <1>2, OutsFinite, CounterType
<1> QED
  BY <1>4, <1>5, <1>6, BoundsAssumption DEF Fits

LEMMA FitsFirst ==
    ASSUME NEW k \in 1 .. Len(Counters), Counters[k].out \notin Outs(k - 1)
    PROVE  Fits(Counters[k].out) <=> Cardinality(Outs(k)) < TableSize
BY FirstOfType DEF Fits
-----------------------------------------------------------------------------
(* What the table holds while it is filled                                  *)

StorageEntry == [datetime : Nat, outputPort : Nat, counts : [Inputs -> Nat]]

BatchTypes ==
    /\ counterStorageCount \in 0 .. TableSize
    /\ run \in Nat
    /\ counter \in [Channels -> Nat]
    /\ batch \in [Channels -> Nat]
    /\ countersStorage \in [1 .. TableSize -> StorageEntry]
    /\ pc = "store" => next \in 1 .. Len(Counters) + 1

\* The outputs that have an entry.
Entries == {countersStorage[a].outputPort : a \in 1 .. counterStorageCount}

\* After the first k counters: one entry of this run for each of their outputs that fits, and
\* in it the values that were read.
HeldCount(k) ==
    counterStorageCount =
        IF Cardinality(Outs(k)) < TableSize THEN Cardinality(Outs(k)) ELSE TableSize - 1
HeldDates == \A a \in 1 .. counterStorageCount : countersStorage[a].datetime = run
HeldOnce ==
    \A a, b \in 1 .. counterStorageCount :
        countersStorage[a].outputPort = countersStorage[b].outputPort => a = b
HeldOutputs(k) == Entries = {o \in Outs(k) : Fits(o)}
HeldValues(k) ==
    \A i \in 1 .. k, a \in 1 .. counterStorageCount :
        countersStorage[a].outputPort = Counters[i].out =>
            countersStorage[a].counts[Counters[i].in] = batch[Counters[i]]

Held(k) ==
    HeldCount(k) /\ HeldDates /\ HeldOnce /\ HeldOutputs(k) /\ HeldValues(k)

\* What StoreCount does besides the table.
ReadNext ==
    /\ BatchTypes
    /\ pc = "store"
    /\ next \in 1 .. Len(Counters)
    /\ Held(next - 1)
    /\ run' = run
    /\ batch' = [batch EXCEPT ![Counters[next]] = counter[Counters[next]]]
    /\ next' = next + 1

LEMMA ReadNextFacts ==
    ASSUME ReadNext
    PROVE  /\ Counters[next] \in Channels
           /\ Counters[next].in \in Inputs
           /\ Counters[next].out \in Nat
           /\ counter[Counters[next]] \in Nat
           /\ next - 1 \in 0 .. Len(Counters)
           /\ next' - 1 = next
           /\ batch'[Counters[next]] = counter[Counters[next]]
           /\ \A d \in Channels : d # Counters[next] => batch'[d] = batch[d]
           /\ \A a \in 1 .. counterStorageCount : a \in 1 .. TableSize
           /\ \A a \in 1 .. TableSize : countersStorage[a] \in StorageEntry
<1>1. /\ Counters[next] \in Channels
      /\ Counters[next].in \in Inputs
      /\ Counters[next].out \in Nat
      /\ next - 1 \in 0 .. Len(Counters)
      /\ next' - 1 = next
  BY CounterType DEF ReadNext
<1>2. \A a \in 1 .. counterStorageCount : a \in 1 .. TableSize
  BY BoundsAssumption DEF ReadNext, BatchTypes
<1>3. \A a \in 1 .. TableSize : countersStorage[a] \in StorageEntry
  BY DEF ReadNext, BatchTypes
<1>4. /\ counter[Counters[next]] \in Nat
      /\ batch'[Counters[next]] = counter[Counters[next]]
      /\ \A d \in Channels : d # Counters[next] => batch'[d] = batch[d]
  BY <1>1 DEF ReadNext, BatchTypes
<1> QED
  BY <1>1, <1>2, <1>3, <1>4

\* Writing one count changes that count only.
LEMMA WriteCount ==
    ASSUME NEW r \in StorageEntry, NEW i \in Inputs, NEW n \in Nat,
           NEW w, w = [r EXCEPT !.counts[i] = n]
    PROVE  /\ w \in StorageEntry
           /\ w.datetime = r.datetime
           /\ w.outputPort = r.outputPort
           /\ w.counts[i] = n
           /\ \A j \in Inputs : j # i => w.counts[j] = r.counts[j]
<1>1. [r.counts EXCEPT ![i] = n] \in [Inputs -> Nat]
  BY DEF StorageEntry
<1> QED
  BY <1>1 DEF StorageEntry

\* A counter whose output has an entry is written there.
LEMMA StoreSame ==
    ASSUME ReadNext,
           NEW e \in 1 .. counterStorageCount,
           countersStorage[e].outputPort = Counters[next].out,
           NEW entry,
           entry = [countersStorage[e] EXCEPT !.counts[Counters[next].in] = counter[Counters[next]]],
           countersStorage' = [countersStorage EXCEPT ![e] = entry],
           counterStorageCount' = counterStorageCount
    PROVE  Held(next - 1)' /\ countersStorage' \in [1 .. TableSize -> StorageEntry]
<1> DEFINE c == Counters[next]
<1>1. /\ entry \in StorageEntry
      /\ entry.datetime = countersStorage[e].datetime
      /\ entry.outputPort = countersStorage[e].outputPort
      /\ entry.counts[c.in] = counter[c]
      /\ \A j \in Inputs : j # c.in => entry.counts[j] = countersStorage[e].counts[j]
  <2>1. countersStorage[e] \in StorageEntry
    BY ReadNextFacts
  <2>2. c.in \in Inputs /\ counter[c] \in Nat
    BY ReadNextFacts
  <2>3. entry = [countersStorage[e] EXCEPT !.counts[c.in] = counter[c]]
    OBVIOUS
  <2> HIDE DEF c
  <2> QED
    BY ONLY <2>1, <2>2, <2>3, WriteCount
<1>3. /\ countersStorage' \in [1 .. TableSize -> StorageEntry]
      /\ \A a \in 1 .. TableSize : countersStorage'[a] = IF a = e THEN entry ELSE countersStorage[a]
  BY <1>1, ReadNextFacts DEF ReadNext, BatchTypes
<1>4. \A a \in 1 .. counterStorageCount :
          /\ countersStorage'[a].datetime = countersStorage[a].datetime
          /\ countersStorage'[a].outputPort = countersStorage[a].outputPort
  BY <1>1, <1>3, ReadNextFacts
<1>5. Outs(next) = Outs(next - 1)
  <2>1. c.out \in Entries
    BY DEF Entries
  <2>2. c.out \in Outs(next - 1)
    BY <2>1 DEF ReadNext, Held, HeldOutputs
  <2>3. Outs(next) = Outs(next - 1) \cup {c.out}
    BY NextOuts DEF ReadNext
  <2> QED
    BY <2>2, <2>3
<1>6. (HeldCount(next - 1) /\ HeldDates /\ HeldOnce)'
  BY <1>4, <1>5, ReadNextFacts DEF ReadNext, Held, HeldCount, HeldDates, HeldOnce
<1>7. HeldOutputs(next - 1)'
  <2>1. Entries' = Entries
    BY <1>4 DEF Entries
  <2> QED
    BY <1>5, <2>1, ReadNextFacts DEF ReadNext, Held, HeldOutputs
<1>8. ASSUME NEW i \in 1 .. next, NEW a \in 1 .. counterStorageCount,
             countersStorage'[a].outputPort = Counters[i].out
      PROVE  countersStorage'[a].counts[Counters[i].in] = batch'[Counters[i]]
  <2>1. i \in 1 .. Len(Counters) /\ Counters[i].in \in Inputs /\ Counters[i] \in Channels
    BY CounterType DEF ReadNext
  <2>2. countersStorage[a].outputPort = Counters[i].out /\ a \in 1 .. TableSize
    BY <1>4, <1>8, ReadNextFacts
  <2>3. CASE Counters[i] = c
    <3>1. a = e
      BY <2>2, <2>3 DEF ReadNext, Held, HeldOnce
    <3> QED
      BY <1>1, <1>3, <2>2, <2>3, <3>1, ReadNextFacts
  <2>4. CASE Counters[i] # c
    <3>1. i \in 1 .. next - 1
      BY <2>4, CounterType DEF ReadNext
    <3>2. countersStorage[a].counts[Counters[i].in] = batch[Counters[i]]
      BY <2>2, <3>1 DEF ReadNext, Held, HeldValues
    <3>3. a = e => Counters[i].in # c.in
      BY <2>1, <2>2, <2>4, SameChannel DEF ReadNext
    <3> QED
      BY <1>1, <1>3, <2>1, <2>2, <2>4, <3>2, <3>3, ReadNextFacts
  <2> QED
    BY <2>3, <2>4
<1>9. HeldValues(next - 1)'
  BY <1>8, ReadNextFacts DEF HeldValues
<1> QED
  BY <1>3, <1>6, <1>7, <1>9 DEF Held

\* A counter whose output has no entry opens one, if there is room.
LEMMA StoreNew ==
    ASSUME ReadNext,
           Counters[next].out \notin Entries,
           HasRoom,
           NEW entry \in StorageEntry,
           entry.datetime = run,
           entry.outputPort = Counters[next].out,
           entry.counts[Counters[next].in] = counter[Counters[next]],
           counterStorageCount' = counterStorageCount + 1,
           countersStorage' = [countersStorage EXCEPT ![counterStorageCount + 1] = entry]
    PROVE  Held(next - 1)' /\ countersStorage' \in [1 .. TableSize -> StorageEntry]
<1> DEFINE c == Counters[next]
           e == counterStorageCount + 1
           card == Cardinality(Outs(next - 1))
<1>1. counterStorageCount \in Nat /\ e \in 1 .. TableSize
  <2>1. counterStorageCount \in 0 .. TableSize
    BY DEF ReadNext, BatchTypes
  <2> QED
    BY <2>1, BoundsAssumption DEF HasRoom
<1>5. /\ countersStorage' \in [1 .. TableSize -> StorageEntry]
      /\ countersStorage'[e] = entry
      /\ \A a \in 1 .. counterStorageCount : a # e /\ countersStorage'[a] = countersStorage[a]
  BY <1>1, ReadNextFacts DEF ReadNext, BatchTypes
<1>6. 1 .. counterStorageCount' = (1 .. counterStorageCount) \cup {e}
  BY <1>1
<1>7. card \in Nat /\ counterStorageCount = card /\ card < TableSize - 1
  <2>1. card \in Nat
    BY OutsFinite, ReadNextFacts
  <2>2. counterStorageCount = IF card < TableSize THEN card ELSE TableSize - 1
    BY DEF ReadNext, Held, HeldCount
  <2> QED
    BY <2>1, <2>2, BoundsAssumption DEF HasRoom
<1>8. c.out \notin Outs(next - 1)
  <2>1. SUFFICES ASSUME c.out \in Outs(next - 1) PROVE FALSE
    OBVIOUS
  <2>2. ~ Fits(c.out)
    BY <2>1 DEF ReadNext, Held, HeldOutputs
  <2>3. card >= TableSize
    BY <2>1, <2>2, NoFit, ReadNextFacts
  <2> QED
    BY <1>7, <2>3, BoundsAssumption
<1>9. /\ Outs(next) = Outs(next - 1) \cup {c.out}
      /\ Cardinality(Outs(next)) = card + 1
  BY <1>8, NextOuts DEF ReadNext
<1>10. Fits(c.out)
  <2>1. Fits(c.out) <=> Cardinality(Outs(next)) < TableSize
    BY <1>8, FitsFirst DEF ReadNext
  <2> QED
    BY <1>7, <1>9, <2>1, BoundsAssumption
<1>11. (HeldCount(next - 1) /\ HeldDates /\ HeldOnce)'
  <2>1. HeldCount(next - 1)'
    <3>1. counterStorageCount' = card + 1 /\ Cardinality(Outs(next)) = card + 1
          /\ card + 1 < TableSize
      BY <1>7, <1>9, BoundsAssumption
    <3> QED
      BY <3>1, ReadNextFacts DEF HeldCount
  <2>2. HeldDates'
    BY <1>5, <1>6 DEF ReadNext, Held, HeldDates
  <2>3. \A a \in 1 .. counterStorageCount : countersStorage[a].outputPort # c.out
    BY DEF Entries
  <2>4. HeldOnce'
    <3>1. \A a, b \in 1 .. counterStorageCount :
              countersStorage[a].outputPort = countersStorage[b].outputPort => a = b
      BY DEF ReadNext, Held, HeldOnce
    <3>2. \A a \in 1 .. counterStorageCount :
              countersStorage'[a].outputPort = countersStorage[a].outputPort
      BY <1>5
    <3>3. countersStorage'[e].outputPort = c.out
      BY <1>5
    <3> QED
      BY <1>6, <2>3, <3>1, <3>2, <3>3 DEF HeldOnce
  <2> QED
    BY <2>1, <2>2, <2>4
<1>12. HeldOutputs(next - 1)'
  <2>1. Entries' = Entries \cup {c.out}
    <3>1. Entries' = {countersStorage'[a].outputPort : a \in (1 .. counterStorageCount) \cup {e}}
      BY <1>6 DEF Entries
    <3>2. \A a \in 1 .. counterStorageCount :
              countersStorage'[a].outputPort = countersStorage[a].outputPort
      BY <1>5
    <3>3. countersStorage'[e].outputPort = c.out
      BY <1>5
    <3>4. Entries' \subseteq Entries \cup {c.out}
      BY <3>1, <3>2, <3>3 DEF Entries
    <3>5. Entries \subseteq Entries'
      BY <3>1, <3>2 DEF Entries
    <3>6. c.out \in Entries'
      BY <3>1, <3>3
    <3> QED
      BY <3>4, <3>5, <3>6
  <2>2. Entries = {o \in Outs(next - 1) : Fits(o)}
    BY DEF ReadNext, Held, HeldOutputs
  <2> QED
    BY <1>9, <1>10, <2>1, <2>2, ReadNextFacts DEF HeldOutputs
<1>13. ASSUME NEW i \in 1 .. next, NEW a \in 1 .. counterStorageCount',
              countersStorage'[a].outputPort = Counters[i].out
       PROVE  countersStorage'[a].counts[Counters[i].in] = batch'[Counters[i]]
  <2>1. CASE i = next
    <3>1. a = e
      <4>1. SUFFICES ASSUME a \in 1 .. counterStorageCount PROVE FALSE
        BY <1>6
      <4>2. countersStorage[a].outputPort = c.out
        BY <1>5, <1>13, <2>1, <4>1
      <4> QED
        BY <4>1, <4>2 DEF Entries
    <3> QED
      BY <1>5, <2>1, <3>1, ReadNextFacts
  <2>2. CASE i # next
    <3>1. i \in 1 .. next - 1 /\ Counters[i] \in Channels
      BY <2>2, CounterType DEF ReadNext
    <3>2. Counters[i].out \in Outs(next - 1)
      BY <3>1 DEF Outs
    <3>3. Counters[i].out # c.out
      BY <1>8, <3>2
    <3>4. a \in 1 .. counterStorageCount
      BY <1>5, <1>6, <1>13, <3>3
    <3>5. countersStorage[a].counts[Counters[i].in] = batch[Counters[i]]
      BY <1>5, <1>13, <3>1, <3>4 DEF ReadNext, Held, HeldValues
    <3> QED
      BY <1>5, <3>1, <3>3, <3>4, <3>5, ReadNextFacts
  <2> QED
    BY <2>1, <2>2
<1>14. HeldValues(next - 1)'
  BY <1>13, ReadNextFacts DEF HeldValues
<1> QED
  BY <1>5, <1>11, <1>12, <1>14 DEF Held

\* The table is full: a counter of another output is dropped.
LEMMA StoreNowhere ==
    ASSUME ReadNext,
           Counters[next].out \notin Entries,
           ~ HasRoom,
           UNCHANGED storageVars
    PROVE  Held(next - 1)'
<1> DEFINE c == Counters[next]
           card == Cardinality(Outs(next - 1))
<1> USE DEF storageVars
<1>1. card \in Nat /\ counterStorageCount = TableSize - 1 /\ card >= TableSize - 1
  <2>1. card \in Nat
    BY OutsFinite, ReadNextFacts
  <2>2. counterStorageCount = IF card < TableSize THEN card ELSE TableSize - 1
    BY DEF ReadNext, Held, HeldCount
  <2>3. counterStorageCount \in Nat /\ ~ (counterStorageCount < TableSize - 1)
    BY BoundsAssumption DEF ReadNext, BatchTypes, HasRoom
  <2> QED
    BY <2>1, <2>2, <2>3, BoundsAssumption
<1>2. /\ Outs(next) = Outs(next - 1) \cup {c.out}
      /\ ~ Fits(c.out)
      /\ Cardinality(Outs(next)) \in Nat
      /\ Cardinality(Outs(next)) >= TableSize
  <2>1. CASE c.out \in Outs(next - 1)
    <3>1. ~ Fits(c.out)
      BY <2>1 DEF ReadNext, Held, HeldOutputs
    <3>2. card >= TableSize
      BY <2>1, <3>1, NoFit, ReadNextFacts
    <3>3. /\ Outs(next) = Outs(next - 1) \cup {c.out}
          /\ Cardinality(Outs(next)) = card
      BY <2>1, NextOuts DEF ReadNext
    <3> QED
      BY <1>1, <3>1, <3>2, <3>3
  <2>2. CASE c.out \notin Outs(next - 1)
    <3>1. /\ Outs(next) = Outs(next - 1) \cup {c.out}
          /\ Cardinality(Outs(next)) = card + 1
      BY <2>2, NextOuts DEF ReadNext
    <3>2. Fits(c.out) <=> Cardinality(Outs(next)) < TableSize
      BY <2>2, FitsFirst DEF ReadNext
    <3> QED
      BY <1>1, <3>1, <3>2, BoundsAssumption
  <2> QED
    BY <2>1, <2>2
<1>3. (HeldCount(next - 1) /\ HeldDates /\ HeldOnce)'
  <2>1. HeldCount(next - 1)'
    <3>1. counterStorageCount' = TableSize - 1 /\ ~ (Cardinality(Outs(next)) < TableSize)
      BY <1>1, <1>2, BoundsAssumption
    <3> QED
      BY <3>1, ReadNextFacts DEF HeldCount
  <2> QED
    BY <2>1 DEF ReadNext, Held, HeldDates, HeldOnce
<1>4. HeldOutputs(next - 1)'
  <2>1. Entries' = Entries
    BY DEF Entries
  <2>2. Entries = {o \in Outs(next - 1) : Fits(o)}
    BY DEF ReadNext, Held, HeldOutputs
  <2> QED
    BY <1>2, <2>1, <2>2, ReadNextFacts DEF HeldOutputs
<1>5. ASSUME NEW i \in 1 .. next, NEW a \in 1 .. counterStorageCount,
             countersStorage[a].outputPort = Counters[i].out
      PROVE  countersStorage[a].counts[Counters[i].in] = batch'[Counters[i]]
  <2>1. Counters[i].out # c.out
    BY <1>5 DEF Entries
  <2>2. i \in 1 .. next - 1 /\ Counters[i] \in Channels /\ Counters[i] # c
    BY <2>1, CounterType DEF ReadNext
  <2>3. countersStorage[a].counts[Counters[i].in] = batch[Counters[i]]
    BY <1>5, <2>2 DEF ReadNext, Held, HeldValues
  <2> QED
    BY <2>2, <2>3, ReadNextFacts
<1>6. HeldValues(next - 1)'
  BY <1>5, ReadNextFacts DEF HeldValues
<1> QED
  BY <1>3, <1>4, <1>6 DEF Held
-----------------------------------------------------------------------------
(* The payload                                                              *)

\* From a table that holds all counters the payload takes each that fits, once.
LEMMA ValuesOfHeld ==
    ASSUME BatchTypes, Held(Len(Counters))
    PROVE  Values = {<<c, batch[c]>> : c \in Stored}
<1>1. ASSUME NEW c \in Channels
      PROVE  c \in Stored <=> \E a \in 1 .. counterStorageCount : countersStorage[a].outputPort = c.out
  <2>1. c.out \in Outs(Len(Counters))
    BY CounterType DEF Channels, Outs
  <2>2. c.out \in Entries <=> Fits(c.out)
    BY <2>1 DEF Held, HeldOutputs
  <2>3. c \in Stored <=> Fits(c.out)
    BY DEF Stored, Fits, Outs
  <2> QED
    BY <2>2, <2>3 DEF Entries
<1>2. ASSUME NEW c \in Channels, NEW a \in 1 .. counterStorageCount,
             countersStorage[a].outputPort = c.out
      PROVE  countersStorage[a].counts[c.in] = batch[c]
  <2>1. PICK i \in 1 .. Len(Counters) : c = Counters[i]
    BY CounterType DEF Channels
  <2> QED
    BY <1>2, <2>1 DEF Held, HeldValues
<1>3. ASSUME NEW v \in Values PROVE v \in {<<c, batch[c]>> : c \in Stored}
  <2>1. PICK a \in 1 .. counterStorageCount :
            v \in {<<c, countersStorage[a].counts[c.in]>> :
                      c \in {d \in Channels : d.out = countersStorage[a].outputPort}}
    BY <1>3 DEF Values
  <2>2. PICK c \in Channels : /\ c.out = countersStorage[a].outputPort
                              /\ v = <<c, countersStorage[a].counts[c.in]>>
    BY <2>1
  <2>3. v = <<c, batch[c]>> /\ c \in Stored
    BY <1>1, <1>2, <2>2
  <2> QED
    BY <2>3
<1>4. ASSUME NEW c \in Stored PROVE <<c, batch[c]>> \in Values
  <2>1. c \in Channels
    BY DEF Stored
  <2>2. PICK a \in 1 .. counterStorageCount : countersStorage[a].outputPort = c.out
    BY <1>1, <2>1
  <2>3. <<c, batch[c]>> = <<c, countersStorage[a].counts[c.in]>>
    BY <1>2, <2>1, <2>2
  <2>4. <<c, batch[c]>> \in {<<d, countersStorage[a].counts[d.in]>> :
                              d \in {d \in Channels : d.out = countersStorage[a].outputPort}}
    BY <2>1, <2>2, <2>3
  <2> QED
    BY <2>4 DEF Values
<1> QED
  BY <1>3, <1>4

\* The table while it is filled, the payload when it is published.
PayloadInv ==
    /\ BatchTypes
    /\ pc = "store" => Held(next - 1)
    /\ pc = "payload" => Held(Len(Counters))
    /\ PayloadIsBatch

\* What the invariant reads besides the counters.
heldVars == <<storageVars, runVars>>

LEMMA HeldUnchanged ==
    ASSUME PayloadInv, UNCHANGED heldVars, counter' \in [Channels -> Nat]
    PROVE  PayloadInv'
<1> USE DEF heldVars, storageVars, runVars
<1>1. BatchTypes'
  BY DEF PayloadInv, BatchTypes
<1>2. \A k : Held(k) => Held(k)'
  BY DEF Held, HeldCount, HeldDates, HeldOnce, HeldOutputs, HeldValues, Entries
<1>3. (pc = "store" => Held(next - 1))'
  BY <1>2 DEF PayloadInv, Held, HeldCount, HeldDates, HeldOnce, HeldOutputs, HeldValues, Entries
<1>4. (pc = "payload" => Held(Len(Counters)))'
  BY <1>2 DEF PayloadInv
<1>5. PayloadIsBatch'
  BY DEF PayloadInv, PayloadIsBatch
<1> QED
  BY <1>1, <1>3, <1>4, <1>5 DEF PayloadInv

\* The loop's body of storePulseCounts.
LEMMA StoreHolds ==
    ASSUME PayloadInv, StoreCount
    PROVE  Held(next - 1)' /\ BatchTypes'
<1> DEFINE c == Counters[next]
           same == {a \in 1 .. counterStorageCount : SameEntry(countersStorage[a], c)}
<1>1. ReadNext
  BY CounterType DEF PayloadInv, StoreCount, ReadNext
<1>2. same = {a \in 1 .. counterStorageCount : countersStorage[a].outputPort = c.out}
  BY <1>1 DEF ReadNext, Held, HeldDates, SameEntry
<1>3. counterStorageCount \in 0 .. TableSize /\ counterStorageCount \in Nat
  BY BoundsAssumption DEF PayloadInv, BatchTypes
<1>4. SUFFICES /\ Held(next - 1)'
               /\ countersStorage' \in [1 .. TableSize -> StorageEntry]
               /\ counterStorageCount' \in 0 .. TableSize
  <2>1. batch' \in [Channels -> Nat]
    BY <1>1, ReadNextFacts DEF PayloadInv, BatchTypes, StoreCount
  <2> QED
    BY <2>1, CounterType, SMTT(30) DEF PayloadInv, BatchTypes, StoreCount
<1>5. CASE same # {}
  <2>1. PICK e \in 1 .. counterStorageCount : countersStorage[e].outputPort = c.out
    BY <1>2, <1>5
  <2>2. same = {e}
    BY <1>1, <1>2, <2>1 DEF ReadNext, Held, HeldOnce
  <2>3. Min(same) = e
    BY <1>3, <2>2, MinOfOne
  <2>4. /\ countersStorage' = [countersStorage EXCEPT ![Min(same)].counts[c.in] = counter[c]]
        /\ counterStorageCount' = counterStorageCount
    BY <1>5 DEF StoreCount
  <2>5. PICK entry : entry = [countersStorage[e] EXCEPT !.counts[c.in] = counter[c]]
    OBVIOUS
  <2>6. countersStorage' = [countersStorage EXCEPT ![e] = entry]
    BY ONLY <2>3, <2>4, <2>5
  <2> QED
    BY <1>1, <1>3, <2>1, <2>4, <2>5, <2>6, StoreSame
<1>6. CASE same = {} /\ HasRoom
  <2>1. c.out \notin Entries
    BY <1>2, <1>6 DEF Entries
  <2> DEFINE e == counterStorageCount + 1
  <2>3. /\ countersStorage' =
              [countersStorage EXCEPT ![e].datetime = run,
                                      ![e].outputPort = c.out,
                                      ![e].counts[c.in] = counter[c]]
        /\ counterStorageCount' = e
    BY <1>6 DEF StoreCount
  <2>4. e \in 1 .. TableSize
    BY <1>3, <1>6, BoundsAssumption DEF HasRoom
  <2>5. countersStorage \in [1 .. TableSize -> StorageEntry]
    BY DEF PayloadInv, BatchTypes
  <2>6. /\ run \in Nat /\ c.out \in Nat /\ c.in \in Inputs /\ counter[c] \in Nat
    BY <1>1, ReadNextFacts DEF PayloadInv, BatchTypes
  <2>7. PICK entry : /\ entry \in StorageEntry
                     /\ entry.datetime = run
                     /\ entry.outputPort = c.out
                     /\ entry.counts[c.in] = counter[c]
                     /\ countersStorage' = [countersStorage EXCEPT ![e] = entry]
    <3> HIDE DEF c, e
    <3> DEFINE dated == [countersStorage[e] EXCEPT !.datetime = run]
               named == [dated EXCEPT !.outputPort = c.out]
               entry == [named EXCEPT !.counts[c.in] = counter[c]]
    <3>1. countersStorage' =
            [[[countersStorage EXCEPT ![e] = dated] EXCEPT ![e] = named] EXCEPT ![e] = entry]
      BY ONLY <2>3, <2>4, <2>5
    <3>2. /\ named \in StorageEntry
          /\ named.datetime = run
          /\ named.outputPort = c.out
      BY ONLY <2>4, <2>5, <2>6 DEF StorageEntry
    <3>3. PICK r : r = named
      OBVIOUS
    <3>4. PICK w : w = [r EXCEPT !.counts[c.in] = counter[c]]
      OBVIOUS
    <3>5. w = entry
      BY ONLY <3>3, <3>4
    <3>6. r \in StorageEntry /\ r.datetime = run /\ r.outputPort = c.out
      BY <3>2, <3>3
    <3>7. /\ w \in StorageEntry
          /\ w.datetime = run
          /\ w.outputPort = c.out
          /\ w.counts[c.in] = counter[c]
      BY ONLY <2>6, <3>4, <3>6, WriteCount
    <3> HIDE DEF dated, named, entry
    <3>8. countersStorage' = [countersStorage EXCEPT ![e] = w]
      BY ONLY <2>4, <2>5, <3>1, <3>5
    <3> QED
      BY <3>7, <3>8
  <2>8. counterStorageCount' \in 0 .. TableSize
    BY <2>3, <2>4
  <2> QED
    BY <1>1, <1>6, <2>1, <2>3, <2>7, <2>8, StoreNew
<1>7. CASE same = {} /\ ~ HasRoom
  <2>1. c.out \notin Entries
    BY <1>2, <1>7 DEF Entries
  <2>2. UNCHANGED storageVars
    BY <1>7 DEF StoreCount
  <2>3. countersStorage' = countersStorage /\ counterStorageCount' = counterStorageCount
    BY <2>2 DEF storageVars
  <2> QED
    BY <1>1, <1>3, <1>7, <2>1, <2>2, <2>3, StoreNowhere DEF PayloadInv, BatchTypes
<1> QED
  BY <1>5, <1>6, <1>7

LEMMA PayloadInductive == Spec => []PayloadInv
<1>1. Init => PayloadInv
  <2> SUFFICES ASSUME Init PROVE PayloadInv
    OBVIOUS
  <2>1. countersStorage \in [1 .. TableSize -> StorageEntry]
    BY DEF Init, StorageEntry
  <2> QED
    BY <2>1, BoundsAssumption DEF Init, PayloadInv, BatchTypes, PayloadIsBatch
<1>2. PayloadInv /\ Inv /\ [Next]_vars => PayloadInv'
  <2> SUFFICES ASSUME PayloadInv, Inv, [Next]_vars PROVE PayloadInv'
    OBVIOUS
  <2>1. ASSUME NEW c \in Channels, Pulse(c) PROVE PayloadInv'
    <3>1. counter' \in [Channels -> Nat]
      BY <2>1 DEF Pulse, PayloadInv, BatchTypes
    <3> QED
      BY <2>1, <3>1, HeldUnchanged DEF Pulse, heldVars
  <2>2. CASE Execute
    <3>1. Outs(0) = {} /\ Cardinality(Outs(0)) = 0
      BY FS_EmptySet DEF Outs
    <3>2. counterStorageCount' = 0 /\ next' - 1 = 0 /\ pc' = "store"
      BY <2>2 DEF Execute, Inv, storageVars
    <3>3. Entries' = {}
      BY <3>2 DEF Entries
    <3>4. Held(next - 1)'
      BY <3>1, <3>2, <3>3, BoundsAssumption
         DEF Held, HeldCount, HeldDates, HeldOnce, HeldOutputs, HeldValues
    <3>5. BatchTypes'
      BY <2>2, CounterType DEF Execute, PayloadInv, BatchTypes, storageVars
    <3> QED
      BY <3>2, <3>4, <3>5 DEF PayloadInv, PayloadIsBatch
  <2>3. CASE StoreCount
    <3>1. pc' = "store"
      BY <2>3 DEF StoreCount
    <3> QED
      BY <2>3, <3>1, StoreHolds DEF PayloadInv, PayloadIsBatch
  <2>4. CASE ResetCounters
    <3>1. /\ pc' = "payload"
          /\ BatchTypes'
      BY <2>4 DEF ResetCounters, CountersReset, PayloadInv, BatchTypes, storageVars
    <3>2. Held(Len(Counters))
      BY <2>4, CounterType DEF ResetCounters, PayloadInv
    <3>3. Held(Len(Counters))'
      BY <2>4, <3>2 DEF ResetCounters, storageVars,
         Held, HeldCount, HeldDates, HeldOnce, HeldOutputs, HeldValues, Entries
    <3> QED
      BY <3>1, <3>3 DEF PayloadInv, PayloadIsBatch
  <2>5. CASE GeneratePayload
    <3>1. payload'.values = Values /\ pc' = "publish" /\ batch' = batch
      BY <2>5 DEF GeneratePayload
    <3>2. Values = {<<c, batch[c]>> : c \in Stored}
      BY <2>5, ValuesOfHeld DEF GeneratePayload, PayloadInv
    <3>3. BatchTypes'
      BY <2>5, BoundsAssumption
         DEF GeneratePayload, StoredAfterPayload, PayloadInv, BatchTypes
    <3> QED
      BY <3>1, <3>2, <3>3 DEF PayloadInv, PayloadIsBatch
  <2>6. CASE Publish
    <3>1. BatchTypes' /\ pc' \in {"idle", "sleep"}
      BY <2>6 DEF Publish, PublishNotStarted, PublishStarted, PayloadInv, BatchTypes, storageVars
    <3> QED
      BY <3>1 DEF PayloadInv, PayloadIsBatch
  <2>7. CASE EndPublish
    <3>1. BatchTypes' /\ pc' = "idle"
      BY <2>7 DEF EndPublish, PayloadInv, BatchTypes, storageVars
    <3> QED
      BY <3>1 DEF PayloadInv, PayloadIsBatch
  <2>8. CASE OnPublished \/ \E m \in Messages : OnError(m)
    <3>1. pc' = "sleep" /\ BatchTypes'
      BY <2>8, BoundsAssumption
         DEF OnPublished, OnError, Reset, Inv, PayloadInv, BatchTypes, runVars
    <3> QED
      BY <3>1 DEF PayloadInv, PayloadIsBatch
  <2>9. CASE OnConnected \/ Receive \/ BrokerChanges \/ UNCHANGED vars
    <3>1. counter' = counter /\ UNCHANGED heldVars
      BY <2>9 DEF OnConnected, Receive, BrokerChanges, vars, heldVars
    <3> QED
      BY <3>1, HeldUnchanged DEF PayloadInv, BatchTypes
  <2> QED
    BY <2>1, <2>2, <2>3, <2>4, <2>5, <2>6, <2>7, <2>8, <2>9 DEF Next, Mqtt
<1> QED
  BY <1>1, <1>2, InvInductive, PTL DEF Spec

\* A payload holds exactly the values that its run read, one of each counter there is room
\* for, whatever the configuration, the size of the table and what earlier runs left in it.
THEOREM PayloadsAreBatches == Spec => []PayloadIsBatch
<1>1. PayloadInv => PayloadIsBatch
  BY DEF PayloadInv
<1> QED
  BY <1>1, PayloadInductive, PTL
-----------------------------------------------------------------------------
(* What all payloads together say of a channel                               *)

\* The counts of a run that are neither in a counter nor with the broker: from the reset
\* until the broker has the payload, or nobody ever will.
OnTheWay ==
    \/ pc \in {"payload", "publish"}
    \/ pc = "sleep" /\ mqttClient \in {"connecting", "published"}
Pending(c) == IF OnTheWay THEN batch[c] ELSE 0

\* A pulse is in the counter, on the way or with the broker, in one of them only.
DeliverInv ==
    /\ pulses \in [Channels -> Nat]
    /\ delivered \in [Channels -> Nat]
    /\ pc = "sleep" => payload.values = {<<c, batch[c]>> : c \in Stored}
    /\ pc = "store" => \A i \in 1 .. next - 1 : batch[Counters[i]] <= counter[Counters[i]]
    /\ \A c \in Channels : delivered[c] + counter[c] + Pending(c) <= pulses[c]

LEMMA MaxOfTwo == ASSUME NEW n \in Nat PROVE Max({0} \cup {n}) = n
<1>1. n \in {0} \cup {n} /\ \A y \in {0} \cup {n} : n >= y
  OBVIOUS
<1>2. \A x \in {0} \cup {n} : (\A y \in {0} \cup {n} : x >= y) => x = n
  OBVIOUS
<1> QED
  BY <1>1, <1>2 DEF Max

\* Of a channel in it the payload says what the run read, of the others nothing.
LEMMA ValueOfBatch ==
    ASSUME NEW p, NEW c \in Channels, batch \in [Channels -> Nat],
           p.values = {<<d, batch[d]>> : d \in Stored}
    PROVE  ValueOf(p, c) = IF c \in Stored THEN batch[c] ELSE 0
<1> DEFINE V == {v[2] : v \in {w \in p.values : w[1] = c}}
<1>1. batch[c] \in Nat
  OBVIOUS
<1>2. CASE c \in Stored
  <2>1. {w \in p.values : w[1] = c} = {<<c, batch[c]>>}
    BY <1>2
  <2>2. PICK w : w = <<c, batch[c]>>
    OBVIOUS
  <2>3. w[2] = batch[c]
    BY <2>2
  <2>4. V = {batch[c]}
    <3>1. V = {v[2] : v \in {w}}
      BY <2>1, <2>2
    <3> HIDE DEF V
    <3> QED
      BY <2>3, <3>1
  <2> QED
    BY <1>1, <1>2, <2>4, MaxOfTwo DEF ValueOf
<1>3. CASE c \notin Stored
  <2>1. {w \in p.values : w[1] = c} = {}
    BY <1>3
  <2>2. V = {}
    BY <2>1
  <2>3. {0} \cup V = {0} \cup {0}
    BY <2>2
  <2>4. Max({0} \cup V) = 0
    BY <2>3, MaxOfTwo
  <2> QED
    BY <1>3, <2>4 DEF ValueOf
<1> QED
  BY <1>2, <1>3

LEMMA DeliverInductive == Spec => []DeliverInv
<1>1. Init => DeliverInv
  BY DEF Init, DeliverInv, Pending, OnTheWay
<1>2. DeliverInv /\ PayloadInv /\ Inv /\ [Next]_vars => DeliverInv'
  <2> SUFFICES ASSUME DeliverInv, PayloadInv, Inv, [Next]_vars PROVE DeliverInv'
    OBVIOUS
  <2>0. /\ counter \in [Channels -> Nat] /\ batch \in [Channels -> Nat]
        /\ \A c \in Channels : Pending(c) \in Nat
    BY DEF PayloadInv, BatchTypes, Pending
  <2>1. ASSUME NEW c \in Channels, Pulse(c) PROVE DeliverInv'
    <3>1. UNCHANGED <<pc, next, payload, batch, mqttClient, delivered>>
      BY <2>1 DEF Pulse, runVars, mqttVars, brokerVars
    <3>2. /\ pulses' = [pulses EXCEPT ![c] = @ + 1]
          /\ counter' = [counter EXCEPT ![c] = @ + 1]
      BY <2>1 DEF Pulse
    <3>3. \A d \in Channels : counter[d] <= counter'[d] /\ Pending(d)' = Pending(d)
      BY <2>0, <3>1, <3>2 DEF Pending, OnTheWay
    <3>4. pc = "store" => \A i \in 1 .. next - 1 : Counters[i] \in Channels
      BY CounterType DEF PayloadInv, BatchTypes
    <3>5. pc' = "store" => \A i \in 1 .. next' - 1 : batch'[Counters[i]] <= counter'[Counters[i]]
      BY <2>0, <3>1, <3>2, <3>3, <3>4 DEF DeliverInv
    <3>6. \A d \in Channels : delivered'[d] + counter'[d] + Pending(d)' <= pulses'[d]
      BY <2>0, <3>1, <3>2, <3>3 DEF DeliverInv
    <3> QED
      BY <3>1, <3>2, <3>5, <3>6 DEF DeliverInv
  <2>2. CASE Execute
    BY <2>2 DEF Execute, DeliverInv, Pending, OnTheWay, mqttVars, brokerVars
  <2>3. CASE StoreCount
    <3>1. /\ next \in 1 .. Len(Counters) /\ pc' = "store" /\ pc = "store" /\ next' = next + 1
          /\ batch' = [batch EXCEPT ![Counters[next]] = counter[Counters[next]]]
          /\ UNCHANGED <<counter, pulses, delivered, mqttClient>>
      BY <2>3, CounterType DEF StoreCount, mqttVars, brokerVars
    <3>2. \A i \in 1 .. next : Counters[i] \in Channels
      BY <3>1, CounterType
    <3>3. ASSUME NEW i \in 1 .. next PROVE batch'[Counters[i]] <= counter[Counters[i]]
      <4>1. CASE Counters[i] = Counters[next]
        BY <2>0, <3>1, <3>2, <4>1
      <4>2. CASE Counters[i] # Counters[next]
        <5>1. i \in 1 .. next - 1
          BY <3>1, <4>2
        <5> QED
          BY <2>0, <3>1, <3>2, <4>2, <5>1 DEF DeliverInv
      <4> QED
        BY <4>1, <4>2
    <3>4. next' - 1 = next
      BY <3>1
    <3>5. \A c \in Channels : Pending(c)' = 0 /\ Pending(c) = 0
      BY <3>1 DEF Pending, OnTheWay
    <3> QED
      BY <3>1, <3>3, <3>4, <3>5 DEF DeliverInv
  <2>4. CASE ResetCounters
    <3>1. /\ pc = "store" /\ next - 1 = Len(Counters) /\ pc' = "payload"
          /\ counter' = [c \in Channels |-> 0]
          /\ UNCHANGED <<batch, pulses, delivered>>
      BY <2>4, CounterType DEF ResetCounters, CountersReset, mqttVars, brokerVars
    <3>2. ASSUME NEW c \in Channels PROVE batch[c] <= counter[c] /\ Pending(c) = 0
      <4>1. PICK i \in 1 .. Len(Counters) : c = Counters[i]
        BY CounterType DEF Channels
      <4> QED
        BY <3>1, <4>1 DEF DeliverInv, Pending, OnTheWay
    <3>3. \A c \in Channels : Pending(c)' = batch[c]
      BY <3>1 DEF Pending, OnTheWay
    <3>4. \A c \in Channels : delivered[c] + counter'[c] + Pending(c)' <= pulses[c]
      BY <2>0, <3>1, <3>2, <3>3 DEF DeliverInv
    <3> QED
      BY <3>1, <3>4 DEF DeliverInv
  <2>5. CASE GeneratePayload
    BY <2>5 DEF GeneratePayload, DeliverInv, Pending, OnTheWay, mqttVars, brokerVars
  <2>6. CASE Publish
    <3>1. /\ pc = "publish" /\ pc' \in {"idle", "sleep"}
          /\ UNCHANGED <<counter, pulses, delivered, payload, batch>>
      BY <2>6 DEF Publish, PublishNotStarted, PublishStarted, brokerVars
    <3>2. \A c \in Channels : Pending(c) = batch[c] /\ Pending(c)' \in {0, batch[c]}
      BY <3>1 DEF Pending, OnTheWay
    <3>3. \A c \in Channels : delivered[c] + counter[c] + Pending(c)' <= pulses[c]
      BY <2>0, <3>2 DEF DeliverInv
    <3> QED
      BY <3>1, <3>3 DEF DeliverInv, PayloadInv, PayloadIsBatch
  <2>7. CASE EndPublish
    <3>1. /\ pc' = "idle" /\ UNCHANGED <<counter, pulses, delivered>>
      BY <2>7 DEF EndPublish, brokerVars
    <3>2. \A c \in Channels : Pending(c)' = 0
      BY <3>1 DEF Pending, OnTheWay
    <3>3. \A c \in Channels : delivered[c] + counter[c] + Pending(c)' <= pulses[c]
      BY <2>0, <3>2 DEF DeliverInv
    <3> QED
      BY <3>1, <3>3 DEF DeliverInv
  <2>8. CASE Receive
    <3>1. /\ pc = "sleep" /\ mqttClient = "published" /\ mqttClient' = "received"
          /\ delivered' = [c \in Channels |-> delivered[c] + ValueOf(payload, c)]
          /\ UNCHANGED <<pc, counter, pulses, payload, batch>>
      BY <2>8 DEF Receive, Inv, runVars
    <3>2. ASSUME NEW c \in Channels PROVE ValueOf(payload, c) \in {0, batch[c]}
      BY <2>0, <3>1, ValueOfBatch DEF DeliverInv
    <3>3. \A c \in Channels : Pending(c) = batch[c] /\ Pending(c)' = 0
      BY <3>1 DEF Pending, OnTheWay
    <3>4. \A c \in Channels : delivered'[c] + counter[c] + Pending(c)' <= pulses[c]
      BY <2>0, <3>1, <3>2, <3>3 DEF DeliverInv
    <3>5. delivered' \in [Channels -> Nat]
      BY <2>0, <3>1, <3>2 DEF DeliverInv
    <3> QED
      BY <3>1, <3>4, <3>5 DEF DeliverInv
  <2>9. CASE OnConnected \/ OnPublished \/ BrokerChanges \/ (\E m \in Messages : OnError(m))
             \/ UNCHANGED vars
    <3>1. UNCHANGED <<pc, next, counter, pulses, delivered, payload, batch>>
      BY <2>9 DEF OnConnected, OnPublished, OnError, BrokerChanges, vars, runVars, mqttVars,
                  brokerVars
    <3>2. mqttClient' \in {"connecting", "published"} => mqttClient \in {"connecting", "published"}
      BY <2>9 DEF OnConnected, OnPublished, OnError, BrokerChanges, vars, mqttVars
    <3>3. \A c \in Channels : Pending(c)' \in {0, Pending(c)}
      BY <3>1, <3>2 DEF Pending, OnTheWay
    <3>4. \A c \in Channels : delivered[c] + counter[c] + Pending(c)' <= pulses[c]
      BY <2>0, <3>3 DEF DeliverInv
    <3> QED
      BY <3>1, <3>4 DEF DeliverInv
  <2> QED
    BY <2>1, <2>2, <2>3, <2>4, <2>5, <2>6, <2>7, <2>8, <2>9 DEF Next, Mqtt
<1> QED
  BY <1>1, <1>2, PayloadInductive, InvInductive, PTL DEF Spec

\* All payloads the broker ever received together never say more of a channel than its meter
\* gave, however the runs, the pulses, the reset and the broker's absence fall together.
THEOREM NothingDeliveredTwice == Spec => []DeliveredOnce
<1>1. DeliverInv /\ PayloadInv => DeliveredOnce
  <2> SUFFICES ASSUME DeliverInv, PayloadInv, NEW c \in Channels PROVE delivered[c] <= pulses[c]
    BY DEF DeliveredOnce
  <2>1. counter[c] \in Nat /\ batch[c] \in Nat /\ delivered[c] \in Nat /\ pulses[c] \in Nat
    BY DEF DeliverInv, PayloadInv, BatchTypes
  <2>2. Pending(c) \in Nat
    BY <2>1 DEF Pending
  <2> QED
    BY <2>1, <2>2 DEF DeliverInv
<1> QED
  BY <1>1, DeliverInductive, PayloadInductive, PTL
-----------------------------------------------------------------------------
(* The status of a device, for every configuration, and what a page shows of *)
(* it                                                                        *)

Slot == [numInputPort : Nat, numOutPort : Nat, counter : Nat, lastSecond : Int]
SlotItems(slots) == Seq({Item(slots[i]) : i \in DOMAIN slots})
StepItems(items, slots, i) ==
    IF InUse(slots[i]) THEN Append(items, Item(slots[i])) ELSE items

\* The recursive function of getStatusJson's loop.
ItemsStep(f, slots) ==
    f = [i \in 0 .. Len(slots) |-> IF i = 0 THEN <<>>
                                   ELSE IF InUse(slots[i]) THEN Append(f[i - 1], Item(slots[i]))
                                   ELSE f[i - 1]]

LEMMA ItemsLooped ==
    ASSUME NEW slots \in Seq(Slot)
    PROVE  \E f : /\ f[0] = <<>> /\ Items(slots) = f[Len(slots)]
                  /\ \A i \in 1 .. Len(slots) : f[i] = StepItems(f[i - 1], slots, i)
<1> DEFINE V == SlotItems(slots)
           n == Len(slots)
           step == [x \in V \X (1 .. n) |-> StepItems(x[1], slots, x[2])]
<1>0. n \in Nat /\ DOMAIN slots = 1 .. n /\ <<>> \in V
  BY DEF SlotItems
<1>1. ASSUME NEW items \in V, NEW i \in 1 .. n PROVE StepItems(items, slots, i) \in V
  <2> DEFINE S == {Item(slots[k]) : k \in DOMAIN slots}
  <2>1. Item(slots[i]) \in S
    BY <1>0
  <2>2. items \in Seq(S)
    BY DEF SlotItems
  <2> HIDE DEF S
  <2>3. Append(items, Item(slots[i])) \in Seq(S)
    BY <2>1, <2>2, OneAppended
  <2> QED
    BY <2>2, <2>3 DEF StepItems, SlotItems, S
<1>2. Steps(step, V, n)
  BY <1>1 DEF Steps
<1>3. PICK f : Iterated(f, V, <<>>, step, n)
  <2> HIDE DEF V, n, step
  <2> QED
    BY <1>0, <1>2, Iterates
<1>4. \A i \in 1 .. n : f[i] = StepItems(f[i - 1], slots, i)
  <2> SUFFICES ASSUME NEW i \in 1 .. n PROVE f[i] = StepItems(f[i - 1], slots, i)
    OBVIOUS
  <2>1. i - 1 \in 0 .. n /\ f[i - 1] \in V
    BY <1>0, <1>3 DEF Iterated
  <2>2. f[i] = step[<<f[i - 1], i>>]
    BY <1>3 DEF Iterated
  <2> HIDE DEF V, n
  <2> QED
    BY <2>1, <2>2
<1>5. ItemsStep(f, slots)
  <2>1. f[0] = <<>> /\ f \in [0 .. n -> V]
    BY <1>3 DEF Iterated
  <2> DEFINE g == [i \in 0 .. n |-> IF i = 0 THEN <<>>
                                    ELSE IF InUse(slots[i]) THEN Append(f[i - 1], Item(slots[i]))
                                    ELSE f[i - 1]]
  <2>2. ASSUME NEW i \in 0 .. n PROVE f[i] = g[i]
    <3>1. CASE i = 0
      BY <1>0, <2>1, <3>1
    <3>2. CASE i # 0
      <4>1. i \in 1 .. n
        BY <1>0, <3>2
      <4> HIDE DEF n
      <4> QED
        BY <1>4, <3>2, <4>1 DEF StepItems
    <3> QED
      BY <3>1, <3>2
  <2>3. f = g
    <3> HIDE DEF V, n
    <3>1. f = [i \in 0 .. n |-> f[i]]
      BY <2>1
    <3>2. g = [i \in 0 .. n |-> g[i]]
      OBVIOUS
    <3> HIDE DEF g
    <3> QED
      BY <2>2, <3>1, <3>2
  <2> QED
    BY <2>3 DEF ItemsStep
<1>6. Items(slots) = (CHOOSE h : ItemsStep(h, slots))[n]
  BY DEF Items, ItemsStep
<1>7. PICK h : h = (CHOOSE x : ItemsStep(x, slots)) /\ ItemsStep(h, slots)
  BY <1>5
<1>8. h[0] = <<>> /\ \A i \in 1 .. n : h[i] = StepItems(h[i - 1], slots, i)
  <2>1. \A i \in 1 .. n : i \in 0 .. n /\ i # 0
    BY <1>0
  <2>2. 0 \in 0 .. n
    BY <1>0
  <2> HIDE DEF n
  <2> QED
    BY <1>7, <2>1, <2>2 DEF ItemsStep, StepItems, n
<1> QED
  BY <1>6, <1>7, <1>8

\* The items of the first m slots.
ItemsUpTo(items, slots, m) ==
    /\ items \in SlotItems(slots)
    /\ \A k \in DOMAIN items : \E i \in 1 .. m : InUse(slots[i]) /\ items[k] = Item(slots[i])
    /\ \A i \in 1 .. m : InUse(slots[i]) => \E k \in DOMAIN items : items[k] = Item(slots[i])

LEMMA ItemsListed ==
    ASSUME NEW slots \in Seq(Slot)
    PROVE  ItemsUpTo(Items(slots), slots, Len(slots))
<1> DEFINE n == Len(slots)
<1>1. PICK f : /\ f[0] = <<>> /\ Items(slots) = f[n]
               /\ \A i \in 1 .. n : f[i] = StepItems(f[i - 1], slots, i)
  BY ItemsLooped
<1> DEFINE T == {i \in 0 .. n : ItemsUpTo(f[i], slots, i)}
<1>2. n \in Nat /\ DOMAIN slots = 1 .. n
  OBVIOUS
<1>3. 0 \in T
  <2>1. ItemsUpTo(<<>>, slots, 0)
    BY DEF ItemsUpTo, SlotItems
  <2> QED
    BY <1>1, <1>2, <2>1
<1>4. ASSUME NEW i \in 0 .. n - 1, i \in T PROVE i + 1 \in T
  <2> DEFINE S == {Item(slots[k]) : k \in DOMAIN slots}
             items == f[i]
  <2>1. /\ i \in Nat /\ i + 1 \in 1 .. n /\ i + 1 \in 0 .. n /\ (i + 1) - 1 = i
        /\ \A j \in 1 .. i + 1 : j \in 1 .. i \/ j = i + 1
        /\ \A j \in 1 .. i : j \in 1 .. i + 1
    BY <1>2
  <2>2. f[i + 1] = StepItems(items, slots, i + 1)
    BY <1>1, <2>1
  <2>3. ItemsUpTo(items, slots, i)
    BY <1>4
  <2>4. CASE ~ InUse(slots[i + 1])
    <3>1. f[i + 1] = items
      BY <2>2, <2>4 DEF StepItems
    <3> HIDE DEF items
    <3>2. ItemsUpTo(items, slots, i + 1)
      BY <2>1, <2>3, <2>4 DEF ItemsUpTo
    <3> QED
      BY <2>1, <3>1, <3>2
  <2>5. CASE InUse(slots[i + 1])
    <3>0. PICK e : e = Item(slots[i + 1])
      OBVIOUS
    <3> DEFINE d == Append(items, e)
    <3>1. f[i + 1] = d
      BY <2>2, <2>5, <3>0 DEF StepItems
    <3>2. e \in S /\ items \in Seq(S)
      BY <1>2, <2>1, <2>3, <3>0 DEF ItemsUpTo, SlotItems
    <3> HIDE DEF S, items
    <3>3. /\ d \in Seq(S) /\ Len(items) \in Nat
          /\ DOMAIN items = 1 .. Len(items) /\ DOMAIN d = 1 .. Len(items) + 1
          /\ d[Len(items) + 1] = e
          /\ \A k \in 1 .. Len(items) : d[k] = items[k] /\ k \in DOMAIN d
          /\ \A k \in DOMAIN d : k \in 1 .. Len(items) \/ k = Len(items) + 1
      BY <3>2, OneAppended
    <3> HIDE DEF d
    <3>4. \A k \in DOMAIN d : \E j \in 1 .. i + 1 : InUse(slots[j]) /\ d[k] = Item(slots[j])
      BY <2>1, <2>3, <2>5, <3>0, <3>3 DEF ItemsUpTo
    <3>5. \A j \in 1 .. i + 1 : InUse(slots[j]) => \E k \in DOMAIN d : d[k] = Item(slots[j])
      <4>1. Len(items) + 1 \in DOMAIN d
        BY <3>3
      <4> QED
        BY <2>1, <2>3, <3>0, <3>3, <4>1 DEF ItemsUpTo
    <3>6. ItemsUpTo(d, slots, i + 1)
      BY <3>3, <3>4, <3>5 DEF ItemsUpTo, SlotItems, S
    <3> QED
      BY <2>1, <3>1, <3>6
  <2> QED
    BY <2>4, <2>5
<1>5. n \in T
  <2>1. \A i \in 0 .. n - 1 : i \in T => i + 1 \in T
    BY <1>4
  <2> HIDE DEF T, n
  <2>2. \A i \in 0 .. n : i \in T
    BY <1>2, <1>3, <2>1, Induction
  <2> QED
    BY <1>2, <2>2
<1> QED
  BY <1>1, <1>5

\* The items of a status come after those of the last publication and of the next run.
LastPublished(s) == [lastPublished |-> s]
NextRunTime(t) == [nextRunTime |-> t]
StatusHead(s, t) == Only(s # 0, LastPublished(s)) \o Only(t # 0, NextRunTime(t))

LEMMA StatusParts ==
    ASSUME NEW slots, NEW s, NEW t
    PROVE  GetStatusJson([errors |-> FALSE, mqttStatus |-> s, schedulerRunTime |-> t,
                          slots |-> slots])
           = <<StatusHead(s, t) \o Items(slots)>>
BY DEF GetStatusJson, StatusHead, LastPublished, NextRunTime

LEMMA Joining ==
    ASSUME NEW U, NEW a \in Seq(U), NEW b \in Seq(U)
    PROVE  /\ a \o b \in Seq(U) /\ Len(a) \in Nat /\ Len(b) \in Nat
           /\ DOMAIN (a \o b) = 1 .. Len(a) + Len(b) /\ Len(a \o b) = Len(a) + Len(b)
           /\ DOMAIN a = 1 .. Len(a) /\ DOMAIN b = 1 .. Len(b)
           /\ \A k \in 1 .. Len(a) : (a \o b)[k] = a[k]
           /\ \A k \in 1 .. Len(b) : (a \o b)[Len(a) + k] = b[k]
OBVIOUS

LEMMA HeadParts ==
    ASSUME NEW s, NEW t, t # 0
    PROVE  LET h == StatusHead(s, t)
           IN  /\ h \in Seq({LastPublished(s), NextRunTime(t)}) /\ Len(h) \in {1, 2}
               /\ s = 0 => Len(h) = 1 /\ h[1] = NextRunTime(t)
               /\ s # 0 => Len(h) = 2 /\ h[1] = LastPublished(s) /\ h[2] = NextRunTime(t)
<1>0. PICK a, b : a = LastPublished(s) /\ b = NextRunTime(t)
  OBVIOUS
<1>1. /\ <<a>> \in Seq({a, b}) /\ <<b>> \in Seq({a, b}) /\ <<>> \in Seq({a, b})
      /\ Len(<<a>>) = 1 /\ Len(<<b>>) = 1 /\ Len(<<>>) = 0 /\ <<a>>[1] = a /\ <<b>>[1] = b
  OBVIOUS
<1>2. CASE s = 0
  <2>1. StatusHead(s, t) = <<>> \o <<b>>
    BY <1>0, <1>2 DEF StatusHead, Only
  <2>2. 1 \in 1 .. Len(<<b>>) /\ Len(<<>>) + 1 = 1
    BY <1>1
  <2>3. /\ <<>> \o <<b>> \in Seq({a, b}) /\ Len(<<>> \o <<b>>) = 1
        /\ (<<>> \o <<b>>)[1] = b
    BY <1>1, <2>2, Joining
  <2> QED
    BY <1>0, <1>2, <2>1, <2>3
<1>3. CASE s # 0
  <2>1. StatusHead(s, t) = <<a>> \o <<b>>
    BY <1>0, <1>3 DEF StatusHead, Only
  <2>2. 1 \in 1 .. Len(<<b>>) /\ 1 \in 1 .. Len(<<a>>) /\ Len(<<a>>) + 1 = 2
    BY <1>1
  <2>3. /\ <<a>> \o <<b>> \in Seq({a, b}) /\ Len(<<a>> \o <<b>>) = 2
        /\ (<<a>> \o <<b>>)[1] = a /\ (<<a>> \o <<b>>)[2] = b
    BY <1>1, <2>2, Joining
  <2> QED
    BY <1>0, <1>3, <2>1, <2>3
<1> QED
  BY <1>2, <1>3

Division(slot) == <<slot.numOutPort, slot.numInputPort>>

\* What the page finds in it.
ReadAs(r, slots, s) ==
    /\ r # <<>> /\ Len(r) \in Nat /\ DOMAIN r = 1 .. Len(r)
    /\ s = 0 => Published(r) = {}
    /\ s # 0 => Published(r) # {} /\ \A k \in Published(r) : r[k].lastPublished = s
    /\ \A d : \A k \in ItemsOf(r, d) :
          \E i \in DOMAIN slots :
             InUse(slots[i]) /\ r[k] = Item(slots[i]) /\ Division(slots[i]) = d
    /\ \A i \in DOMAIN slots : InUse(slots[i]) => ItemsOf(r, Division(slots[i])) # {}

LEMMA StatusRead ==
    ASSUME NEW slots \in Seq(Slot), NEW s, NEW t, t # 0, NEW r,
           r = StatusHead(s, t) \o Items(slots)
    PROVE  ReadAs(r, slots, s)
<1> DEFINE S == {Item(slots[i]) : i \in DOMAIN slots}
           items == Items(slots)
           P == LastPublished(s)
           N == NextRunTime(t)
           h == StatusHead(s, t)
           U == {P, N} \cup S
<1>1. /\ items \in Seq(S) /\ DOMAIN slots = 1 .. Len(slots)
      /\ \A k \in DOMAIN items : \E i \in DOMAIN slots :
            InUse(slots[i]) /\ items[k] = Item(slots[i])
      /\ \A i \in DOMAIN slots : InUse(slots[i]) =>
            \E k \in DOMAIN items : items[k] = Item(slots[i])
  <2>1. DOMAIN slots = 1 .. Len(slots)
    OBVIOUS
  <2>2. ItemsUpTo(items, slots, Len(slots))
    BY ItemsListed
  <2>3. items \in Seq(S)
    BY <2>2 DEF ItemsUpTo, SlotItems
  <2> HIDE DEF items, S
  <2> QED
    BY <2>1, <2>2, <2>3 DEF ItemsUpTo
<1>2. /\ h \in Seq({P, N}) /\ Len(h) \in {1, 2}
      /\ s = 0 => Len(h) = 1 /\ h[1] = N
      /\ s # 0 => Len(h) = 2 /\ h[1] = P /\ h[2] = N
  BY HeadParts
<1>3. /\ Len(items) \in Nat /\ DOMAIN items = 1 .. Len(items)
      /\ Len(r) = Len(h) + Len(items) /\ DOMAIN r = 1 .. Len(r)
      /\ \A k \in 1 .. Len(h) : r[k] = h[k]
      /\ \A k \in 1 .. Len(items) : r[Len(h) + k] = items[k]
  <2>1. h \in Seq(U) /\ items \in Seq(U)
    <3> HIDE DEF h, items, P, N, S
    <3> QED
      BY <1>1, <1>2
  <2>2. r = h \o items
    OBVIOUS
  <2> HIDE DEF h, items, U
  <2> QED
    BY <2>1, <2>2, Joining
<1>4. \A k \in DOMAIN r : \/ k \in 1 .. Len(h) /\ r[k] \in {P, N}
                          \/ \E j \in DOMAIN items : k = Len(h) + j /\ r[k] = items[j]
  <2> SUFFICES ASSUME NEW k \in DOMAIN r
               PROVE  \/ k \in 1 .. Len(h) /\ r[k] \in {P, N}
                      \/ \E j \in DOMAIN items : k = Len(h) + j /\ r[k] = items[j]
    OBVIOUS
  <2> HIDE DEF h, items, P, N
  <2>1. CASE k <= Len(h)
    <3>1. k \in 1 .. Len(h)
      BY <1>2, <1>3, <2>1
    <3>2. h[k] \in {P, N}
      BY <1>2, <3>1
    <3> QED
      BY <1>3, <3>1, <3>2
  <2>2. CASE k > Len(h)
    <3>1. k - Len(h) \in 1 .. Len(items) /\ k = Len(h) + (k - Len(h))
      BY <1>2, <1>3, <2>2
    <3> QED
      BY <1>3, <3>1
  <2> QED
    BY <1>2, <1>3, <2>1, <2>2
<1>5. /\ "last" \notin DOMAIN P /\ "last" \notin DOMAIN N
      /\ "lastPublished" \in DOMAIN P /\ "lastPublished" \notin DOMAIN N
      /\ P.lastPublished = s
      /\ \A i \in DOMAIN slots :
            /\ "last" \in DOMAIN Item(slots[i]) /\ "lastPublished" \notin DOMAIN Item(slots[i])
            /\ Item(slots[i]).output = slots[i].numOutPort
            /\ Item(slots[i]).input = slots[i].numInputPort
  BY DEF LastPublished, NextRunTime, Item
<1>6. r # <<>>
  BY <1>2, <1>3
<1> HIDE DEF P, N, h, items, S
<1>7. /\ s = 0 => Published(r) = {}
      /\ s # 0 => Published(r) # {} /\ \A k \in Published(r) : r[k].lastPublished = s
  <2>1. ASSUME NEW k \in Published(r) PROVE s # 0 /\ r[k].lastPublished = s
    <3>1. k \in DOMAIN r /\ "lastPublished" \in DOMAIN r[k]
      BY DEF Published
    <3>2. ~ \E j \in DOMAIN items : k = Len(h) + j /\ r[k] = items[j]
      <4> SUFFICES ASSUME NEW j \in DOMAIN items, r[k] = items[j] PROVE FALSE
        OBVIOUS
      <4>1. PICK i \in DOMAIN slots : items[j] = Item(slots[i])
        BY <1>1
      <4>2. "lastPublished" \notin DOMAIN Item(slots[i])
        BY <1>5
      <4> QED
        BY <3>1, <4>1, <4>2
    <3>3. k \in 1 .. Len(h) /\ r[k] = h[k] /\ r[k] \in {P, N}
      BY <1>3, <1>4, <3>1, <3>2
    <3>4. r[k] = P
      BY <1>5, <3>1, <3>3
    <3>5. s # 0
      BY <1>2, <1>5, <3>1, <3>3
    <3> QED
      BY <1>5, <3>4, <3>5
  <2>2. s # 0 => 1 \in Published(r)
    <3> SUFFICES ASSUME s # 0 PROVE 1 \in Published(r)
      OBVIOUS
    <3>1. 1 \in 1 .. Len(h) /\ h[1] = P
      <4>1. Len(h) = 2
        BY <1>2
      <4>2. h[1] = P
        BY <1>2
      <4>3. 1 \in 1 .. 2
        OBVIOUS
      <4> QED
        BY <4>1, <4>2, <4>3
    <3>2. 1 \in DOMAIN r /\ r[1] = P
      <4>1. \A k \in 1 .. Len(h) : k \in DOMAIN r
        BY <1>2, <1>3
      <4> QED
        BY <1>3, <3>1, <4>1
    <3> QED
      BY <1>5, <3>2 DEF Published
  <2> QED
    BY <2>1, <2>2
<1>8. ASSUME NEW d, NEW k \in ItemsOf(r, d)
      PROVE  \E i \in DOMAIN slots :
                InUse(slots[i]) /\ r[k] = Item(slots[i]) /\ Division(slots[i]) = d
  <2>1. k \in DOMAIN r /\ "last" \in DOMAIN r[k] /\ <<r[k].output, r[k].input>> = d
    BY DEF ItemsOf
  <2>2. PICK j \in DOMAIN items : r[k] = items[j]
    BY <1>4, <1>5, <2>1
  <2>3. PICK i \in DOMAIN slots : InUse(slots[i]) /\ items[j] = Item(slots[i])
    BY <1>1
  <2> QED
    BY <1>5, <2>1, <2>2, <2>3 DEF Division
<1>9. ASSUME NEW i \in DOMAIN slots, InUse(slots[i])
      PROVE  ItemsOf(r, Division(slots[i])) # {}
  <2>1. PICK j \in DOMAIN items : items[j] = Item(slots[i])
    BY <1>1, <1>9
  <2>2. Len(h) + j \in DOMAIN r /\ r[Len(h) + j] = Item(slots[i])
    BY <1>2, <1>3, <2>1
  <2>3. Len(h) + j \in ItemsOf(r, Division(slots[i]))
    BY <1>5, <2>2 DEF ItemsOf, Division
  <2> QED
    BY <2>3
<1>10. Len(r) \in Nat /\ DOMAIN r = 1 .. Len(r)
  BY <1>2, <1>3
<1> QED
  BY <1>6, <1>7, <1>8, <1>9, <1>10 DEF ReadAs

\* A page that has the meters of these divisions.
IsPage(page, D) ==
    /\ page = [lastCountIsRunning |-> page.lastCountIsRunning, text |-> page.text,
               meter |-> [d \in D |-> page.meter[d]]]
    /\ page.lastCountIsRunning \in BOOLEAN

LEMMA PageFields ==
    ASSUME NEW page, NEW a, NEW b, NEW c,
           page = [lastCountIsRunning |-> a, text |-> b, meter |-> c]
    PROVE  page.lastCountIsRunning = a /\ page.text = b /\ page.meter = c
OBVIOUS

\* What a page that is not silenced makes of the status.
Taken(after, D, slots, s) ==
    /\ IsPage(after, D) /\ ~ after.lastCountIsRunning /\ after.text = s
    /\ \A i \in DOMAIN slots : InUse(slots[i]) /\ Division(slots[i]) \in D =>
          \E k \in DOMAIN slots :
             /\ InUse(slots[k]) /\ Division(slots[k]) = Division(slots[i])
             /\ after.meter[Division(slots[i])] = LastCount(Item(slots[k]), Now)

LEMMA StatusTaken ==
    ASSUME NEW slots \in Seq(Slot), NEW s, NEW D, NEW page,
           IsPage(page, D), ~ page.lastCountIsRunning, NEW after,
           after = UpdateLastCount(page, Response(FALSE, s, slots), Now)
    PROVE  Taken(after, D, slots, s)
<1>0. PICK r : r = StatusHead(s, Now) \o Items(slots)
  OBVIOUS
<1>1. /\ r # <<>> /\ Len(r) \in Nat /\ DOMAIN r = 1 .. Len(r)
      /\ s = 0 => Published(r) = {}
      /\ s # 0 => Published(r) # {} /\ \A k \in Published(r) : r[k].lastPublished = s
      /\ \A d : \A k \in ItemsOf(r, d) :
            \E i \in DOMAIN slots :
               InUse(slots[i]) /\ r[k] = Item(slots[i]) /\ Division(slots[i]) = d
      /\ \A i \in DOMAIN slots : InUse(slots[i]) => ItemsOf(r, Division(slots[i])) # {}
  <2>1. ReadAs(r, slots, s)
    BY <1>0, TimeAssumption, StatusRead
  <2> QED
    BY <2>1 DEF ReadAs
<1>2. after = Show(page, r, Now)
  <2> DEFINE json == GetStatusJson([errors |-> FALSE, mqttStatus |-> s, schedulerRunTime |-> Now,
                                    slots |-> slots])
             response == [status |-> 200, json |-> json]
  <2>1. json = <<r>>
    BY <1>0, StatusParts
  <2> HIDE DEF json
  <2>2. response.status = 200 /\ Lost.status = 0 /\ response.json = <<r>>
    BY <2>1 DEF Lost
  <2>3. response # Lost /\ GetJSON(response) = <<r>>
    BY <2>2 DEF GetJSON
  <2>4. <<r>> # <<>> /\ Head(<<r>>) = r
    OBVIOUS
  <2>5. after = UpdateLastCount(page, response, Now)
    BY DEF json, Response
  <2> HIDE DEF response
  <2> QED
    BY <2>3, <2>4, <2>5 DEF UpdateLastCount
<1>3. after = [lastCountIsRunning |-> page.lastCountIsRunning, text |-> Text(page, r),
               meter |-> [d \in D |-> Meter(page, r, d, Now)]]
  <2>1. DOMAIN page.meter = D
    BY DEF IsPage
  <2> QED
    BY <1>2, <2>1 DEF Show, IsPage
<1>4. /\ after.lastCountIsRunning = page.lastCountIsRunning /\ after.text = Text(page, r)
       /\ after.meter = [d \in D |-> Meter(page, r, d, Now)]
  <2>1. PICK a, b, m : /\ a = page.lastCountIsRunning /\ b = Text(page, r)
                       /\ m = [d \in D |-> Meter(page, r, d, Now)]
    OBVIOUS
  <2>2. after = [lastCountIsRunning |-> a, text |-> b, meter |-> m]
    BY <1>3, <2>1
  <2>3. after.lastCountIsRunning = a /\ after.text = b /\ after.meter = m
    BY <2>2, PageFields
  <2> QED
    BY <2>1, <2>3
<1>5. Text(page, r) = s
  <2>1. CASE s = 0
    BY <1>1, <2>1 DEF Text
  <2>2. CASE s # 0
    <3>1. Published(r) \subseteq 0 .. Len(r)
      BY <1>1 DEF Published
    <3>2. Max(Published(r)) \in Published(r)
      BY <1>1, <2>2, <3>1, Largest
    <3> QED
      BY <1>1, <2>2, <3>2 DEF Text
  <2> QED
    BY <2>1, <2>2
<1>6. ASSUME NEW i \in DOMAIN slots, InUse(slots[i]), Division(slots[i]) \in D
      PROVE  \E k \in DOMAIN slots :
                /\ InUse(slots[k]) /\ Division(slots[k]) = Division(slots[i])
                /\ after.meter[Division(slots[i])] = LastCount(Item(slots[k]), Now)
  <2>0. PICK d : d = Division(slots[i])
    OBVIOUS
  <2>1. ItemsOf(r, d) # {} /\ ItemsOf(r, d) \subseteq 0 .. Len(r)
    <3>1. ItemsOf(r, d) \subseteq 0 .. Len(r)
      BY <1>1 DEF ItemsOf
    <3> QED
      BY <1>1, <1>6, <2>0, <3>1
  <2>2. Max(ItemsOf(r, d)) \in ItemsOf(r, d)
    BY <1>1, <2>1, Largest
  <2>3. after.meter[d] = Meter(page, r, d, Now)
    BY <1>4, <1>6, <2>0
  <2>4. Meter(page, r, d, Now) = LastCount(r[Max(ItemsOf(r, d))], Now)
    BY <2>1 DEF Meter
  <2>5. PICK k \in DOMAIN slots :
            InUse(slots[k]) /\ r[Max(ItemsOf(r, d))] = Item(slots[k]) /\ Division(slots[k]) = d
    BY <1>1, <2>2
  <2> QED
    BY <2>0, <2>3, <2>4, <2>5
<1>7. IsPage(after, D) /\ ~ after.lastCountIsRunning /\ after.text = s
  <2>1. after.lastCountIsRunning = page.lastCountIsRunning /\ after.text = s
        /\ after.meter = [d \in D |-> Meter(page, r, d, Now)]
    BY <1>4, <1>5
  <2>2. \A d \in D : after.meter[d] = Meter(page, r, d, Now)
    BY <2>1
  <2>3. after.meter = [d \in D |-> after.meter[d]]
    BY <2>1, <2>2
  <2>4. after = [lastCountIsRunning |-> after.lastCountIsRunning, text |-> after.text,
                 meter |-> [d \in D |-> after.meter[d]]]
    BY <1>3, <1>5, <2>1, <2>3
  <2> QED
    BY <2>1, <2>4 DEF IsPage
<1> QED
  BY <1>6, <1>7 DEF Taken

\* The slots of a configuration.
SlotOf(trace, age, c) ==
    [numInputPort |-> c.in, numOutPort |-> c.out, counter |-> trace[c].counter,
     lastSecond |-> IF trace[c].pulses = 0 THEN 0 ELSE Now - age]
AnyTrace == [Channels -> [counter : Nat, pulses : Nat]]

LEMMA SlotFacts ==
    ASSUME NEW trace \in AnyTrace, NEW age \in 0 .. Now - 1
    PROVE  LET slots == SlotsOf(trace, age)
           IN  /\ slots \in Seq(Slot) /\ DOMAIN slots = 1 .. Len(Counters) + 1
               /\ \A i \in 1 .. Len(Counters) : slots[i] = SlotOf(trace, age, Counters[i])
               /\ ~ InUse(slots[Len(Counters) + 1])
<1> DEFINE f == [i \in DOMAIN Counters |-> SlotOf(trace, age, Counters[i])]
           unused == [numInputPort |-> NoInputPort, numOutPort |-> 7, counter |-> 0,
                      lastSecond |-> 0]
<1>1. /\ Len(Counters) \in Nat /\ DOMAIN Counters = 1 .. Len(Counters)
      /\ \A i \in 1 .. Len(Counters) : Counters[i] \in Channels /\ Counters[i] \in CounterConfig
  BY CounterType
<1>2. ASSUME NEW i \in 1 .. Len(Counters) PROVE SlotOf(trace, age, Counters[i]) \in Slot
  <2>1. Counters[i].in \in Nat /\ Counters[i].out \in Nat
    BY <1>1 DEF CounterConfig
  <2>2. trace[Counters[i]] \in [counter : Nat, pulses : Nat]
    BY <1>1 DEF AnyTrace
  <2>3. trace[Counters[i]].counter \in Nat
    BY <2>2
  <2>4. (IF trace[Counters[i]].pulses = 0 THEN 0 ELSE Now - age) \in Int
    BY TimeAssumption
  <2> QED
    BY <2>1, <2>3, <2>4 DEF SlotOf, Slot
<1>3. f \in Seq(Slot) /\ Len(f) = Len(Counters)
  BY <1>1, <1>2
<1>4. unused \in Slot
  BY DEF NoInputPort, Slot
<1>5. SlotsOf(trace, age) = Append(f, unused)
  BY DEF SlotsOf, SlotOf
<1>6. \A i \in 1 .. Len(Counters) : f[i] = SlotOf(trace, age, Counters[i])
  BY <1>1
<1>7. ~ InUse(unused)
  BY DEF InUse
<1> HIDE DEF f, unused
<1> QED
  BY <1>1, <1>3, <1>4, <1>5, <1>6, <1>7, OneAppended

\* The minutes and hours since the last pulse.
LEMMA CountShown ==
    ASSUME NEW trace \in AnyTrace, NEW age \in 0 .. Now - 1, NEW c \in Channels
    PROVE  LastCount(Item(SlotOf(trace, age, c)), Now) = Shown(trace[c], age)
<1> DEFINE slot == SlotOf(trace, age, c)
<1>1. Item(slot).last = trace[c].counter /\ Item(slot).lastSecond = slot.lastSecond
  BY DEF Item, SlotOf
<1>2. CASE trace[c].pulses = 0
  <2>1. slot.lastSecond = 0
    BY <1>2 DEF SlotOf
  <2> QED
    BY <1>1, <1>2, <2>1 DEF LastCount, Shown
<1>3. CASE trace[c].pulses # 0
  <2>1. Now \in Nat /\ Now - age # 0 /\ Now - (Now - age) = age
    BY TimeAssumption
  <2>2. slot.lastSecond = Now - age
    BY <1>3 DEF SlotOf
  <2>3. PICK item : item = Item(slot)
    OBVIOUS
  <2>4. item.lastSecond = Now - age /\ item.last = trace[c].counter
    BY <1>1, <2>2, <2>3
  <2>5. /\ (Now - item.lastSecond) \div 60 = age \div 60
        /\ (age \div 60) \div 60 = age \div 3600
        /\ age \div 60 = 0 <=> age < 60
        /\ age \div 60 < 60 <=> age < 3600
        /\ age < 60 => age < 3600
    <3>1. Now - item.lastSecond = age
      BY <2>1, <2>4
    <3>2. age \in Nat
      BY <2>1
    <3>3. /\ (age \div 60) \div 60 = age \div 3600
          /\ age \div 60 = 0 <=> age < 60
          /\ age \div 60 < 60 <=> age < 3600
          /\ age < 60 => age < 3600
      BY <3>2
    <3> QED
      BY <3>1, <3>3
  <2>6. LastCount(item, Now) = Ago(item, Now)
    BY <2>1, <2>4 DEF LastCount
  <2>7. Ago(item, Now) = Shown(trace[c], age)
    <3> DEFINE minutes == age \div 60
    <3>1. Ago(item, Now) =
             IF minutes = 0 THEN [last |-> item.last, unit |-> "seconds", ago |-> 0]
             ELSE IF minutes < 60 THEN [last |-> item.last, unit |-> "minutes", ago |-> minutes]
             ELSE [last |-> 0, unit |-> "hours", ago |-> minutes \div 60]
      BY <2>5 DEF Ago
    <3>2. /\ minutes = 0 <=> age < 60
          /\ minutes < 60 <=> age < 3600
          /\ minutes \div 60 = age \div 3600
      BY <2>5
    <3> QED
      BY <1>3, <2>4, <3>1, <3>2 DEF Shown
  <2> QED
    BY <2>3, <2>6, <2>7
<1> QED
  BY <1>2, <1>3

LEMMA ResetFacts ==
    ASSUME NEW slots \in Seq(Slot)
    PROVE  LET reset == ResetLastSeconds(slots)
           IN  /\ reset \in Seq(Slot) /\ DOMAIN reset = DOMAIN slots
               /\ \A i \in DOMAIN slots :
                     /\ InUse(reset[i]) <=> InUse(slots[i])
                     /\ Division(reset[i]) = Division(slots[i])
                     /\ LastCount(Item(reset[i]), Now) = Blank
<1> DEFINE reset == ResetLastSeconds(slots)
<1>1. Len(slots) \in Nat /\ DOMAIN slots = 1 .. Len(slots)
      /\ \A i \in DOMAIN slots : slots[i] \in Slot
  OBVIOUS
<1>2. /\ DOMAIN reset = 1 .. Len(slots)
      /\ reset = [i \in 1 .. Len(slots) |-> [slots[i] EXCEPT !.lastSecond = 0]]
  BY <1>1 DEF ResetLastSeconds
<1>3. ASSUME NEW i \in DOMAIN slots
      PROVE  /\ reset[i] \in Slot
             /\ reset[i].numInputPort = slots[i].numInputPort
             /\ reset[i].numOutPort = slots[i].numOutPort /\ reset[i].lastSecond = 0
  <2>1. reset[i] = [slots[i] EXCEPT !.lastSecond = 0]
    BY <1>1, <1>2
  <2>2. PICK x, y : x = slots[i] /\ y = reset[i]
    OBVIOUS
  <2>3. x \in Slot /\ y = [x EXCEPT !.lastSecond = 0]
    BY <1>1, <2>1, <2>2
  <2>4. /\ y \in Slot /\ y.numInputPort = x.numInputPort
        /\ y.numOutPort = x.numOutPort /\ y.lastSecond = 0
    <3>1. y = [numInputPort |-> x.numInputPort, numOutPort |-> x.numOutPort,
               counter |-> x.counter, lastSecond |-> 0]
      BY <2>3 DEF Slot
    <3>2. x.numInputPort \in Nat /\ x.numOutPort \in Nat /\ x.counter \in Nat
      BY <2>3 DEF Slot
    <3> QED
      BY <3>1, <3>2 DEF Slot
  <2> HIDE DEF reset
  <2> QED
    BY <2>2, <2>4
<1> HIDE DEF reset
<1>4. reset \in Seq(Slot)
  BY <1>1, <1>2, <1>3
<1>5. \A i \in DOMAIN slots : LastCount(Item(reset[i]), Now) = Blank
  BY <1>3 DEF Item, LastCount
<1>6. \A i \in DOMAIN slots :
         (InUse(reset[i]) <=> InUse(slots[i])) /\ Division(reset[i]) = Division(slots[i])
  BY <1>3 DEF InUse, Division
<1> QED
  BY <1>1, <1>2, <1>4, <1>5, <1>6 DEF reset

\* Any page, whatever it has shown before, shows the status of any device without errors as
\* ShowsStatus says: of every channel the last pulse, for any configuration, any pulses of the
\* other channels and any time since the last one; while it waits for an answer, and by an
\* answer that is lost or refused, it changes nothing it shows.
THEOREM PageFollows ==
    ASSUME NEW page, IsPage(page, Divisions), NEW s \in Nat,
           NEW c \in Channels, c.in # NoInputPort,
           NEW trace \in AnyTrace, NEW age \in 0 .. Now - 1
    PROVE  ShowsStatus(page, s, c, trace, age)
<1> DEFINE slots == SlotsOf(trace, age)
           reset == ResetLastSeconds(slots)
           division == <<c.out, c.in>>
           response1 == Response(FALSE, s, slots)
           next1 == UpdateLastCount(page, response1, Now)
           next2 == UpdateLastCount(next1, Response(FALSE, s, reset), Now)
<1>1. /\ slots \in Seq(Slot) /\ DOMAIN slots = 1 .. Len(Counters) + 1
      /\ \A i \in 1 .. Len(Counters) : slots[i] = SlotOf(trace, age, Counters[i])
      /\ ~ InUse(slots[Len(Counters) + 1])
  BY SlotFacts
<1>2. /\ reset \in Seq(Slot) /\ DOMAIN reset = DOMAIN slots
      /\ \A i \in DOMAIN slots : /\ InUse(reset[i]) <=> InUse(slots[i])
                                 /\ Division(reset[i]) = Division(slots[i])
                                 /\ LastCount(Item(reset[i]), Now) = Blank
  <2> HIDE DEF slots
  <2> QED
    BY <1>1, ResetFacts
<1>3. Now # 0
  BY TimeAssumption
<1>4. PICK j \in 1 .. Len(Counters) : Counters[j] = c
  BY CounterType DEF Channels
<1>5. /\ Len(Counters) \in Nat /\ Len(Counters) + 1 \notin 1 .. Len(Counters)
      /\ \A i \in DOMAIN slots : i \in 1 .. Len(Counters) \/ i = Len(Counters) + 1
      /\ \A i \in 1 .. Len(Counters) : i \in DOMAIN slots
  <2> HIDE DEF slots
  <2> QED
    BY <1>1, CounterType
<1> HIDE DEF slots, reset
<1>6. /\ j \in DOMAIN slots /\ InUse(slots[j]) /\ Division(slots[j]) = division
      /\ division \in Divisions
  <2>1. slots[j].numInputPort = c.in /\ slots[j].numOutPort = c.out
    <3>1. slots[j] = SlotOf(trace, age, c)
      BY <1>1, <1>4
    <3> QED
      BY <3>1 DEF SlotOf
  <2>2. division \in Divisions
    BY DEF Divisions
  <2> QED
    BY <1>5, <2>1, <2>2 DEF InUse, Division
<1>7. \A k \in DOMAIN slots : InUse(slots[k]) /\ Division(slots[k]) = division =>
         slots[k] = SlotOf(trace, age, c)
  <2> SUFFICES ASSUME NEW k \in DOMAIN slots, InUse(slots[k]), Division(slots[k]) = division
               PROVE  slots[k] = SlotOf(trace, age, c)
    OBVIOUS
  <2>1. k \in 1 .. Len(Counters)
    BY <1>1, <1>5
  <2>2. slots[k] = SlotOf(trace, age, Counters[k])
    BY <1>1, <2>1
  <2>3. Counters[k].out = Counters[j].out /\ Counters[k].in = Counters[j].in
    BY <1>4, <2>2 DEF SlotOf, Division
  <2> QED
    BY <1>4, <2>1, <2>2, <2>3, SameChannel
<1>8. KeepsItsText(page, response1)
  <2>1. UpdateLastCount(page, Refused, Now) = page
    <3>1. Refused # Lost /\ GetJSON(Refused) = <<>>
      <4>1. Refused.status = 500 /\ Lost.status = 0
        BY DEF Refused, Lost
      <4> QED
        BY <4>1 DEF GetJSON
    <3> QED
      BY <3>1 DEF UpdateLastCount
  <2> DEFINE silent == UpdateLastCount(page, Lost, Now)
  <2>2. silent.text = page.text /\ silent.meter = page.meter
    BY DEF UpdateLastCount, IsPage
  <2>3. page.lastCountIsRunning => UpdateLastCount(page, response1, Now) = page
    <3> HIDE DEF response1
    <3> QED
      BY DEF UpdateLastCount
  <2> QED
    BY <2>1, <2>2, <2>3 DEF KeepsItsText
<1>9. CASE page.lastCountIsRunning
  <2> HIDE DEF next1, next2, response1
  <2> QED
    BY <1>8, <1>9 DEF ShowsStatus, slots, reset, response1, next1, next2
<1>10. CASE ~ page.lastCountIsRunning
  <2>1. Taken(next1, Divisions, slots, s)
    BY <1>1, <1>10, StatusTaken
  <2>2. Taken(next2, Divisions, reset, s)
    <3>1. IsPage(next1, Divisions) /\ ~ next1.lastCountIsRunning
      BY <2>1 DEF Taken
    <3> HIDE DEF next1
    <3> QED
      BY <1>2, <3>1, StatusTaken
  <2> HIDE DEF next1, next2, response1
  <2>3. next1.meter[division] = Shown(trace[c], age)
    <3>1. PICK k \in DOMAIN slots : /\ InUse(slots[k]) /\ Division(slots[k]) = division
                                    /\ next1.meter[division] = LastCount(Item(slots[k]), Now)
      BY <1>6, <2>1 DEF Taken
    <3> QED
      BY <1>7, <3>1, CountShown
  <2>4. next2.meter[division] = Blank
    <3>1. PICK k \in DOMAIN reset : /\ InUse(reset[k]) /\ Division(reset[k]) = division
                                    /\ next2.meter[division] = LastCount(Item(reset[k]), Now)
      BY <1>2, <1>6, <2>2 DEF Taken
    <3> QED
      BY <1>2, <3>1
  <2> QED
    BY <1>8, <1>10, <2>1, <2>3, <2>4
    DEF ShowsStatus, Taken, slots, reset, response1, next1, next2
<1> QED
  BY <1>9, <1>10 DEF IsPage

LEMMA AllPagesShow ==
    ASSUME NEW d \in Statuses, d.of.in # NoInputPort
    PROVE  AnyPageShows(d)
<1>1. /\ d.mqttStatus \in Nat /\ d.of \in Channels
      /\ d.trace \in [counter : Nat, pulses : Nat]
  <2>1. d.mqttStatus \in 0 .. MaxRuns /\ d.of \in Channels /\ d.trace \in Traces
    BY DEF Statuses
  <2>2. Traces \subseteq [counter : Nat, pulses : Nat]
    BY BoundsAssumption DEF Traces
  <2> QED
    BY <2>1, <2>2, BoundsAssumption
<1>2. ASSUME NEW page \in Pages PROVE IsPage(page, Divisions)
  BY DEF Pages, IsPage
<1>3. ASSUME NEW others \in Traces
      PROVE  [c \in Channels |-> IF c = d.of THEN d.trace ELSE others] \in AnyTrace
  <2>1. others \in [counter : Nat, pulses : Nat]
    BY BoundsAssumption DEF Traces
  <2> QED
    BY <1>1, <2>1 DEF AnyTrace
<1>4. \A age \in Ages : age \in 0 .. Now - 1
  BY TimeAssumption
<1> QED
  BY <1>1, <1>2, <1>3, <1>4, PageFollows DEF AnyPageShows

\* Every request of the page is answered by the handler it is meant for.
LEMMA AllPagesServed == PagesServed
<1>1. ASSUME NEW uri \in PageFiles \cup PageRequests
      PROVE  HandlerOf("GET", uri) = "getHandler" /\ Head(GetHandler(uri)) = uri
  <2>1. Matching("GET", uri) = {1}
    BY DEF Matching, UriHandlers
  <2>2. HandlerOf("GET", uri) = "getHandler"
    BY <2>1, MinOfOne DEF HandlerOf, UriHandlers
  <2>3. Head(GetHandler(uri)) = uri
    BY DEF GetHandler, PageFiles
  <2> QED
    BY <2>2, <2>3
<1>2. ASSUME NEW uri \in PagePosts PROVE HandlerOf("POST", uri) # "getHandler"
  <2>1. CASE uri = "api/config"
    <3>1. Matching("POST", uri) = {2}
      BY <2>1 DEF Matching, UriHandlers
    <3> QED
      BY <3>1, MinOfOne DEF HandlerOf, UriHandlers
  <2>2. CASE uri = "api/update"
    <3>1. Matching("POST", uri) = {3}
      BY <2>2 DEF Matching, UriHandlers
    <3> QED
      BY <3>1, MinOfOne DEF HandlerOf, UriHandlers
  <2> QED
    BY <2>1, <2>2 DEF PagePosts
<1> QED
  BY <1>1, <1>2 DEF PagesServed

\* The text of errors the page is given is the list's, and one payload older: it is there
\* until the second acknowledgement in a row.
StatusInv ==
    /\ pulses \in [Channels -> 0 .. MaxPulses]
    /\ run \in 0 .. MaxRuns
    /\ mqttStatus \in 0 .. MaxRuns
    /\ \/ errors = TRUE /\ calm \in {0, 1}
       \/ errors = FALSE /\ calm = 2
    /\ mqttErrorsCount > 0 <=> calm = 0

LEMMA StatusInductive == Spec => []StatusInv
<1>0. {MaxRuns, MaxPulses} \subseteq Nat
  BY BoundsAssumption
<1>1. Init => StatusInv
  BY <1>0 DEF Init, StatusInv
<1>2. StatusInv /\ ErrorInv /\ [Next]_vars => StatusInv'
  <2> SUFFICES ASSUME StatusInv, ErrorInv, [Next]_vars PROVE StatusInv'
    OBVIOUS
  <2>0. mqttErrorsCount \in Nat
    BY BoundsAssumption DEF ErrorInv
  <2>1. ASSUME NEW c \in Channels, Pulse(c) PROVE StatusInv'
    <3>1. pulses' \in [Channels -> 0 .. MaxPulses]
      <4>1. pulses[c] \in 0 .. MaxPulses /\ pulses[c] < MaxPulses
        BY <2>1 DEF Pulse, StatusInv
      <4>2. pulses[c] + 1 \in 0 .. MaxPulses
        BY <1>0, <4>1
      <4> QED
        BY <2>1, <4>2 DEF Pulse, StatusInv
    <3>2. UNCHANGED <<run, mqttStatus, errors, calm, mqttErrorsCount>>
      BY <2>1 DEF Pulse, runVars, mqttVars, errorVars
    <3> QED
      BY <3>1, <3>2 DEF StatusInv
  <2>2. CASE Execute
    <3>1. run' \in 0 .. MaxRuns
      BY <1>0, <2>2 DEF Execute, StatusInv
    <3>2. UNCHANGED <<pulses, mqttStatus, errors, calm, mqttErrorsCount>>
      BY <2>2 DEF Execute, mqttVars, errorVars
    <3> QED
      BY <3>1, <3>2 DEF StatusInv
  <2>3. CASE OnPublished
    <3>1. /\ UNCHANGED <<pulses, run>> /\ mqttStatus' = run
          /\ errors' = (mqttErrorsCount > 0)
          /\ calm' = (IF calm = 0 THEN 1 ELSE 2) /\ mqttErrorsCount' = 0
      BY <2>3 DEF OnPublished, ErrorsOf, runVars
    <3>2. CASE calm = 0
      <4>1. (mqttErrorsCount > 0) = TRUE
        BY <3>2 DEF StatusInv
      <4>2. errors' = TRUE /\ calm' = 1
        BY <3>1, <3>2, <4>1
      <4> QED
        BY <3>1, <4>2 DEF StatusInv
    <3>3. CASE calm # 0
      <4>1. (mqttErrorsCount > 0) = FALSE
        BY <3>3 DEF StatusInv
      <4>2. errors' = FALSE /\ calm' = 2
        BY <3>1, <3>3, <4>1
      <4> QED
        BY <3>1, <4>2 DEF StatusInv
    <3> QED
      BY <3>2, <3>3
  <2>4. ASSUME NEW m \in Messages, OnError(m) PROVE StatusInv'
    <3>1. /\ UNCHANGED <<pulses, run>> /\ mqttStatus' = 0
          /\ errors' = (mqttErrorsCount' > 0) /\ calm' = 0
      BY <2>4 DEF OnError, ErrorsOf, runVars
    <3>2. mqttErrorsCount' \in Nat \ {0}
      <4>1. CASE Known(m) # {}
        <5>1. mqttErrorsCount' = mqttErrorsCount
          BY <2>4, <4>1 DEF OnError, UpdateMqttErrors
        <5>2. PICK i : i \in 1 .. mqttErrorsCount
          BY <4>1 DEF Known
        <5> QED
          BY <2>0, <5>1, <5>2
      <4>2. CASE Known(m) = {}
        <5>1. mqttErrorsCount' = IF IsFull THEN MAX_ERRORS ELSE mqttErrorsCount + 1
          BY <2>4, <4>2 DEF OnError, UpdateMqttErrors
        <5> QED
          BY <2>0, <5>1, BoundsAssumption
      <4> QED
        BY <4>1, <4>2
    <3>3. (mqttErrorsCount' > 0) = TRUE
      BY <3>2
    <3>4. errors' = TRUE
      BY <3>1, <3>3
    <3> QED
      <4>1. UNCHANGED <<pulses, run>> /\ mqttStatus' = 0 /\ calm' = 0
        BY <3>1
      <4>2. mqttErrorsCount' > 0 /\ 0 \in 0 .. MaxRuns
        BY <1>0, <3>2
      <4>3. /\ pulses' \in [Channels -> 0 .. MaxPulses] /\ run' \in 0 .. MaxRuns
            /\ mqttStatus' \in 0 .. MaxRuns
        BY <4>1, <4>2 DEF StatusInv
      <4>4. calm' \in {0, 1}
        BY <4>1
      <4>5. mqttErrorsCount' > 0 <=> calm' = 0
        BY <4>1, <4>2
      <4> QED
        BY <3>4, <4>3, <4>4, <4>5 DEF StatusInv
  <2>5. CASE UNCHANGED <<pulses, run, mqttStatus, errors, calm, mqttErrorsCount>>
    BY <2>5 DEF StatusInv
  <2> QED
    BY <2>1, <2>2, <2>3, <2>4, <2>5
    DEF Next, vars, runVars, mqttVars, errorVars, StoreCount, ResetCounters, GeneratePayload,
        Publish, EndPublish, Mqtt, OnConnected, Receive, BrokerChanges
<1> QED
  BY <1>1, <1>2, ErrorInductive, PTL DEF Spec

\* Whenever the device has no errors to tell of, the page shows what it has counted and
\* published, however the runs, the broker's absence and the pulses fall together; and errors
\* there are from the first one to an acknowledged payload, and none after the second.
THEOREM AlwaysFollowed == Spec => []StatusShown
<1>1. StatusInv /\ DeliverInv /\ PayloadInv => StatusShown
  <2> SUFFICES ASSUME StatusInv, DeliverInv, PayloadInv PROVE StatusShown
    OBVIOUS
  <2>1. ASSUME NEW c \in Channels, c.in # NoInputPort
        PROVE  <<[mqttStatus |-> mqttStatus, of |-> c, trace |-> TraceOf(c)], TRUE>> \in Verdicts
    <3>1. counter[c] \in Nat /\ batch[c] \in Nat /\ delivered[c] \in Nat
          /\ pulses[c] \in 0 .. MaxPulses
      BY DEF StatusInv, DeliverInv, PayloadInv, BatchTypes
    <3>2. Pending(c) \in Nat
      BY <3>1 DEF Pending
    <3>3. counter[c] <= pulses[c]
      <4>1. delivered[c] + counter[c] + Pending(c) <= pulses[c]
        BY DEF DeliverInv
      <4> QED
        BY <3>1, <3>2, <4>1
    <3>4. counter[c] \in 0 .. MaxPulses
      BY <3>1, <3>3, BoundsAssumption
    <3>5. TraceOf(c) \in Traces
      BY <3>1, <3>3, <3>4 DEF Traces, TraceOf
    <3>6. PICK d : d = [mqttStatus |-> mqttStatus, of |-> c, trace |-> TraceOf(c)]
      OBVIOUS
    <3>7. d \in Statuses /\ d.of = c
      BY <3>5, <3>6 DEF Statuses, StatusInv
    <3>8. AnyPageShows(d) = TRUE
      <4>1. AnyPageShows(d)
        BY <2>1, <3>7, AllPagesShow
      <4>2. AnyPageShows(d) \in BOOLEAN
        BY DEF AnyPageShows
      <4> QED
        BY <4>1, <4>2
    <3> QED
      BY <3>6, <3>7, <3>8 DEF Verdicts
  <2> QED
    <3>1. (calm = 0 => errors) /\ (calm = 2 => ~ errors)
      BY DEF StatusInv
    <3> QED
      BY <2>1, <3>1, AllPagesServed DEF StatusShown
<1> QED
  BY <1>1, StatusInductive, DeliverInductive, PayloadInductive, PTL
=============================================================================
