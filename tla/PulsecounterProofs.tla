-------------------------- MODULE PulsecounterProofs --------------------------
(***************************************************************************)
(* Theorems about the reader thread, for every board, wiring and           *)
(* configuration that satisfy the assumptions of Pulsecounter, and about   *)
(* what a failing I2C bus can do to the counters, for any number of        *)
(* failing transfers.                                                      *)
(***************************************************************************)
EXTENDS FaultyBus, TLAPS, WellFoundedInduction

-----------------------------------------------------------------------------
(* Minima and maxima of sets of naturals                                    *)

LessThan == {ss \in Nat \X Nat : ss[1] < ss[2]}

\* A set of naturals that is not empty has a smallest element.
LEMMA MinOfNats ==
    ASSUME NEW S, S \subseteq Nat, S # {}
    PROVE  Min(S) \in S /\ \A n \in S : Min(S) <= n
<1>1. IsWellFoundedOn(LessThan, Nat)
  BY NatLessThanWellFounded DEF OpToRel, LessThan
<1>2. PICK x \in S : \A y \in S : <<y, x>> \notin LessThan
  BY <1>1, WFMin
<1>3. \A y \in S : x \in Nat /\ y \in Nat /\ ~ (y < x)
  BY <1>2 DEF LessThan
<1>4. \A y \in S : x <= y
  BY <1>3
<1> QED
  BY <1>4 DEF Min

\* A bounded set of naturals that is not empty has a largest element.
LEMMA MaxOfNats ==
    ASSUME NEW S, NEW b \in Nat, S \subseteq 0 .. b, S # {}
    PROVE  Max(S) \in S /\ \A n \in S : Max(S) >= n
<1> DEFINE D == {b - n : n \in S}
<1>0. \A n \in S : n \in 0 .. b /\ b - n \in Nat
  OBVIOUS
<1>1. D \subseteq Nat /\ D # {}
  BY <1>0
<1>2. Min(D) \in D /\ \A d \in D : Min(D) <= d
  BY <1>1, MinOfNats
<1>3. PICK x \in S : \A n \in S : b - x <= b - n
  BY <1>2
<1>4. \A n \in S : x >= n
  BY <1>3
<1> QED
  BY <1>4 DEF Max

-----------------------------------------------------------------------------
(* The configuration                                                        *)

\* What the assumptions say of the table of counters.
LEMMA SlotFacts ==
    /\ Len(Counters) \in Nat
    /\ DOMAIN Counters = 1 .. Len(Counters)
    /\ NumSlots \in Nat
    /\ Slots \subseteq DOMAIN Counters
    /\ \A s \in DOMAIN Counters : Out(s) \in Groups /\ In(s) \in InPorts \cup {NoPort}
    /\ \A m \in Meters : \E s \in Slots : m = MeterOf(s) /\ In(s) \in InPorts
    /\ \A s \in Slots : Used(s) => MeterOf(s) \in Meters /\ In(s) \in InPorts
<1>1. Counters \in Seq(CounterConfig)
  BY ConfigAssumption
<1>2. Len(Counters) \in Nat /\ DOMAIN Counters = 1 .. Len(Counters)
  BY <1>1
<1>3. NumSlots \in Nat /\ Slots \subseteq DOMAIN Counters
  BY <1>2, BoardAssumption DEF NumSlots, Slots
<1>4. \A s \in DOMAIN Counters : Counters[s] \in CounterConfig
  BY <1>1
<1>5. \A s \in DOMAIN Counters : Out(s) \in Groups /\ In(s) \in InPorts \cup {NoPort}
  BY <1>4 DEF Out, In, CounterConfig
<1>6. ASSUME NEW m \in Meters PROVE \E s \in Slots : m = MeterOf(s) /\ In(s) \in InPorts
  BY <1>3, <1>5, WiringAssumption DEF Channels, MeterOf
<1>7. ASSUME NEW s \in Slots, Used(s) PROVE MeterOf(s) \in Meters /\ In(s) \in InPorts
  BY <1>6, <1>7 DEF Used, MeterOf
<1> QED
  BY <1>2, <1>3, <1>5, <1>6, <1>7

\* The numerals are hidden in the steps that do not need them.
LEMMA BoundsType == MaxInt \in Nat \ {0} /\ HourInMillis \in Nat
  BY SMT DEF MaxInt, HourInMillis

\* The divider that sets an output's period is a natural number.
LEMMA MaxDividerType == \A p : MaxDivider(p) \in Nat
<1> TAKE p
<1> DEFINE D == {1} \cup {Counters[i].divider : i \in {j \in DOMAIN Counters : Counters[j].out = p}}
<1>1. Counters \in Seq(CounterConfig)
  BY ConfigAssumption
<1>2. \A i \in DOMAIN Counters : Counters[i] \in CounterConfig
  BY <1>1
<1>3. \A i \in DOMAIN Counters : Counters[i].divider \in Dividers
  BY <1>2 DEF CounterConfig
<1>4. D \subseteq 0 .. MaxInt /\ D # {}
  BY <1>3, BoundsType DEF Dividers
<1>5. Max(D) \in D
  BY <1>4, MaxOfNats, BoundsType
<1> QED
  BY <1>4, <1>5, BoundsType DEF MaxDivider

\* Integer division of natural numbers gives a natural number.
LEMMA DivNat == ASSUME NEW n \in Nat, NEW k \in Nat \ {0} PROVE n \div k \in Nat
  OBVIOUS

\* The sampling period of setOutputConfiguration is a natural number.
LEMMA MaxCountType == \A p : MaxCount(p) \in Nat
<1> TAKE p
<1>1. 5 * MaxDivider(p) \in Nat
  BY MaxDividerType
<1>2. WaitTimeInMillis \in 1 .. HourInMillis
  BY BoardAssumption
<1>3. HourInMillis \div WaitTimeInMillis \in Nat \ {0}
  BY <1>2, BoundsType
<1>4. 2 * (HourInMillis \div WaitTimeInMillis) \in Nat \ {0}
  BY <1>3
<1>5. (5 * MaxDivider(p)) \div (2 * (HourInMillis \div WaitTimeInMillis)) \in Nat
  BY <1>1, <1>4, DivNat
<1> QED
  BY <1>5 DEF MaxCount

-----------------------------------------------------------------------------
(* Type correctness                                                         *)

\* The masks of setOutputConfiguration and what the input expanders give are port sets.
LEMMA ConfigTypes == /\ OutPorts \subseteq Groups /\ NoPort \in Groups
                     /\ RestMask \subseteq OutPorts
                     /\ \A p \in OutPorts : OnMask(p) \subseteq OutPorts
                     /\ 0 \in 0 .. NumOutPorts
                     /\ \A m : m \in Meters => MinHold[m] \in Nat
                     /\ \A mask : ReadInputPorts(mask) \subseteq InPorts
<1>1. \A i \in DOMAIN Outputs : Outputs[i].port \in OutPorts
  <2>1. \A i \in DOMAIN Outputs : Outputs[i] \in OutputConfig
    BY ConfigAssumption
  <2> QED
    BY <2>1 DEF OutputConfig
<1>2. EMeters \subseteq OutPorts /\ WaterMeters \subseteq OutPorts
  BY <1>1 DEF EMeters, WaterMeters, PortsOf
<1>3. 0 \in 0 .. NumOutPorts
  BY BoardAssumption
<1> QED
  BY <1>2, <1>3, ConfigAssumption DEF Groups, RestMask, OnMask, ReadInputPorts

\* A count a batch reads is a natural number, whether the channel has a slot or not.
LEMMA GetCountsType ==
    ASSUME counter \in [Slots -> Nat], NEW out, NEW in
    PROVE  GetCounts(out, in) \in Nat
<1> DEFINE same == {s \in Slots : Out(s) = out /\ In(s) = in}
<1>1. CASE same = {}
  BY <1>1 DEF GetCounts
<1>2. CASE same # {}
  <2>1. same \subseteq Nat
    BY SlotFacts DEF Slots
  <2>2. Min(same) \in same
    BY <1>2, <2>1, MinOfNats
  <2>3. GetCounts(out, in) = counter[Min(same)]
    BY <1>2 DEF GetCounts
  <2> QED
    BY <2>2, <2>3
<1> QED
  BY <1>1, <1>2

\* A sample keeps the types of what it changes.
LEMMA SampleType ==
    ASSUME TypeOK, NEW g \in Groups, NEW mask \in SUBSET OutPorts,
           NEW lines \in SUBSET InPorts, SampleReading(g, mask, lines)
    PROVE  /\ outputPorts' \subseteq OutPorts
           /\ previousInputMask' \in [Groups -> SUBSET InPorts]
           /\ currentInputMask' \in [Groups -> SUBSET InPorts]
           /\ risingEdges' \in BOOLEAN
           /\ edges' \in [Slots -> Nat]
<1>1. previousInputMask' \in [Groups -> SUBSET InPorts]
  BY DEF Sample, SampleReading, TypeOK
<1>2. currentInputMask' \in [Groups -> SUBSET InPorts]
  BY ConfigTypes DEF Sample, SampleReading, TypeOK
<1>3. risingEdges' \in BOOLEAN
  BY DEF Sample, SampleReading, TypeOK, Accumulated
<1>4. edges' \in [Slots -> Nat]
  BY DEF Sample, SampleReading, TypeOK
<1> QED
  BY <1>1, <1>2, <1>3, <1>4 DEF Sample, SampleReading

\* Every variable keeps its type: in particular no countdown runs below zero and the
\* masks and registers only ever hold ports of the board.
LEMMA TypeInductive == (Init => TypeOK) /\ (TypeOK /\ [Next]_vars => TypeOK')
<1>1. Init => TypeOK
  <2> SUFFICES ASSUME Init PROVE TypeOK
    OBVIOUS
  <2>1. currentInputMask \in [Groups -> SUBSET InPorts]
    BY ConfigTypes DEF Init, InitReading
  <2>2. previousInputMask \in [Groups -> SUBSET InPorts]
    BY <2>1 DEF Init, InitReading
  <2>3. outputPorts \subseteq OutPorts
    BY ConfigTypes DEF Init, InitReading
  <2>4. storeIdx \in 0 .. Len(Counters) + 1 /\ scan \in 0 .. NumOutPorts
    BY SlotFacts, ConfigTypes DEF Init, InitReading
  <2> QED
    BY <2>1, <2>2, <2>3, <2>4 DEF Init, InitReading, TypeOK
<1>2. TypeOK /\ [Next]_vars => TypeOK'
  <2> SUFFICES ASSUME TypeOK, [Next]_vars PROVE TypeOK'
    OBVIOUS
  <2> USE DEF TypeOK
  <2>1. ASSUME NEW m \in Meters, CloseContact(m) PROVE TypeOK'
    BY <2>1 DEF CloseContact, Toggle, sampleVars, storeVars
  <2>2. ASSUME NEW m \in Meters, OpenContact(m) PROVE TypeOK'
    BY <2>2 DEF OpenContact, Toggle, sampleVars, storeVars
  <2>3. CASE Elapse
    BY <2>3 DEF Elapse, sampleVars, storeVars
  <2>4. CASE StartIteration
    BY <2>4, ConfigTypes
       DEF StartIteration, StartIterationReading, CountersAfterReset, meterVars, storeVars
  <2>5. CASE SampleOutput
    <3>1. scan \in OutPorts /\ scan + 1 \in 0 .. NumOutPorts
      BY <2>5, BoardAssumption DEF SampleOutput, OutputDue, OutputSampled, OutPorts
    <3>2. (currentMask \ PcMask) \cup OnMask(scan) \in SUBSET OutPorts
      BY <3>1, ConfigTypes
    <3> QED
      BY <2>5, <3>1, <3>2, SampleType, ConfigTypes
         DEF Sample, SampleOutput, OutputDue, OutputSampled, meterVars, storeVars
  <2>6. CASE SkipOutput
    BY <2>6, BoardAssumption DEF SkipOutput, meterVars, sampleVars, storeVars
  <2>7. CASE SampleNoOutput
    BY <2>7, SampleType, ConfigTypes
       DEF Sample, SampleNoOutput, ScanComplete, DirectSampled, meterVars, storeVars
  <2>8. CASE CountPulses
    BY <2>8 DEF CountPulses, meterVars, sampleVars, storeVars
  <2>9. CASE CountDown
    <3>1. \A p \in OutPorts : NextCount(p) \in Nat
      BY MaxCountType DEF NextCount
    <3> QED
      BY <2>9, <3>1, BoardAssumption DEF CountDown, meterVars, sampleVars, storeVars
  <2>10. CASE StartStore
    BY <2>10, SlotFacts DEF StartStore, meterVars, sampleVars
  <2>11. CASE StoreCount
    BY <2>11, SlotFacts, GetCountsType, SMTT(30) DEF StoreCount, meterVars, sampleVars
  <2>12. CASE RequestReset
    BY <2>12, SlotFacts DEF RequestReset, meterVars, sampleVars
  <2>13. CASE UNCHANGED vars
    BY <2>13 DEF vars
  <2> QED
    BY <2>1, <2>2, <2>3, <2>4, <2>5, <2>6, <2>7, <2>8, <2>9, <2>10, <2>11, <2>12, <2>13
       DEF Next, Reader, Store
<1> QED
  BY <1>1, <1>2

\* Type correctness, for every board and configuration: no countdown of readInput runs below
\* zero, the batch never leaves the list of counters, the registers hold ports only.
THEOREM TypeCorrect == Spec => []TypeOK
  BY TypeInductive, PTL DEF Spec

-----------------------------------------------------------------------------
(* No phantom pulses                                                        *)

\* Ports have one type, and a counted meter hangs at a port that has one.
LEMMA Wiring ==
    /\ EMeters \cap WaterMeters = {}
    /\ NoPort \notin EMeters \cup WaterMeters
    /\ \A m \in Meters \ Direct : m[1] \in EMeters \cup WaterMeters
    /\ \A d \in Direct, m \in Meters \ Direct : d[2] # m[2]
<1>1. \A i \in DOMAIN Outputs : Outputs[i] \in OutputConfig
  BY ConfigAssumption
<1>2. \A i \in DOMAIN Outputs : /\ Outputs[i].port \in OutPorts
                                /\ Outputs[i].type \in {EMeterType, WaterMeterType, NoType}
  BY <1>1 DEF OutputConfig
<1>3. EMeters \cap WaterMeters = {}
  <2>1. EMeterType # WaterMeterType
    BY DEF EMeterType, WaterMeterType
  <2> QED
    BY <2>1, ConfigAssumption DEF EMeters, WaterMeters, PortsOf
<1>4. NoPort \notin EMeters \cup WaterMeters
  BY <1>2, BoardAssumption DEF EMeters, WaterMeters, PortsOf
<1>5. ASSUME NEW m \in Meters \ Direct PROVE m[1] \in EMeters \cup WaterMeters
  BY <1>2, WiringAssumption DEF EMeters, WaterMeters, PortsOf
<1> QED
  BY <1>3, <1>4, <1>5, WiringAssumption

\* While an output is sampled, its meters and the direct ones are the connected ones.
LEMMA SelectOne ==
    ASSUME NEW p \in OutPorts, NEW m \in Meters,
           NEW mask, mask = (currentMask \ PcMask) \cup OnMask(p)
    PROVE  m \in Selected(mask) <=> m \in Direct \/ m[1] = p
<1>1. CASE m \in Direct
  BY <1>1 DEF Selected
<1>2. CASE m \notin Direct /\ m[1] \in EMeters
  BY <1>2, Wiring DEF Selected, PcMask, OnMask
<1>3. CASE m \notin Direct /\ m[1] \in WaterMeters
  BY <1>3, Wiring DEF Selected, PcMask, OnMask
<1> QED
  BY <1>1, <1>2, <1>3, Wiring

\* What the sample of slot s's group shows at its line is the contact of its own meter.
LEMMA SampleShowsMeter ==
    ASSUME TypeOK, NEW s \in Slots, Used(s), NEW mask,
           \/ Out(s) \in OutPorts /\ mask = (currentMask \ PcMask) \cup OnMask(Out(s))
           \/ Out(s) = NoPort
    PROVE  In(s) \in ReadInputPorts(mask) <=> MeterOf(s) \notin closed
<1> DEFINE m == MeterOf(s)
<1>1. m \in Meters /\ In(s) \in InPorts
  BY SlotFacts DEF Used
<1>2. m[1] = Out(s) /\ m[2] = In(s)
  BY DEF MeterOf
<1>3. m \in Selected(mask)
  <2>1. CASE Out(s) = NoPort
    BY <2>1, <1>1, <1>2 DEF Selected, Direct
  <2>2. CASE Out(s) \in OutPorts
    BY <2>2, <1>1, <1>2, SelectOne, BoardAssumption
  <2> QED
    BY <2>1, <2>2, SlotFacts DEF Groups
<1>4. ASSUME NEW k \in Selected(mask), k[2] = In(s) PROVE k = m
  <2>1. k \in Meters
    BY DEF Selected
  <2>2. PICK t \in Slots : k = <<Out(t), In(t)>>
    BY <2>1, SlotFacts DEF MeterOf
  <2>3. k[1] = Out(s)
    <3>1. CASE Out(s) = NoPort
      BY <3>1, <1>1, <1>2, <1>4, <2>1, Wiring DEF Direct
    <3>2. CASE Out(s) \in OutPorts
      <4>1. m \notin Direct
        BY <3>2, <1>2, BoardAssumption DEF Direct
      <4>2. k \notin Direct
        BY <4>1, <1>1, <1>2, <1>4, Wiring
      <4> QED
        BY <4>2, <3>2, <2>1, <1>4, SelectOne, BoardAssumption
    <3> QED
      BY <3>1, <3>2, SlotFacts DEF Groups
  <2> QED
    BY <2>2, <2>3, <1>4 DEF MeterOf
<1>5. ReadInputPorts(mask) = InPorts \ {k[2] : k \in Selected(mask) \cap closed}
  BY DEF ReadInputPorts
<1> QED
  BY <1>1, <1>2, <1>3, <1>4, <1>5

\* The invariant behind it: a slot whose last sample was low while its meter's contact
\* is open has a pulse in hand that no sample has shown yet.
PulseInHand(s) ==
    In(s) \notin currentInputMask[Out(s)] /\ MeterOf(s) \notin closed
        => edges[s] + 1 <= pulses[MeterOf(s)]

PhantomInv == \A s \in Slots : Used(s) => edges[s] <= pulses[MeterOf(s)] /\ PulseInHand(s)

\* One sample, taken under a mask that shows the slots' own meters.
LEMMA SamplePhantom ==
    ASSUME TypeOK, PhantomInv, NEW g \in Groups, NEW mask, Sample(g, mask),
           UNCHANGED <<closed, pulses>>,
           \/ g \in OutPorts /\ mask = (currentMask \ PcMask) \cup OnMask(g)
           \/ g = NoPort
    PROVE  PhantomInv'
<1> SUFFICES ASSUME NEW s \in Slots, Used(s)
             PROVE  (edges[s] <= pulses[MeterOf(s)] /\ PulseInHand(s))'
  BY DEF PhantomInv, Used
<1>1. edges[s] <= pulses[MeterOf(s)] /\ PulseInHand(s)
  BY DEF PhantomInv
<1>2. edges[s] \in Nat /\ pulses[MeterOf(s)] \in Nat /\ Out(s) \in Groups /\ In(s) # NoPort
  BY SlotFacts, BoardAssumption DEF TypeOK
<1>3. CASE Out(s) # g
  <2>1. edges'[s] = edges[s] /\ currentInputMask'[Out(s)] = currentInputMask[Out(s)]
    BY <1>2, <1>3 DEF Sample, SampleReading, TypeOK
  <2> QED
    BY <1>1, <2>1 DEF PulseInHand
<1>4. CASE Out(s) = g
  <2>1. /\ currentInputMask'[g] = ReadInputPorts(mask)
        /\ previousInputMask'[g] = currentInputMask[g]
    BY DEF Sample, SampleReading, TypeOK
  <2>2. In(s) \in currentInputMask'[g] <=> MeterOf(s) \notin closed
    BY <2>1, <1>4, SampleShowsMeter
  <2>3. CASE In(s) \in currentInputMask'[g] \ currentInputMask[g]
    <3>1. edges'[s] = edges[s] + 1
      BY <2>1, <2>3, <1>2, <1>4 DEF Sample, SampleReading, InputHasRisingEdge
    <3> QED
      BY <3>1, <2>2, <2>3, <1>1, <1>2, <1>4 DEF PulseInHand
  <2>4. CASE In(s) \notin currentInputMask'[g] \ currentInputMask[g]
    <3>1. edges'[s] = edges[s]
      BY <2>1, <2>4, <1>2, <1>4 DEF Sample, SampleReading, InputHasRisingEdge
    <3> QED
      BY <3>1, <2>2, <2>4, <1>1, <1>2, <1>4 DEF PulseInHand
  <2> QED
    BY <2>3, <2>4
<1> QED
  BY <1>3, <1>4

\* Every step keeps a pulse in hand for each edge that the next sample may show.
LEMMA PhantomInductive ==
    (Init => PhantomInv) /\ (TypeOK /\ PhantomInv /\ [Next]_vars => PhantomInv')
<1>1. Init => PhantomInv
  <2> SUFFICES ASSUME Init, NEW s \in Slots, Used(s)
               PROVE  edges[s] <= pulses[MeterOf(s)] /\ PulseInHand(s)
    BY DEF PhantomInv
  <2>1. MeterOf(s) \in Meters /\ In(s) \in InPorts /\ Out(s) \in Groups
    BY SlotFacts DEF Used
  <2>2. edges[s] = 0 /\ pulses[MeterOf(s)] = 0
    BY <2>1 DEF Init, InitReading
  <2>3. CASE Out(s) # NoPort
    <3>1. In(s) \in currentInputMask[Out(s)]
      BY <2>1, <2>3 DEF Init, InitReading
    <3> QED
      BY <2>2, <3>1 DEF PulseInHand
  <2>4. CASE Out(s) = NoPort
    <3>1. TypeOK
      BY TypeInductive
    <3>2. currentInputMask[NoPort] = ReadInputPorts(OutPorts)
      BY ConfigTypes DEF Init, InitReading
    <3>3. In(s) \in currentInputMask[Out(s)] <=> MeterOf(s) \notin closed
      BY <2>4, <3>1, <3>2, SampleShowsMeter
    <3> QED
      BY <2>2, <3>3 DEF PulseInHand
  <2> QED
    BY <2>3, <2>4
<1>2. TypeOK /\ PhantomInv /\ [Next]_vars => PhantomInv'
  <2> SUFFICES ASSUME TypeOK, PhantomInv, [Next]_vars PROVE PhantomInv'
    OBVIOUS
  <2>1. ASSUME NEW m \in Meters, CloseContact(m) PROVE PhantomInv'
    BY <2>1 DEF CloseContact, Toggle, sampleVars, PhantomInv, PulseInHand
  <2>2. ASSUME NEW m \in Meters, OpenContact(m) PROVE PhantomInv'
    <3> SUFFICES ASSUME NEW s \in Slots, Used(s)
                 PROVE  (edges[s] <= pulses[MeterOf(s)] /\ PulseInHand(s))'
      BY DEF PhantomInv
    <3>1. edges' = edges /\ currentInputMask' = currentInputMask /\ closed' = closed \ {m}
      BY <2>2 DEF OpenContact, Toggle, sampleVars
    <3>2. edges[s] <= pulses[MeterOf(s)] /\ PulseInHand(s)
      BY DEF PhantomInv
    <3>3. edges[s] \in Nat /\ pulses[MeterOf(s)] \in Nat /\ MeterOf(s) \in Meters
      BY SlotFacts DEF TypeOK
    <3>4. CASE MeterOf(s) = m
      <4>1. pulses'[MeterOf(s)] = pulses[MeterOf(s)] + 1
        BY <2>2, <3>4, <3>3 DEF OpenContact, TypeOK
      <4> QED
        BY <4>1, <3>1, <3>2, <3>3 DEF PulseInHand
    <3>5. CASE MeterOf(s) # m
      <4>1. pulses'[MeterOf(s)] = pulses[MeterOf(s)]
        BY <2>2, <3>5, <3>3 DEF OpenContact, TypeOK
      <4> QED
        BY <4>1, <3>1, <3>2, <3>5 DEF PulseInHand
    <3> QED
      BY <3>4, <3>5
  <2>3. CASE SampleOutput
    <3>1. scan \in OutPorts
      BY <2>3, BoardAssumption DEF SampleOutput, OutputDue, OutputSampled, OutPorts, TypeOK
    <3> QED
      BY <2>3, <3>1, SamplePhantom, ConfigTypes
         DEF SampleOutput, OutputDue, OutputSampled, meterVars
  <2>4. CASE SampleNoOutput
    BY <2>4, SamplePhantom, ConfigTypes DEF SampleNoOutput, ScanComplete, DirectSampled, meterVars
  <2>5. CASE UNCHANGED <<closed, pulses, edges, currentInputMask>>
    BY <2>5 DEF PhantomInv, PulseInHand
  <2> QED
    BY <2>1, <2>2, <2>3, <2>4, <2>5
      
         DEF Next, Reader, Store, Elapse, StartIteration, StartIterationReading, SkipOutput,
             CountPulses, CountDown,
           StartStore, StoreCount, RequestReset, vars, meterVars, sampleVars
<1> QED
  BY <1>1, <1>2

\* The edges readInputsRisingEdge shows for a counter are pulses of the meter it belongs to,
\* for every matrix: switching the outputs makes none, nor does another meter of the line.
THEOREM NoPhantom == Spec => []NoPhantomPulse
<1>1. PhantomInv => NoPhantomPulse
  BY DEF PhantomInv, NoPhantomPulse
<1> QED
  BY <1>1, PhantomInductive, TypeInductive, PTL DEF Spec

-----------------------------------------------------------------------------
(* Every edge counts                                                        *)

\* Its group has been sampled in this iteration and not counted yet.
Pending(s) ==
    /\ risingEdges
    /\ InputHasRisingEdge(s, previousInputMask, currentInputMask)
    /\ \/ pc = "scan" /\ Out(s) # NoPort /\ Out(s) < scan
       \/ pc = "count"

\* An edge that is not counted yet is alone, is noted in risingEdges, and will not be
\* overwritten before countPulses looks at the masks.
EdgeInv ==
    \A s \in Slots : \/ edges[s] <= counted[s]
                     \/ edges[s] <= counted[s] + 1 /\ Pending(s)

\* A sample of a group that has not been sampled in this iteration.
LEMMA SampleEdge ==
    ASSUME TypeOK, EdgeInv, NEW g \in Groups, NEW mask, NEW lines, SampleReading(g, mask, lines),
           counted' = counted, pc = "scan",
           \/ g \in OutPorts /\ g = scan /\ scan' = scan + 1 /\ pc' = "scan"
           \/ g = NoPort /\ pc' = "count"
    PROVE  EdgeInv'
<1> SUFFICES ASSUME NEW s \in Slots
             PROVE  (\/ edges[s] <= counted[s]
                     \/ edges[s] <= counted[s] + 1 /\ Pending(s))'
  BY DEF EdgeInv
<1>1. edges[s] <= counted[s] \/ (edges[s] <= counted[s] + 1 /\ Pending(s))
  BY DEF EdgeInv
<1>2. edges[s] \in Nat /\ counted[s] \in Nat /\ Out(s) \in Groups /\ scan \in Nat
  BY SlotFacts DEF TypeOK
<1>3. CASE Out(s) # g
  <2>1. /\ edges'[s] = edges[s]
        /\ currentInputMask'[Out(s)] = currentInputMask[Out(s)]
        /\ previousInputMask'[Out(s)] = previousInputMask[Out(s)]
    BY <1>2, <1>3 DEF Sample, SampleReading, TypeOK
  <2>2. risingEdges => risingEdges'
    BY DEF Sample, SampleReading, Accumulated
  <2>3. Out(s) \in OutPorts => Out(s) \in Nat
    BY DEF OutPorts
  <2>4. Pending(s) => Pending(s)'
    BY <2>1, <2>2, <2>3, <1>2 DEF Pending, InputHasRisingEdge, Groups
  <2> QED
    BY <1>1, <2>1, <2>4
<1>4. CASE Out(s) = g
  <2>1. ~ Pending(s)
    BY <1>2, <1>4, BoardAssumption DEF Pending
  <2>2. /\ edges'[s] = edges[s]
        \/ /\ edges'[s] = edges[s] + 1
           /\ InputHasRisingEdge(s, previousInputMask', currentInputMask')
    BY <1>4 DEF Sample, SampleReading
  <2>3. ASSUME InputHasRisingEdge(s, previousInputMask', currentInputMask')
        PROVE  Pending(s)'
    <3>1. risingEdges'
      BY <2>3, <1>4 DEF Sample, SampleReading, Accumulated, InputHasRisingEdge
    <3>2. g \in OutPorts => g # NoPort /\ g < g + 1
      BY BoardAssumption DEF OutPorts
    <3> QED
      BY <2>3, <3>1, <3>2, <1>4 DEF Pending, InputHasRisingEdge
  <2> QED
    BY <1>1, <1>2, <2>1, <2>2, <2>3
<1> QED
  BY <1>3, <1>4

\* Every step of the reader keeps the edges that are not counted yet in view.
LEMMA EdgeInductive == (Init => EdgeInv) /\ (TypeOK /\ EdgeInv /\ [Next]_vars => EdgeInv')
<1>1. Init => EdgeInv
  BY DEF Init, InitReading, EdgeInv
<1>2. TypeOK /\ EdgeInv /\ [Next]_vars => EdgeInv'
  <2> SUFFICES ASSUME TypeOK, EdgeInv, [Next]_vars PROVE EdgeInv'
    OBVIOUS
  <2>1. CASE SampleOutput
    <3>1. scan \in OutPorts
      BY <2>1, BoardAssumption DEF SampleOutput, OutputDue, OutputSampled, OutPorts, TypeOK
    <3> QED
      BY <2>1, <3>1, SampleEdge, ConfigTypes DEF Sample, SampleOutput, OutputDue, OutputSampled
  <2>2. CASE SampleNoOutput
    BY <2>2, SampleEdge, ConfigTypes DEF Sample, SampleNoOutput, ScanComplete, DirectSampled
  <2>3. CASE SkipOutput
    <3>1. /\ UNCHANGED <<edges, counted, risingEdges, previousInputMask, currentInputMask, pc>>
          /\ scan' = scan + 1
      BY <2>3 DEF SkipOutput, sampleVars
    <3>2. \A s \in Slots : Out(s) # NoPort /\ Out(s) < scan => Out(s) < scan'
      BY <3>1, SlotFacts DEF TypeOK, Groups, OutPorts
    <3>3. \A s \in Slots : Pending(s) => Pending(s)'
      BY <3>1, <3>2 DEF Pending, InputHasRisingEdge
    <3> QED
      BY <3>1, <3>3 DEF EdgeInv
  <2>4. CASE StartIteration
    BY <2>4 DEF StartIteration, StartIterationReading, EdgeInv, Pending
  <2>5. CASE CountPulses
    <3> SUFFICES ASSUME NEW s \in Slots PROVE edges'[s] <= counted'[s]
      BY DEF EdgeInv
    <3>1. edges' = edges /\ edges[s] \in Nat /\ counted[s] \in Nat
      BY <2>5 DEF CountPulses, sampleVars, TypeOK
    <3>2. CASE risingEdges /\ InputHasRisingEdge(s, previousInputMask, currentInputMask)
      BY <2>5, <3>1, <3>2 DEF CountPulses, EdgeInv
    <3>3. CASE ~ (risingEdges /\ InputHasRisingEdge(s, previousInputMask, currentInputMask))
      BY <2>5, <3>1, <3>3 DEF CountPulses, EdgeInv, Pending
    <3> QED
      BY <3>2, <3>3
  <2>6. CASE CountDown
    BY <2>6 DEF CountDown, sampleVars, EdgeInv, Pending
  <2>7. CASE UNCHANGED <<edges, counted, risingEdges, previousInputMask, currentInputMask, pc, scan>>
    BY <2>7 DEF EdgeInv, Pending, InputHasRisingEdge
  <2> QED
    BY <2>1, <2>2, <2>3, <2>4, <2>5, <2>6, <2>7
       DEF Next, CloseContact, OpenContact, Toggle, Elapse, Reader, Store, StartStore, StoreCount,
           RequestReset, vars, sampleVars
<1> QED
  BY <1>1, <1>2

\* Every edge a sample showed has been counted when countPulses is through, although
\* countPulses runs once for all groups of an iteration.
THEOREM EdgesCounted == Spec => []EveryEdgeCounted
<1>1. EdgeInv => EveryEdgeCounted
  BY DEF EdgeInv, EveryEdgeCounted, Pending
<1> QED
  BY <1>1, EdgeInductive, TypeInductive, PTL DEF Spec

-----------------------------------------------------------------------------
(* How often an edge counts                                                 *)

\* The masks of the slot's group show a rising edge, old or new.
Rising(s) == InputHasRisingEdge(s, previousInputMask, currentInputMask)

\* How often countPulses may see these masks before they are sampled again.
Sampled(s) == pc = "count" \/ (pc = "scan" /\ Out(s) < scan)
Left(s) ==
    IF Out(s) = NoPort THEN IF pc = "count" THEN 1 ELSE 0
    ELSE IF pc = "countdown" THEN NextCount(Out(s))
    ELSE IF currentCount[Out(s)] = 0 /\ Sampled(s) THEN 1 + MaxCount(Out(s))
    ELSE currentCount[Out(s)]

\* What RecountBound allows.
Bound(s) == (1 + MaxCount(Out(s))) * edges[s]

\* Every edge has room for all the times its masks may still be counted; an output without
\* a sampling period never shows an edge.
RecountInv ==
    \A s \in Slots :
        /\ counted[s] <= Bound(s)
        /\ Rising(s) => counted[s] + Left(s) <= Bound(s)
        /\ Rising(s) => Out(s) = NoPort \/ MaxCount(Out(s)) > 0

\* One more edge allows one count more for each iteration of the period.
LEMMA BoundGrows ==
    ASSUME NEW m \in Nat, NEW e \in Nat
    PROVE  (1 + m) * e \in Nat /\ (1 + m) * (e + 1) = (1 + m) * e + 1 + m
  OBVIOUS

\* The types of what RecountInv relates.
LEMMA RecountTypes ==
    ASSUME TypeOK, NEW s \in Slots
    PROVE  /\ Out(s) \in Groups
           /\ Out(s) # NoPort => Out(s) \in OutPorts /\ currentCount[Out(s)] \in Nat
           /\ MaxCount(Out(s)) \in Nat /\ Bound(s) \in Nat
           /\ counted[s] \in Nat /\ edges[s] \in Nat /\ Left(s) \in Nat
<1>1. Out(s) \in Groups /\ MaxCount(Out(s)) \in Nat
  BY SlotFacts, MaxCountType
<1>2. Out(s) # NoPort => Out(s) \in OutPorts /\ currentCount[Out(s)] \in Nat
  BY <1>1 DEF Groups, TypeOK
<1>3. counted[s] \in Nat /\ edges[s] \in Nat
  BY DEF TypeOK
<1>4. Bound(s) \in Nat
  BY <1>1, <1>3, BoundGrows DEF Bound
<1>5. Left(s) \in Nat
  BY <1>1, <1>2 DEF Left, NextCount
<1> QED
  BY <1>1, <1>2, <1>3, <1>4, <1>5

\* A sample: of an output that is due, or of the direct meters.
LEMMA SampleRecount ==
    ASSUME TypeOK, RecountInv, NEW g \in Groups, NEW mask, NEW lines,
           SampleReading(g, mask, lines),
           counted' = counted, currentCount' = currentCount, pc = "scan",
           \/ /\ g \in OutPorts /\ g = scan /\ scan' = scan + 1 /\ pc' = "scan"
              /\ currentCount[g] = 0 /\ MaxCount(g) > 0
           \/ g = NoPort /\ scan' = scan /\ scan = NumOutPorts /\ pc' = "count"
    PROVE  RecountInv'
<1> SUFFICES ASSUME NEW s \in Slots
             PROVE  (/\ counted[s] <= Bound(s)
                     /\ Rising(s) => counted[s] + Left(s) <= Bound(s)
                     /\ Rising(s) => Out(s) = NoPort \/ MaxCount(Out(s)) > 0)'
  BY DEF RecountInv
<1>1. /\ counted[s] <= Bound(s)
      /\ Rising(s) => counted[s] + Left(s) <= Bound(s)
      /\ Rising(s) => Out(s) = NoPort \/ MaxCount(Out(s)) > 0
  BY DEF RecountInv
<1>2. /\ Out(s) \in Groups
      /\ Out(s) # NoPort => Out(s) \in OutPorts /\ currentCount[Out(s)] \in Nat
      /\ MaxCount(Out(s)) \in Nat /\ Bound(s) \in Nat
      /\ counted[s] \in Nat /\ edges[s] \in Nat /\ Left(s) \in Nat
  BY RecountTypes
<1>3. NoPort \notin OutPorts /\ OutPorts \subseteq Nat /\ NumOutPorts \in Nat /\ scan \in Nat
      /\ \A p \in OutPorts : p < NumOutPorts
  BY BoardAssumption DEF OutPorts, TypeOK
<1>4. CASE Out(s) # g
  <2>1. edges'[s] = edges[s] /\ (Rising(s)' <=> Rising(s))
    BY <1>2, <1>4 DEF Sample, SampleReading, TypeOK, Rising, InputHasRisingEdge
  <2>2. Bound(s)' = Bound(s)
    BY <2>1 DEF Bound
  <2>3. CASE Out(s) = NoPort
    <3>1. pc' = "scan"
      BY <1>4, <2>3
    <3>2. Left(s)' = Left(s)
      BY <2>3, <3>1 DEF Left
    <3> QED
      BY <1>1, <2>1, <2>2, <2>3, <3>2
  <2>4. CASE Out(s) # NoPort
    <3>1. Out(s) \in Nat /\ Out(s) < NumOutPorts
      BY <1>2, <1>3, <2>4
    <3>2. Sampled(s)' <=> Sampled(s)
      BY <1>3, <1>4, <3>1 DEF Sampled
    <3>3. pc' \in {"scan", "count"}
      OBVIOUS
    <3>4. Left(s)' = Left(s)
      BY <2>4, <3>2, <3>3 DEF Left
    <3> QED
      BY <1>1, <2>1, <2>2, <3>4
  <2> QED
    BY <2>3, <2>4
<1>5. CASE Out(s) = g
  <2>1. Left(s)' <= 1 + MaxCount(Out(s))
    BY <1>2, <1>3, <1>5 DEF Left, Sampled
  <2>2. CASE edges'[s] = edges[s] + 1
    <3>1. Bound(s)' = Bound(s) + 1 + MaxCount(Out(s))
      BY <1>2, <2>2, BoundGrows DEF Bound
    <3>2. Left(s)' \in Nat
      BY <1>2, <1>3, <1>5 DEF Left, Sampled
    <3> QED
      BY <1>1, <1>2, <1>3, <1>5, <2>1, <3>1, <3>2
  <2>3. CASE edges'[s] = edges[s] /\ ~ Rising(s)'
    BY <1>1, <2>3 DEF Bound
  <2>4. \/ edges'[s] = edges[s] + 1
        \/ edges'[s] = edges[s] /\ ~ Rising(s)'
    BY <1>5 DEF Sample, SampleReading, Rising
  <2> QED
    BY <2>2, <2>3, <2>4
<1> QED
  BY <1>4, <1>5

\* A step that neither samples nor counts, and leaves no more to count.
LEMMA MoreRoom ==
    ASSUME RecountInv, UNCHANGED <<edges, counted, previousInputMask, currentInputMask>>,
           \A s \in Slots : Rising(s) => Left(s)' = Left(s)
    PROVE  RecountInv'
<1>1. \A s \in Slots : Bound(s)' = Bound(s) /\ (Rising(s)' <=> Rising(s))
  BY DEF Bound, Rising, InputHasRisingEdge
<1> QED
  BY <1>1 DEF RecountInv

\* Every step leaves each edge room for all the times it may still be counted.
LEMMA RecountInductive ==
    (Init => RecountInv) /\ (TypeOK /\ RecountInv /\ [Next]_vars => RecountInv')
<1>1. Init => RecountInv
  <2> SUFFICES ASSUME Init, NEW s \in Slots
               PROVE  counted[s] <= Bound(s) /\ ~ Rising(s)
    BY DEF RecountInv
  <2>1. Out(s) \in Groups /\ MaxCount(Out(s)) \in Nat
    BY SlotFacts, MaxCountType
  <2>2. counted[s] = 0 /\ Bound(s) \in Nat
    BY <2>1, BoundGrows DEF Init, InitReading, Bound
  <2>3. ~ Rising(s)
    BY DEF Init, InitReading, Rising, InputHasRisingEdge
  <2> QED
    BY <2>2, <2>3
<1>2. TypeOK /\ RecountInv /\ [Next]_vars => RecountInv'
  <2> SUFFICES ASSUME TypeOK, RecountInv, [Next]_vars PROVE RecountInv'
    OBVIOUS
  <2>1. CASE SampleOutput
    <3>1. scan \in OutPorts
      BY <2>1, BoardAssumption DEF SampleOutput, OutputDue, OutputSampled, OutPorts, TypeOK
    <3> QED
      BY <2>1, <3>1, SampleRecount, ConfigTypes
         DEF Sample, SampleOutput, OutputDue, OutputSampled, Due
  <2>2. CASE SampleNoOutput
    <3>1. scan = NumOutPorts
      BY <2>2 DEF SampleNoOutput, ScanComplete, DirectSampled
    <3> QED
      BY <2>2, <3>1, SampleRecount, ConfigTypes
         DEF Sample, SampleNoOutput, ScanComplete, DirectSampled
  <2>3. CASE SkipOutput
    <3>1. /\ UNCHANGED <<edges, counted, currentCount, previousInputMask, currentInputMask>>
          /\ pc = "scan" /\ pc' = "scan" /\ scan \in OutPorts /\ scan' = scan + 1
          /\ HasCounter(scan) => currentCount[scan] # 0 \/ ~ (MaxCount(scan) > 0)
      BY <2>3, BoardAssumption DEF SkipOutput, sampleVars, Due, OutPorts, TypeOK
    <3> SUFFICES ASSUME NEW s \in Slots, Rising(s)
                 PROVE  Left(s)' = Left(s)
      BY <3>1, MoreRoom
    <3>2. Out(s) = NoPort \/ MaxCount(Out(s)) > 0
      BY DEF RecountInv
    <3>3. Out(s) \in Groups /\ OutPorts \subseteq Nat
      BY SlotFacts DEF OutPorts
    <3>4. CASE Out(s) = NoPort
      BY <3>1, <3>4 DEF Left
    <3>5. CASE Out(s) # NoPort /\ Out(s) # scan
      <4>1. Out(s) \in Nat /\ scan \in Nat
        BY <3>1, <3>3, <3>5 DEF Groups
      <4>2. Sampled(s)' <=> Sampled(s)
        BY <3>1, <3>5, <4>1 DEF Sampled
      <4> QED
        BY <3>1, <3>5, <4>2 DEF Left
    <3>6. CASE Out(s) # NoPort /\ Out(s) = scan
      <4>1. currentCount[Out(s)] # 0
        BY <3>1, <3>2, <3>6 DEF HasCounter
      <4> QED
        BY <3>1, <3>6, <4>1 DEF Left
    <3> QED
      BY <3>4, <3>5, <3>6
  <2>4. CASE StartIteration
    <3>1. /\ UNCHANGED <<edges, counted, currentCount, previousInputMask, currentInputMask>>
          /\ pc = "sleep" /\ pc' = "scan" /\ scan' = 0
      BY <2>4 DEF StartIteration, StartIterationReading
    <3>2. \A s \in Slots : Out(s) # NoPort => ~ Sampled(s)'
      BY <3>1, SlotFacts DEF Sampled, Groups, OutPorts
    <3>3. \A s \in Slots : Left(s)' = Left(s)
      BY <3>1, <3>2 DEF Left, Sampled
    <3> QED
      BY <3>1, <3>3, MoreRoom
  <2>5. CASE CountPulses
    <3>1. /\ UNCHANGED <<edges, currentCount, previousInputMask, currentInputMask>>
          /\ pc = "count" /\ pc' = "countdown"
          /\ \A s \in Slots : counted'[s] = IF risingEdges /\ Rising(s)
                                            THEN counted[s] + 1 ELSE counted[s]
      BY <2>5 DEF CountPulses, sampleVars, Rising
    <3> SUFFICES ASSUME NEW s \in Slots
                 PROVE  /\ counted'[s] <= Bound(s)
                        /\ Rising(s) => counted'[s] + Left(s)' <= Bound(s)
      <4>1. \A s \in Slots : Bound(s)' = Bound(s) /\ (Rising(s)' <=> Rising(s))
        BY <3>1 DEF Bound, Rising, InputHasRisingEdge
      <4> QED
        BY <4>1 DEF RecountInv
    <3>2. /\ Out(s) # NoPort => currentCount[Out(s)] \in Nat
          /\ MaxCount(Out(s)) \in Nat /\ Bound(s) \in Nat /\ counted[s] \in Nat
      BY RecountTypes
    <3>3. Left(s) = Left(s)' + 1
      BY <3>1, <3>2 DEF Left, Sampled, NextCount
    <3>4. Left(s)' \in Nat
      BY <3>1, <3>2 DEF Left, Sampled, NextCount
    <3>5. counted[s] <= Bound(s) /\ (Rising(s) => counted[s] + Left(s) <= Bound(s))
      BY DEF RecountInv
    <3> QED
      BY <3>1, <3>2, <3>3, <3>4, <3>5
  <2>6. CASE CountDown
    <3>1. /\ UNCHANGED <<edges, counted, previousInputMask, currentInputMask>>
          /\ pc = "countdown" /\ pc' = "sleep"
          /\ \A p \in OutPorts : currentCount'[p] = NextCount(p)
      BY <2>6 DEF CountDown, sampleVars
    <3>2. \A s \in Slots : Out(s) = NoPort \/ Out(s) \in OutPorts
      BY SlotFacts DEF Groups
    <3>3. \A s \in Slots : Left(s)' = Left(s)
      BY <3>1, <3>2 DEF Left, Sampled
    <3> QED
      BY <3>1, <3>3, MoreRoom
  <2>7. CASE UNCHANGED <<edges, counted, currentCount, previousInputMask, currentInputMask, pc, scan>>
    <3>1. \A s \in Slots : Left(s)' = Left(s)
      BY <2>7 DEF Left, Sampled, NextCount
    <3> QED
      BY <2>7, <3>1, MoreRoom
  <2> QED
    BY <2>1, <2>2, <2>3, <2>4, <2>5, <2>6, <2>7
       DEF Next, CloseContact, OpenContact, Toggle, Elapse, Reader, Store, StartStore, StoreCount,
           RequestReset, vars, sampleVars
<1> QED
  BY <1>1, <1>2

\* However the iterations fall, an edge never counts for more than the iterations from one
\* sample of its output to the next.
THEOREM Recount == Spec => []RecountBound
<1>1. RecountInv => RecountBound
  BY DEF RecountInv, RecountBound, Bound
<1> QED
  BY <1>1, RecountInductive, TypeInductive, PTL DEF Spec

-----------------------------------------------------------------------------
(* No count is reported twice                                               *)

\* The slot getCounts finds for a counter that has one.
SlotOf(i) == Min({s \in Slots : Out(s) = Out(i) /\ In(s) = In(i)})

\* getCounts returns what that slot has counted since the last reset.
LEMMA GetCountsOfSlot ==
    ASSUME NEW i \in Slots
    PROVE  /\ SlotOf(i) \in Slots /\ Out(SlotOf(i)) = Out(i) /\ In(SlotOf(i)) = In(i)
           /\ GetCounts(Out(i), In(i)) = counter[SlotOf(i)]
<1> DEFINE same == {s \in Slots : Out(s) = Out(i) /\ In(s) = In(i)}
<1>1. same \subseteq Nat /\ same # {}
  BY DEF Slots
<1>2. Min(same) \in same
  BY <1>1, MinOfNats
<1> QED
  BY <1>1, <1>2 DEF SlotOf, GetCounts

\* A batch and a reset request never come together; what a counter shows has been reported
\* only from the batch's read of it to the reset.
ReportInv ==
    /\ resetRequest => storeIdx = 0
    /\ \A i \in Slots :
          /\ reported[i] <= counted[SlotOf(i)]
          /\ storeIdx <= i /\ ~ resetRequest =>
                reported[i] + counter[SlotOf(i)] <= counted[SlotOf(i)]

LEMMA ReportInductive ==
    (Init => ReportInv) /\ (TypeOK /\ ReportInv /\ [Next]_vars => ReportInv')
<1>1. Init => ReportInv
  BY GetCountsOfSlot, SlotFacts DEF Init, InitReading, ReportInv
<1>2. TypeOK /\ ReportInv /\ [Next]_vars => ReportInv'
  <2> SUFFICES ASSUME TypeOK, ReportInv, [Next]_vars PROVE ReportInv'
    OBVIOUS
  <2>0. \A i \in Slots :
           /\ i \in Nat /\ i >= 1 /\ i \in DOMAIN Counters /\ SlotOf(i) \in Slots
           /\ reported[i] \in Nat /\ counter[SlotOf(i)] \in Nat /\ counted[SlotOf(i)] \in Nat
    <3> TAKE i \in Slots
    <3>1. i \in Nat /\ i >= 1 /\ i \in DOMAIN Counters
      BY SlotFacts DEF Slots
    <3>2. SlotOf(i) \in Slots
      BY GetCountsOfSlot
    <3> QED
      BY <3>1, <3>2 DEF TypeOK
  <2>1. CASE StartIteration
    <3>1. UNCHANGED <<reported, counted, storeIdx>> /\ resetRequest' = FALSE
      BY <2>1 DEF StartIteration, StartIterationReading, storeVars
    <3>2. CASE resetRequest
      <4>1. \A s \in Slots : counter'[s] = 0
        BY <2>1, <3>2 DEF StartIteration, StartIterationReading, CountersAfterReset
      <4> QED
        BY <2>0, <3>1, <4>1 DEF ReportInv
    <3>3. CASE ~ resetRequest
      BY <2>1, <3>1, <3>3 DEF StartIteration, StartIterationReading, CountersAfterReset, ReportInv
    <3> QED
      BY <3>2, <3>3
  <2>2. CASE CountPulses
    <3>1. UNCHANGED <<reported, storeIdx, resetRequest>>
      BY <2>2 DEF CountPulses, storeVars
    <3>2. \A s \in Slots : \/ counter'[s] = counter[s] /\ counted'[s] = counted[s]
                           \/ counter'[s] = counter[s] + 1 /\ counted'[s] = counted[s] + 1
      BY <2>2 DEF CountPulses
    <3> SUFFICES ASSUME NEW i \in Slots
                 PROVE  /\ reported[i] <= counted'[SlotOf(i)]
                        /\ storeIdx <= i /\ ~ resetRequest =>
                              reported[i] + counter'[SlotOf(i)] <= counted'[SlotOf(i)]
      BY <3>1 DEF ReportInv
    <3>3. /\ reported[i] <= counted[SlotOf(i)]
          /\ storeIdx <= i /\ ~ resetRequest =>
                reported[i] + counter[SlotOf(i)] <= counted[SlotOf(i)]
      BY DEF ReportInv
    <3> QED
      BY <2>0, <3>2, <3>3
  <2>3. CASE StartStore
    <3>1. UNCHANGED <<reported, counted, counter, resetRequest>> /\ storeIdx = 0 /\ storeIdx' = 1
          /\ ~ resetRequest
      BY <2>3 DEF StartStore
    <3> QED
      BY <2>0, <3>1 DEF ReportInv
  <2>4. CASE StoreCount
    <3>1. /\ UNCHANGED <<counted, counter, resetRequest>>
          /\ storeIdx \in DOMAIN Counters /\ storeIdx' = storeIdx + 1
          /\ \A i \in DOMAIN Counters : reported'[i] =
                IF i = storeIdx THEN reported[i] + GetCounts(Out(i), In(i)) ELSE reported[i]
      BY <2>4 DEF StoreCount, Out, In, TypeOK
    <3>2. storeIdx \in Nat /\ storeIdx # 0
      BY <3>1, SlotFacts
    <3>3. ~ resetRequest
      BY <3>2 DEF ReportInv
    <3> SUFFICES ASSUME NEW i \in Slots
                 PROVE  /\ reported'[i] <= counted[SlotOf(i)]
                        /\ storeIdx + 1 <= i =>
                              reported'[i] + counter[SlotOf(i)] <= counted[SlotOf(i)]
      BY <3>1, <3>3 DEF ReportInv
    <3>4. /\ reported[i] <= counted[SlotOf(i)]
          /\ storeIdx <= i => reported[i] + counter[SlotOf(i)] <= counted[SlotOf(i)]
      BY <3>3 DEF ReportInv
    <3>5. CASE i = storeIdx
      <4>1. reported'[i] = reported[i] + counter[SlotOf(i)]
        BY <2>0, <3>1, <3>5, GetCountsOfSlot
      <4> QED
        BY <2>0, <3>2, <3>4, <3>5, <4>1
    <3>6. CASE i # storeIdx
      <4>1. reported'[i] = reported[i]
        BY <2>0, <3>1, <3>6
      <4> QED
        BY <2>0, <3>2, <3>4, <4>1
    <3> QED
      BY <3>5, <3>6
  <2>5. CASE RequestReset
    BY <2>5 DEF RequestReset, ReportInv
  <2>6. CASE UNCHANGED <<reported, counted, counter, resetRequest, storeIdx>>
    BY <2>6 DEF ReportInv
  <2> QED
    BY <2>1, <2>2, <2>3, <2>4, <2>5, <2>6
      DEF Next, CloseContact, OpenContact, Toggle, Elapse, Reader, SampleOutput, OutputDue,
          OutputSampled, SkipOutput, SampleNoOutput, ScanComplete, DirectSampled, CountDown, Store, vars, storeVars
<1> QED
  BY <1>1, <1>2

\* All batches together never report more of a channel than was counted, wherever the
\* reader is while a batch reads and whenever it serves the reset.
THEOREM NothingTwice == Spec => []ReportedOnce
<1>1. ReportInv => ReportedOnce
  BY GetCountsOfSlot DEF ReportInv, ReportedOnce
<1> QED
  BY <1>1, ReportInductive, TypeInductive, PTL DEF Spec

------------------------------------------------------------------------------
(* The refinement of PulseCount                                             *)

\* Counts that are bounded by edges are bounded by the pulses behind the edges.
LEMMA Backed ==
    ASSUME NEW r \in Nat, NEW c \in Nat, NEW e \in Nat, NEW p \in Nat, c <= r * e, e <= p
    PROVE  r * p \in Nat /\ c <= r * p
<1>1. PICK d \in Nat : p = e + d
  <2>1. p - e \in Nat /\ p = e + (p - e)
    OBVIOUS
  <2> QED
    BY <2>1
<1>2. r * p = r * e + r * d /\ r * d \in Nat /\ r * e \in Nat
  BY <1>1
<1> QED
  BY <1>2

LEMMA PromiseInit == Init => Promise!Init
<1> SUFFICES ASSUME Init PROVE Promise!Init
  OBVIOUS
<1>1. \A s \in UsedSlots : s \in Slots /\ s \in DOMAIN Counters
  BY SlotFacts DEF UsedSlots
<1> QED
  BY <1>1 DEF Init, InitReading, Promise!Init

\* What PulseCount sees of a step.
LEMMA PromiseStep ==
    ASSUME TypeOK, TypeOK', NoPhantomPulse', RecountBound', ReportInv, ReportInv', [Next]_vars
    PROVE  [Promise!Next]_(Promise!vars)
<1>0. \A s \in UsedSlots : s \in Slots /\ s \in DOMAIN Counters /\ MeterOf(s) \in Meters
  BY SlotFacts DEF UsedSlots, Used
<1>1. CASE \E m \in Meters : OpenContact(m)
  <2>1. PICK m \in Meters : OpenContact(m)
    BY <1>1
  <2>2. pulses' = [pulses EXCEPT ![m] = @ + 1] /\ UNCHANGED <<counted, reported>>
    BY <2>1 DEF OpenContact, Toggle, storeVars
  <2>3. Promise!Give(m)
    BY <2>2 DEF Promise!Give
  <2> QED
    BY <2>3 DEF Promise!Next
<1>2. CASE CountPulses
  <2> DEFINE rises(s) == risingEdges /\ InputHasRisingEdge(s, previousInputMask, currentInputMask)
  <2>0. PICK S \in SUBSET UsedSlots : \A s \in UsedSlots : s \in S <=> rises(s)
    <3>1. {s \in UsedSlots : rises(s)} \in SUBSET UsedSlots
      OBVIOUS
    <3> QED
      BY <3>1
  <2>1. UNCHANGED <<pulses, reported>>
    BY <1>2 DEF CountPulses, meterVars, storeVars
  <2>2. counted' = [s \in Slots |-> IF rises(s) THEN counted[s] + 1 ELSE counted[s]]
    BY <1>2 DEF CountPulses
  <2>3. ASSUME NEW s \in S
        PROVE  counted[s] < (1 + MaxCount(Out(s))) * pulses[MeterOf(s)]
    <3>1. s \in UsedSlots /\ counted'[s] = counted[s] + 1 /\ counted[s] \in Nat
      BY <1>0, <2>0, <2>2 DEF TypeOK
    <3> DEFINE most == (1 + MaxCount(Out(s))) * pulses[MeterOf(s)]
    <3>2. counted'[s] <= most /\ most \in Nat
      <4>1. 1 + MaxCount(Out(s)) \in Nat
        BY MaxCountType
      <4>2. counted'[s] \in Nat /\ edges'[s] \in Nat /\ pulses'[MeterOf(s)] \in Nat
        BY <1>0, <3>1 DEF TypeOK
      <4>3. edges'[s] <= pulses'[MeterOf(s)] /\ counted'[s] <= (1 + MaxCount(Out(s))) * edges'[s]
        BY <3>1 DEF NoPhantomPulse, RecountBound, UsedSlots
      <4> QED
        BY <2>1, <4>1, <4>2, <4>3, Backed
    <3> HIDE DEF most
    <3>3. counted[s] < most
      BY <3>1, <3>2
    <3> QED
      BY <3>3 DEF most
  <2>4. \A s \in S : [t \in UsedSlots |-> counted[t]][s] <
                       [t \in UsedSlots |-> 1 + MaxCount(Out(t))][s] *
                          pulses[[t \in UsedSlots |-> MeterOf(t)][s]]
    BY <2>3
  <2>5. [s \in UsedSlots |-> counted'[s]] =
           [s \in UsedSlots |-> IF s \in S THEN [t \in UsedSlots |-> counted[t]][s] + 1
                                            ELSE [t \in UsedSlots |-> counted[t]][s]]
    BY <1>0, <2>0, <2>2
  <2>6. [s \in UsedSlots |-> reported'[s]] = [s \in UsedSlots |-> reported[s]]
    BY <2>1
  <2>7. Promise!Record(S)
    BY <2>1, <2>4, <2>5, <2>6 DEF Promise!Record
  <2> QED
    BY <2>7 DEF Promise!Next
<1>3. CASE StoreCount
  <2>1. UNCHANGED <<pulses, counted, resetRequest>> /\ storeIdx \in DOMAIN Counters
    BY <1>3 DEF StoreCount, meterVars
  <2>2. reported' = [reported EXCEPT ![storeIdx] =
                        @ + GetCounts(Out(storeIdx), In(storeIdx))]
    BY <1>3 DEF StoreCount, Out, In
  <2>3. CASE storeIdx \in UsedSlots
    <3>0. PICK i \in UsedSlots : i = storeIdx
      BY <2>3
    <3> DEFINE s == SlotOf(i)
               n == counter[SlotOf(i)]
    <3>1. /\ s \in Slots /\ Out(s) = Out(i) /\ In(s) = In(i)
          /\ GetCounts(Out(i), In(i)) = n
      BY <1>0, GetCountsOfSlot
    <3>2. MeterOf(s) = MeterOf(i) /\ s \in UsedSlots
      BY <1>0, <3>1 DEF MeterOf, UsedSlots, Used
    <3>3. n \in Nat /\ reported[i] \in Nat /\ counted[s] \in Nat
      BY <1>0, <3>1 DEF TypeOK
    <3>4. reported[i] + n <= counted[s]
      <4>1. i \in Slots /\ i \in Nat /\ i # 0
        BY <1>0 DEF Slots
      <4>2. ~ resetRequest
        BY <3>0, <4>1 DEF ReportInv
      <4> QED
        BY <3>0, <4>1, <4>2 DEF ReportInv
    <3> HIDE DEF n, s
    <3>5. n \in 0 .. counted[s] - reported[i]
      BY <3>3, <3>4
    <3>6. [t \in UsedSlots |-> reported'[t]] =
             [[t \in UsedSlots |-> reported[t]] EXCEPT ![i] = @ + n]
      BY <1>0, <2>2, <3>0, <3>1 DEF TypeOK
    <3>7. /\ [t \in UsedSlots |-> MeterOf(t)][s] = [t \in UsedSlots |-> MeterOf(t)][i]
          /\ n \in 0 .. [t \in UsedSlots |-> counted[t]][s] - [t \in UsedSlots |-> reported[t]][i]
      BY <3>2, <3>5
    <3>8. [t \in UsedSlots |-> counted'[t]] = [t \in UsedSlots |-> counted[t]]
      BY <2>1
    <3>9. Promise!Publish(i)
      BY <2>1, <3>2, <3>6, <3>7, <3>8 DEF Promise!Publish
    <3> QED
      BY <3>9 DEF Promise!Next
  <2>4. CASE storeIdx \notin UsedSlots
    <3>1. \A s \in UsedSlots : reported'[s] = reported[s]
      BY <1>0, <2>2, <2>4 DEF TypeOK
    <3> QED
      BY <2>1, <3>1 DEF Promise!vars
  <2> QED
    BY <2>3, <2>4
<1>4. CASE UNCHANGED <<pulses, counted, reported>>
  BY <1>4 DEF Promise!vars
<1> QED
  BY <1>1, <1>2, <1>3, <1>4
  DEF Next, CloseContact, OpenContact, Toggle, Elapse, Reader, SampleOutput, OutputDue,
      OutputSampled, SkipOutput, SampleNoOutput, ScanComplete, DirectSampled, CountDown, Store,
      StartIteration, StartIterationReading, StartStore, RequestReset, vars, storeVars, meterVars

\* Whatever the board, the configuration and the interleaving of reader and scheduler: what
\* the counters record and the batches publish is backed by the pulses of their meters.
THEOREM PromiseKept == Spec => KeepsPromise
<1>1. PhantomInv => NoPhantomPulse
  BY DEF PhantomInv, NoPhantomPulse
<1>2. RecountInv => RecountBound
  BY DEF RecountInv, RecountBound, Bound
<1> QED
  BY <1>1, <1>2, PromiseInit, PromiseStep, TypeInductive, PhantomInductive, RecountInductive,
     ReportInductive, PTL
  DEF Spec, KeepsPromise, Promise!Spec

-----------------------------------------------------------------------------
(* No pulse of a slow meter is missed                                       *)

\* The ticks of n iterations.
Ticks(n) == SleepTicks * n

\* At most so many ticks pass before group g is sampled again.
DueIn(g) ==
    IF g = NoPort THEN
        IF pc = "scan" THEN 0 ELSE IF pc = "sleep" THEN sleepLeft ELSE SleepTicks
    ELSE IF pc = "sleep" THEN sleepLeft + Ticks(currentCount[g])
    ELSE IF currentCount[g] > 0 \/ (pc = "scan" /\ scan <= g) THEN Ticks(currentCount[g])
    ELSE Period(g)

\* The last sample of the slot's group showed the contact closed.
SeenClosed(s) == In(s) \notin currentInputMask[Out(s)]

\* What the last sample showed is what the contact is now, or the contact has moved since, and
\* the next sample comes before it may move again.
SlowMeter(s) ==
    LET m == MeterOf(s)
    IN  /\ pulses[m] <= edges[s] + (IF SeenClosed(s) /\ m \notin closed THEN 1 ELSE 0)
        /\ (SeenClosed(s) <=> m \notin closed) => held[m] + DueIn(Out(s)) <= Period(Out(s))

CountsBounded ==
    /\ sleepLeft <= SleepTicks
    /\ \A p \in OutPorts : currentCount[p] <= MaxCount(p)

SlowSlots == {s \in Slots : Used(s) /\ SlowEnough(s)}
SlowInv == CountsBounded /\ \A s \in SlowSlots : SlowMeter(s)

LEMMA Distributes ==
    ASSUME NEW a \in Nat, NEW b \in Nat, NEW c \in Nat
    PROVE  a * (b + c) = a * b + a * c
OBVIOUS

LEMMA TicksFacts ==
    /\ \A n \in Nat : Ticks(n) \in Nat /\ Ticks(n + 1) = Ticks(n) + SleepTicks
    /\ \A n, k \in Nat : n <= k => Ticks(n) <= Ticks(k)
    /\ Ticks(0) = 0
    /\ \A g : Period(g) = Ticks(MaxCount(g)) + SleepTicks /\ Period(g) \in Nat
<1>1. SleepTicks \in Nat
  BY BoardAssumption
<1>2. \A n \in Nat : SleepTicks * n \in Nat /\ SleepTicks * (n + 1) = SleepTicks * n + SleepTicks
  BY <1>1
<1>3. ASSUME NEW n \in Nat, NEW k \in Nat, n <= k PROVE SleepTicks * n <= SleepTicks * k
  <2>1. PICK d \in Nat : k = n + d
    <3>1. k - n \in Nat /\ k = n + (k - n)
      BY <1>3
    <3> QED
      BY <3>1
  <2>2. SleepTicks * k = SleepTicks * n + SleepTicks * d
    BY <1>1, <2>1, Distributes
  <2>3. SleepTicks * n \in Nat /\ SleepTicks * d \in Nat
    BY <1>1
  <2> QED
    BY <2>2, <2>3
<1>4. SleepTicks * 0 = 0
  BY <1>1
<1>5. ASSUME NEW g PROVE Period(g) = Ticks(MaxCount(g)) + SleepTicks /\ Period(g) \in Nat
  BY <1>1, <1>2, MaxCountType DEF Period, Ticks
<1> QED
  BY <1>2, <1>3, <1>4, <1>5 DEF Ticks

\* The next sample of a group is at most a period away.
LEMMA DueInBound ==
    ASSUME TypeOK, CountsBounded, NEW g \in Groups
    PROVE  DueIn(g) \in Nat /\ DueIn(g) <= Period(g)
<1>1. SleepTicks \in Nat /\ MaxCount(g) \in Nat /\ sleepLeft \in 0 .. SleepTicks
  BY BoardAssumption, MaxCountType DEF CountsBounded, TypeOK
<1>2. CASE g = NoPort
  BY <1>1, <1>2, TicksFacts DEF DueIn
<1>3. CASE g \in OutPorts
  <2>1. currentCount[g] \in Nat /\ currentCount[g] <= MaxCount(g) /\ g # NoPort
    BY <1>3, BoardAssumption DEF CountsBounded, TypeOK
  <2>2. Ticks(currentCount[g]) \in Nat /\ Ticks(currentCount[g]) <= Ticks(MaxCount(g))
    BY <1>1, <2>1, TicksFacts
  <2>3. Ticks(MaxCount(g)) \in Nat /\ Period(g) = Ticks(MaxCount(g)) + SleepTicks
    BY <1>1, TicksFacts
  <2>4. sleepLeft \in Nat /\ sleepLeft <= SleepTicks
    BY <1>1
  <2> QED
    BY <1>1, <2>1, <2>2, <2>3, <2>4 DEF DueIn
<1> QED
  BY <1>2, <1>3 DEF Groups

LEMMA SlowSlotTypes ==
    ASSUME TypeOK, NEW s \in SlowSlots
    PROVE  /\ MeterOf(s) \in Meters
           /\ Out(s) \in Groups
           /\ In(s) \in InPorts /\ In(s) # NoPort
           /\ held[MeterOf(s)] \in Nat
           /\ MinHold[MeterOf(s)] \in Nat
           /\ MinHold[MeterOf(s)] > Period(Out(s))
           /\ pulses[MeterOf(s)] \in Nat
           /\ edges[s] \in Nat
           /\ s \in Slots /\ Used(s)
BY SlotFacts, BoardAssumption, ConfigAssumption DEF SlowSlots, SlowEnough, TypeOK

\* A contact that moves has been seen where it was: the scan is faster.
LEMMA SlowToggle ==
    ASSUME TypeOK, SlowInv, NEW m \in Meters, CloseContact(m) \/ OpenContact(m)
    PROVE  SlowInv'
<1>1. /\ held[m] >= MinHold[m]
      /\ held' = [held EXCEPT ![m] = 0]
      /\ UNCHANGED <<pc, scan, sleepLeft, currentCount, currentInputMask, edges>>
  BY DEF CloseContact, OpenContact, Toggle, sampleVars
<1>2. CountsBounded'
  BY <1>1 DEF SlowInv, CountsBounded
<1>3. ASSUME NEW s \in SlowSlots PROVE SlowMeter(s)'
  <2>1. SeenClosed(s)' <=> SeenClosed(s)
    BY <1>1 DEF SeenClosed
  <2>2. DueIn(Out(s))' = DueIn(Out(s))
    BY <1>1 DEF DueIn
  <2>3. CASE MeterOf(s) # m
    <3>1. /\ MeterOf(s) \in closed' <=> MeterOf(s) \in closed
          /\ pulses'[MeterOf(s)] = pulses[MeterOf(s)]
          /\ held'[MeterOf(s)] = held[MeterOf(s)]
      BY <1>1, <2>3, SlowSlotTypes DEF CloseContact, OpenContact, TypeOK
    <3> QED
      BY <1>1, <2>1, <2>2, <3>1 DEF SlowInv, SlowMeter
  <2>4. CASE MeterOf(s) = m
    <3>1. DueIn(Out(s)) \in Nat /\ DueIn(Out(s)) <= Period(Out(s)) /\ Period(Out(s)) \in Nat
      BY DueInBound, SlowSlotTypes, TicksFacts DEF SlowInv
    <3>2. ~ (SeenClosed(s) <=> m \notin closed)
      BY <1>1, <2>4, <3>1, SlowSlotTypes DEF SlowInv, SlowMeter
    <3>3. held'[m] = 0
      BY <1>1 DEF TypeOK
    <3>4. pulses[m] <= edges[s]
      BY <2>4, <3>2, SlowSlotTypes DEF SlowInv, SlowMeter
    <3>5. CASE CloseContact(m)
      <4>1. m \in closed' /\ pulses' = pulses
        BY <3>5 DEF CloseContact
      <4> QED
        BY <1>1, <2>1, <2>2, <2>4, <3>1, <3>3, <3>4, <4>1, SlowSlotTypes DEF SlowMeter
    <3>6. CASE OpenContact(m)
      <4>1. m \in closed /\ m \notin closed' /\ pulses'[m] = pulses[m] + 1
        BY <3>6 DEF OpenContact, TypeOK
      <4> QED
        BY <1>1, <2>1, <2>2, <2>4, <3>1, <3>2, <3>3, <3>4, <4>1, SlowSlotTypes DEF SlowMeter
    <3> QED
      BY <3>5, <3>6
  <2> QED
    BY <2>3, <2>4
<1>4. SlowSlots' = SlowSlots
  BY DEF SlowSlots, Used, SlowEnough
<1> QED
  BY <1>2, <1>3, <1>4 DEF SlowInv

\* A sample shows where the contacts of its group are.
LEMMA SlowSample ==
    ASSUME TypeOK, SlowInv, NEW g \in Groups, NEW mask, Sample(g, mask),
           UNCHANGED <<closed, pulses, held>>,
           \/ g \in OutPorts /\ mask = (currentMask \ PcMask) \cup OnMask(g)
           \/ g = NoPort,
           \A h \in Groups \ {g} : DueIn(h)' = DueIn(h)
    PROVE  \A s \in SlowSlots : SlowMeter(s)'
<1> SUFFICES ASSUME NEW s \in SlowSlots PROVE SlowMeter(s)'
  OBVIOUS
<1>1. CASE Out(s) # g
  <2>1. edges'[s] = edges[s] /\ currentInputMask'[Out(s)] = currentInputMask[Out(s)]
    BY <1>1, SlowSlotTypes DEF Sample, SampleReading, TypeOK
  <2>2. DueIn(Out(s))' = DueIn(Out(s))
    BY <1>1, SlowSlotTypes
  <2> QED
    BY <2>1, <2>2 DEF SlowInv, SlowMeter, SeenClosed
<1>2. CASE Out(s) = g
  <2>1. /\ currentInputMask'[g] = ReadInputPorts(mask)
        /\ previousInputMask'[g] = currentInputMask[g]
    BY DEF Sample, SampleReading, TypeOK
  <2>2. SeenClosed(s)' <=> MeterOf(s) \in closed
    BY <1>2, <2>1, SampleShowsMeter, SlowSlotTypes DEF SeenClosed
  <2>3. edges'[s] = IF SeenClosed(s) /\ MeterOf(s) \notin closed THEN edges[s] + 1 ELSE edges[s]
    <3>1. edges'[s] = IF In(s) \in currentInputMask'[g] \ previousInputMask'[g]
                      THEN edges[s] + 1 ELSE edges[s]
      BY <1>2, SlowSlotTypes DEF Sample, SampleReading, InputHasRisingEdge
    <3> QED
      BY <1>2, <2>1, <2>2, <3>1 DEF SeenClosed
  <2> QED
    BY <2>2, <2>3, SlowSlotTypes DEF SlowInv, SlowMeter
<1> QED
  BY <1>1, <1>2

\* A step that neither moves a contact nor samples, and brings no sample further away.
LEMMA SlowWait ==
    ASSUME TypeOK, SlowInv, UNCHANGED <<closed, pulses, edges, currentInputMask>>,
           \A s \in SlowSlots :
              held'[MeterOf(s)] + DueIn(Out(s))' <= held[MeterOf(s)] + DueIn(Out(s)),
           \A s \in SlowSlots : held'[MeterOf(s)] + DueIn(Out(s))' \in Nat
    PROVE  \A s \in SlowSlots : SlowMeter(s)'
<1> SUFFICES ASSUME NEW s \in SlowSlots PROVE SlowMeter(s)'
  OBVIOUS
<1>1. SeenClosed(s)' <=> SeenClosed(s)
  BY DEF SeenClosed
<1>2. DueIn(Out(s)) \in Nat /\ Period(Out(s)) \in Nat /\ held[MeterOf(s)] \in Nat
  BY DueInBound, SlowSlotTypes, TicksFacts DEF SlowInv
<1> QED
  BY <1>1, <1>2 DEF SlowInv, SlowMeter

LEMMA SlowInductive ==
    (Init => SlowInv) /\ (TypeOK /\ SlowInv /\ [Next]_vars => SlowInv')
<1>1. Init => SlowInv
  <2> SUFFICES ASSUME Init PROVE SlowInv
    OBVIOUS
  <2>1. TypeOK
    BY TypeInductive
  <2>2. CountsBounded
    BY BoardAssumption, MaxCountType DEF Init, InitReading, CountsBounded
  <2>3. ASSUME NEW s \in SlowSlots PROVE SlowMeter(s)
    <3>1. pulses[MeterOf(s)] = 0 /\ edges[s] = 0 /\ held[MeterOf(s)] = 0
      BY <2>1, SlowSlotTypes DEF Init, InitReading
    <3>2. DueIn(Out(s)) \in Nat /\ DueIn(Out(s)) <= Period(Out(s))
      BY <2>1, <2>2, DueInBound, SlowSlotTypes
    <3> QED
      BY <3>1, <3>2 DEF SlowMeter
  <2> QED
    BY <2>2, <2>3 DEF SlowInv
<1>2. TypeOK /\ SlowInv /\ [Next]_vars => SlowInv'
  <2> SUFFICES ASSUME TypeOK, SlowInv, [Next]_vars PROVE SlowInv'
    OBVIOUS
  <2>0. /\ SlowSlots' = SlowSlots
        /\ \A g \in Groups : DueIn(g) \in Nat
        /\ \A s \in SlowSlots : Out(s) \in Groups /\ held[MeterOf(s)] \in Nat
    BY DueInBound, SlowSlotTypes DEF SlowInv, SlowSlots, Used, SlowEnough
  <2>1. CASE \E m \in Meters : CloseContact(m) \/ OpenContact(m)
    BY <2>1, SlowToggle
  <2>2. CASE Elapse
    <3>1. /\ pc = "sleep" /\ pc' = "sleep" /\ sleepLeft > 0 /\ sleepLeft' = sleepLeft - 1
          /\ UNCHANGED <<closed, pulses, edges, currentInputMask, currentCount, scan>>
      BY <2>2 DEF Elapse, sampleVars
    <3>2. CountsBounded'
      BY <3>1, BoardAssumption DEF SlowInv, CountsBounded, TypeOK
    <3>3. ASSUME NEW g \in Groups PROVE DueIn(g)' = DueIn(g) - 1 /\ DueIn(g) \in Nat \ {0}
      <4>1. g # NoPort => Ticks(currentCount[g]) \in Nat
        BY TicksFacts DEF TypeOK, Groups
      <4> QED
        BY <3>1, <4>1 DEF DueIn, TypeOK
    <3>4. \A m \in Meters : held'[m] \in Nat /\ held'[m] <= held[m] + 1
      BY <2>2 DEF Elapse, TypeOK
    <3>5. ASSUME NEW s \in SlowSlots
          PROVE  /\ held'[MeterOf(s)] + DueIn(Out(s))' <= held[MeterOf(s)] + DueIn(Out(s))
                 /\ held'[MeterOf(s)] + DueIn(Out(s))' \in Nat
      BY <3>3, <3>4, SlowSlotTypes
    <3> QED
      BY <2>0, <3>1, <3>2, <3>5, SlowWait DEF SlowInv
  <2>3. CASE SampleOutput
    <3>1. /\ scan \in OutPorts /\ pc = "scan" /\ pc' = "scan" /\ scan' = scan + 1
          /\ UNCHANGED <<closed, held, pulses, sleepLeft, currentCount>>
      BY <2>3, BoardAssumption DEF SampleOutput, OutputDue, OutputSampled, OutPorts, TypeOK,
                                   meterVars
    <3>2. ASSUME NEW g \in Groups \ {scan} PROVE DueIn(g)' = DueIn(g)
      BY <3>1 DEF DueIn, OutPorts, Groups
    <3>3. CountsBounded'
      BY <3>1 DEF SlowInv, CountsBounded
    <3>4. Sample(scan, (currentMask \ PcMask) \cup OnMask(scan)) /\ scan \in Groups
      BY <2>3, <3>1, ConfigTypes DEF SampleOutput
    <3>5. \A s \in SlowSlots : SlowMeter(s)'
      BY <3>1, <3>2, <3>4, SlowSample
    <3> QED
      BY <2>0, <3>3, <3>5 DEF SlowInv
  <2>4. CASE SkipOutput
    <3>1. /\ scan \in OutPorts /\ pc = "scan" /\ pc' = "scan" /\ scan' = scan + 1
          /\ ~ Due(scan)
          /\ UNCHANGED <<closed, held, pulses, sleepLeft, currentCount, edges, currentInputMask>>
      BY <2>4, BoardAssumption DEF SkipOutput, OutPorts, TypeOK, meterVars, sampleVars
    <3>2. CountsBounded'
      BY <3>1 DEF SlowInv, CountsBounded
    <3>3. ASSUME NEW s \in SlowSlots PROVE DueIn(Out(s))' = DueIn(Out(s))
      <4>1. CASE Out(s) = scan
        <5>1. HasCounter(scan) /\ MaxCount(scan) > 0
          BY <3>1, <4>1, BoardAssumption DEF SlowSlots, SlowEnough, IsSampled, HasCounter
        <5>2. currentCount[scan] > 0
          BY <3>1, <5>1 DEF Due, TypeOK
        <5> QED
          BY <3>1, <4>1, <5>2, BoardAssumption DEF DueIn
      <4>2. CASE Out(s) # scan
        BY <3>1, <4>2, <2>0 DEF DueIn, OutPorts, Groups
      <4> QED
        BY <4>1, <4>2
    <3> QED
      BY <2>0, <3>1, <3>2, <3>3, SlowWait DEF SlowInv
  <2>5. CASE SampleNoOutput
    <3>1. /\ scan = NumOutPorts /\ pc = "scan" /\ pc' = "count" /\ scan' = scan
          /\ UNCHANGED <<closed, held, pulses, sleepLeft, currentCount>>
      BY <2>5 DEF SampleNoOutput, ScanComplete, DirectSampled, meterVars
    <3>2. ASSUME NEW g \in Groups \ {NoPort} PROVE DueIn(g)' = DueIn(g)
      BY <3>1, BoardAssumption DEF DueIn, OutPorts, Groups
    <3>3. CountsBounded'
      BY <3>1 DEF SlowInv, CountsBounded
    <3>4. Sample(NoPort, IF AtLeastOneOutput THEN currentMask ELSE outputPorts)
      BY <2>5 DEF SampleNoOutput
    <3>5. \A s \in SlowSlots : SlowMeter(s)'
      BY <3>1, <3>2, <3>4, SlowSample, ConfigTypes
    <3> QED
      BY <2>0, <3>3, <3>5 DEF SlowInv
  <2>6. CASE CountDown
    <3>1. /\ pc = "countdown" /\ pc' = "sleep" /\ sleepLeft' = SleepTicks
          /\ currentCount' = [p \in OutPorts |-> NextCount(p)]
          /\ UNCHANGED <<closed, held, pulses, edges, currentInputMask>>
      BY <2>6 DEF CountDown, meterVars, sampleVars
    <3>2. CountsBounded'
      BY <3>1, MaxCountType, BoardAssumption DEF SlowInv, CountsBounded, NextCount, TypeOK
    <3>3. ASSUME NEW g \in Groups PROVE DueIn(g)' = DueIn(g)
      <4>1. CASE g = NoPort
        BY <3>1, <4>1 DEF DueIn
      <4>2. CASE g \in OutPorts /\ currentCount[g] > 0
        <5>1. currentCount'[g] = currentCount[g] - 1 /\ currentCount[g] - 1 \in Nat
          BY <3>1, <4>2 DEF NextCount, TypeOK
        <5>2. Ticks(currentCount[g]) = Ticks(currentCount[g] - 1) + SleepTicks
          <6>1. Ticks((currentCount[g] - 1) + 1) = Ticks(currentCount[g] - 1) + SleepTicks
            BY <5>1, TicksFacts
          <6>2. (currentCount[g] - 1) + 1 = currentCount[g]
            BY <4>2 DEF TypeOK
          <6> QED
            BY <6>1, <6>2
        <5>3. DueIn(g) = Ticks(currentCount[g]) /\ DueIn(g)' = SleepTicks + Ticks(currentCount'[g])
          BY <3>1, <4>2, BoardAssumption DEF DueIn
        <5>4. Ticks(currentCount'[g]) \in Nat /\ SleepTicks \in Nat
          BY <5>1, TicksFacts, BoardAssumption
        <5> QED
          BY <5>1, <5>2, <5>3, <5>4
      <4>3. CASE g \in OutPorts /\ ~ (currentCount[g] > 0)
        <5>1. currentCount'[g] = MaxCount(g)
          BY <3>1, <4>3 DEF NextCount
        <5>2. DueIn(g) = Period(g) /\ DueIn(g)' = SleepTicks + Ticks(MaxCount(g))
          BY <3>1, <4>3, <5>1, BoardAssumption DEF DueIn
        <5>3. Ticks(MaxCount(g)) \in Nat /\ SleepTicks \in Nat
          BY TicksFacts, MaxCountType, BoardAssumption
        <5>4. Period(g) = Ticks(MaxCount(g)) + SleepTicks
          BY TicksFacts
        <5> QED
          BY <5>2, <5>3, <5>4
      <4> QED
        BY <4>1, <4>2, <4>3 DEF Groups
    <3> QED
      BY <2>0, <3>1, <3>2, <3>3, SlowWait DEF SlowInv
  <2>7. CASE StartIteration
    <3>1. /\ pc = "sleep" /\ pc' = "scan" /\ sleepLeft = 0 /\ scan' = 0
          /\ UNCHANGED <<closed, held, pulses, edges, currentInputMask, sleepLeft, currentCount>>
      BY <2>7 DEF StartIteration, StartIterationReading, meterVars
    <3>2. CountsBounded'
      BY <3>1 DEF SlowInv, CountsBounded
    <3>3. ASSUME NEW g \in Groups PROVE DueIn(g)' = DueIn(g)
      <4>1. g # NoPort => g \in OutPorts /\ 0 <= g /\ Ticks(currentCount[g]) \in Nat
        <5> SUFFICES ASSUME g # NoPort
                     PROVE  g \in OutPorts /\ 0 <= g /\ Ticks(currentCount[g]) \in Nat
          OBVIOUS
        <5>1. g \in OutPorts /\ 0 <= g /\ currentCount[g] \in Nat
          BY BoardAssumption DEF TypeOK, Groups, OutPorts
        <5> QED
          BY <5>1, TicksFacts
      <4> QED
        BY <3>1, <4>1 DEF DueIn
    <3> QED
      BY <2>0, <3>1, <3>2, <3>3, SlowWait DEF SlowInv
  <2>8. CASE CountPulses
    <3>1. /\ pc = "count" /\ pc' = "countdown"
          /\ UNCHANGED <<closed, held, pulses, edges, currentInputMask, sleepLeft, currentCount,
                         scan>>
      BY <2>8 DEF CountPulses, meterVars, sampleVars
    <3>2. CountsBounded' /\ \A g \in Groups : DueIn(g)' = DueIn(g)
      BY <3>1 DEF SlowInv, CountsBounded, DueIn
    <3> QED
      BY <2>0, <3>1, <3>2, SlowWait DEF SlowInv
  <2>9. CASE Store \/ UNCHANGED vars
    <3>1. UNCHANGED <<closed, held, pulses, edges, currentInputMask, sleepLeft, currentCount,
                      scan, pc>>
      BY <2>9 DEF Store, StartStore, StoreCount, RequestReset, meterVars, sampleVars, vars
    <3>2. CountsBounded' /\ \A g \in Groups : DueIn(g)' = DueIn(g)
      BY <3>1 DEF SlowInv, CountsBounded, DueIn
    <3> QED
      BY <2>0, <3>1, <3>2, SlowWait DEF SlowInv
  <2> QED
    BY <2>1, <2>2, <2>3, <2>4, <2>5, <2>6, <2>7, <2>8, <2>9 DEF Next, Reader
<1> QED
  BY <1>1, <1>2

\* A meter that holds each position of its contact longer than the time between two samples
\* of its output has at most one pulse the scan has not seen, whatever the other meters do
\* and however many outputs there are. With NoPhantom: edges and pulses never differ by more.
THEOREM NoneMissed == Spec => []NoMissedPulse
<1>1. SlowInv /\ TypeOK => NoMissedPulse
  <2> SUFFICES ASSUME SlowInv, TypeOK, NEW s \in Slots, Used(s), SlowEnough(s)
               PROVE  pulses[MeterOf(s)] <= edges[s] + 1
    BY DEF NoMissedPulse
  <2> QED
    BY SlowSlotTypes DEF SlowInv, SlowMeter, SlowSlots
<1> QED
  BY <1>1, SlowInductive, TypeInductive, PTL DEF Spec
-----------------------------------------------------------------------------
(* A failing bus: the lemmas on a sample hold of a sample that read          *)
(* anything; here they are put together with the steps that fail.            *)

FaultyTypeOK == TypeOK /\ faults \in Nat

\* The steps of the reader whose transfers fail keep the types as well.
LEMMA FaultyTypeInductive ==
    (FaultyInit => FaultyTypeOK) /\ (FaultyTypeOK /\ [FaultyNext]_faultyVars => FaultyTypeOK')
<1>1. FaultyInit => FaultyTypeOK
  <2>1. ASSUME NEW lines \in SUBSET InPorts, InitReading(lines) PROVE TypeOK
    <3>1. currentInputMask \in [Groups -> SUBSET InPorts]
      BY <2>1 DEF InitReading
    <3>2. previousInputMask \in [Groups -> SUBSET InPorts]
      BY <2>1, <3>1 DEF InitReading
    <3>3. outputPorts \subseteq OutPorts
      BY <2>1, ConfigTypes DEF InitReading
    <3>4. storeIdx \in 0 .. Len(Counters) + 1 /\ scan \in 0 .. NumOutPorts
      BY <2>1, SlotFacts, ConfigTypes DEF InitReading
    <3> QED
      BY <2>1, <3>1, <3>2, <3>3, <3>4 DEF InitReading, TypeOK
  <2> QED
    BY <2>1, TypeInductive DEF FaultyInit, FaultyTypeOK
<1>2. FaultyTypeOK /\ [FaultyNext]_faultyVars => FaultyTypeOK'
  <2> SUFFICES ASSUME FaultyTypeOK, [FaultyNext]_faultyVars PROVE FaultyTypeOK'
    OBVIOUS
  <2> USE DEF FaultyTypeOK
  <2>1. CASE Next /\ UNCHANGED faults
    BY <2>1, TypeInductive
  <2>2. CASE FaultyStartIteration
    <3>1. PICK mask \in SUBSET OutPorts : StartIterationReading(mask)
      BY <2>2 DEF FaultyStartIteration, Transfer
    <3>2. faults' \in Nat
      BY <2>2 DEF FaultyStartIteration, Transfer
    <3> QED
      BY <3>1, <3>2, ConfigTypes
         DEF StartIterationReading, CountersAfterReset, TypeOK, meterVars, storeVars
  <2>3. CASE FaultySampleOutput
    <3>1. PICK mask \in SUBSET OutPorts, lines \in SUBSET InPorts : SampleReading(scan, mask, lines)
      BY <2>3 DEF FaultySampleOutput, Transfer, FaultySample
    <3>2. faults' \in Nat /\ OutputDue /\ OutputSampled
      BY <2>3 DEF FaultySampleOutput, Transfer
    <3>3. scan \in OutPorts /\ scan + 1 \in 0 .. NumOutPorts
      BY <3>2, BoardAssumption DEF OutputDue, OutPorts, TypeOK
    <3> QED
      BY <3>1, <3>2, <3>3, SampleType, ConfigTypes DEF OutputSampled, TypeOK, meterVars, storeVars
  <2>4. CASE FaultySampleNoOutput
    <3>1. PICK mask \in SUBSET OutPorts, lines \in SUBSET InPorts :
             SampleReading(NoPort, mask, lines)
      BY <2>4 DEF FaultySampleNoOutput, Transfer, FaultySample
    <3>2. faults' \in Nat /\ DirectSampled
      BY <2>4 DEF FaultySampleNoOutput, Transfer
    <3> QED
      BY <3>1, <3>2, SampleType, ConfigTypes DEF DirectSampled, TypeOK, meterVars, storeVars
  <2>5. CASE UNCHANGED faultyVars
    BY <2>5, TypeInductive DEF faultyVars
  <2> QED
    BY <2>1, <2>2, <2>3, <2>4, <2>5 DEF FaultyNext, FaultyReader
<1> QED
  BY <1>1, <1>2

-----------------------------------------------------------------------------
(* False edges                                                              *)

\* Like PulseInHand: a slot whose last sample was low while its meter's contact is open has
\* a pulse, or a transfer that failed, in hand.
EdgeInHand(s) ==
    In(s) \notin currentInputMask[Out(s)] /\ MeterOf(s) \notin closed
        => edges[s] + 1 <= pulses[MeterOf(s)] + faults

FalseEdgeInv == \A s \in Slots : Used(s) => /\ edges[s] <= pulses[MeterOf(s)] + faults
                                            /\ EdgeInHand(s)

\* A sample that was hit: one more fault pays for one more edge.
LEMMA FaultySampleEdges ==
    ASSUME FaultyTypeOK, FalseEdgeInv, NEW g \in Groups, NEW mask, NEW lines,
           SampleReading(g, mask, lines), UNCHANGED <<closed, pulses>>, faults' = faults + 1
    PROVE  FalseEdgeInv'
<1> SUFFICES ASSUME NEW s \in Slots, Used(s)
             PROVE  (edges[s] <= pulses[MeterOf(s)] + faults /\ EdgeInHand(s))'
  BY DEF FalseEdgeInv, Used
<1>1. edges[s] <= pulses[MeterOf(s)] + faults /\ EdgeInHand(s)
  BY DEF FalseEdgeInv
<1>2. /\ edges[s] \in Nat /\ pulses[MeterOf(s)] \in Nat /\ faults \in Nat
      /\ Out(s) \in Groups /\ In(s) # NoPort
  BY SlotFacts, BoardAssumption DEF FaultyTypeOK, TypeOK
<1>3. currentInputMask'[Out(s)] = (IF Out(s) = g THEN lines ELSE currentInputMask[Out(s)])
  BY <1>2 DEF SampleReading, FaultyTypeOK, TypeOK
<1>4. previousInputMask'[g] = currentInputMask[g]
  BY DEF SampleReading, FaultyTypeOK, TypeOK
<1>5. CASE edges'[s] = edges[s]
  BY <1>1, <1>2, <1>5 DEF EdgeInHand
<1>6. CASE edges'[s] # edges[s]
  <2>1. /\ edges'[s] = edges[s] + 1
        /\ Out(s) = g /\ In(s) \in currentInputMask'[g]
    BY <1>2, <1>6 DEF SampleReading, InputHasRisingEdge
  <2> QED
    BY <1>1, <1>2, <2>1 DEF EdgeInHand
<1> QED
  BY <1>5, <1>6

\* A sample that was not: as on a bus that works.
LEMMA GoodSampleEdges ==
    ASSUME FaultyTypeOK, FalseEdgeInv, NEW g \in Groups, NEW mask, Sample(g, mask),
           UNCHANGED <<closed, pulses, faults>>,
           \/ g \in OutPorts /\ mask = (currentMask \ PcMask) \cup OnMask(g)
           \/ g = NoPort
    PROVE  FalseEdgeInv'
<1> SUFFICES ASSUME NEW s \in Slots, Used(s)
             PROVE  (edges[s] <= pulses[MeterOf(s)] + faults /\ EdgeInHand(s))'
  BY DEF FalseEdgeInv, Used
<1>1. edges[s] <= pulses[MeterOf(s)] + faults /\ EdgeInHand(s)
  BY DEF FalseEdgeInv
<1>2. /\ edges[s] \in Nat /\ pulses[MeterOf(s)] \in Nat /\ faults \in Nat
      /\ Out(s) \in Groups /\ In(s) # NoPort /\ TypeOK
  BY SlotFacts, BoardAssumption DEF FaultyTypeOK, TypeOK
<1>3. CASE Out(s) # g
  <2>1. edges'[s] = edges[s] /\ currentInputMask'[Out(s)] = currentInputMask[Out(s)]
    BY <1>2, <1>3 DEF Sample, SampleReading, TypeOK
  <2> QED
    BY <1>1, <2>1 DEF EdgeInHand
<1>4. CASE Out(s) = g
  <2>1. /\ currentInputMask'[g] = ReadInputPorts(mask)
        /\ previousInputMask'[g] = currentInputMask[g]
    BY <1>2 DEF Sample, SampleReading, TypeOK
  <2>2. In(s) \in currentInputMask'[g] <=> MeterOf(s) \notin closed
    BY <1>2, <2>1, <1>4, SampleShowsMeter
  <2>3. CASE In(s) \in currentInputMask'[g] \ currentInputMask[g]
    <3>1. edges'[s] = edges[s] + 1
      BY <2>1, <2>3, <1>2, <1>4 DEF Sample, SampleReading, InputHasRisingEdge
    <3> QED
      BY <3>1, <2>2, <2>3, <1>1, <1>2, <1>4 DEF EdgeInHand
  <2>4. CASE In(s) \notin currentInputMask'[g] \ currentInputMask[g]
    <3>1. edges'[s] = edges[s]
      BY <2>1, <2>4, <1>2, <1>4 DEF Sample, SampleReading, InputHasRisingEdge
    <3> QED
      BY <3>1, <2>2, <2>4, <1>1, <1>2, <1>4 DEF EdgeInHand
  <2> QED
    BY <2>3, <2>4
<1> QED
  BY <1>3, <1>4

LEMMA FalseEdgeInit == FaultyInit => FalseEdgeInv
<1> SUFFICES ASSUME FaultyInit, NEW s \in Slots, Used(s)
             PROVE  edges[s] <= pulses[MeterOf(s)] + faults /\ EdgeInHand(s)
  BY DEF FalseEdgeInv
<1>1. MeterOf(s) \in Meters /\ In(s) \in InPorts /\ Out(s) \in Groups
  BY SlotFacts DEF Used
<1>2. edges[s] = 0 /\ pulses[MeterOf(s)] = 0
  BY <1>1 DEF FaultyInit, Init, InitReading
<1>3. CASE Init /\ faults = 0
  <2>1. PhantomInv
    BY <1>3, PhantomInductive
  <2> QED
    BY <1>2, <1>3, <2>1 DEF PhantomInv, PulseInHand, EdgeInHand
<1>4. CASE faults = 1
  BY <1>2, <1>4 DEF EdgeInHand
<1> QED
  BY <1>3, <1>4 DEF FaultyInit

\* The steps of a bus that works.
LEMMA FalseEdgeNext ==
    ASSUME FaultyTypeOK, FalseEdgeInv, [Next]_vars, UNCHANGED faults
    PROVE  FalseEdgeInv'
<1>1. ASSUME NEW m \in Meters, CloseContact(m) PROVE FalseEdgeInv'
  BY <1>1 DEF CloseContact, Toggle, sampleVars, FalseEdgeInv, EdgeInHand
<1>2. ASSUME NEW m \in Meters, OpenContact(m) PROVE FalseEdgeInv'
  <2> SUFFICES ASSUME NEW s \in Slots, Used(s)
               PROVE  (edges[s] <= pulses[MeterOf(s)] + faults /\ EdgeInHand(s))'
    BY DEF FalseEdgeInv
  <2>1. edges' = edges /\ currentInputMask' = currentInputMask /\ closed' = closed \ {m}
    BY <1>2 DEF OpenContact, Toggle, sampleVars
  <2>2. edges[s] <= pulses[MeterOf(s)] + faults /\ EdgeInHand(s)
    BY DEF FalseEdgeInv
  <2>3. /\ edges[s] \in Nat /\ pulses[MeterOf(s)] \in Nat /\ MeterOf(s) \in Meters
        /\ faults \in Nat
    BY SlotFacts DEF FaultyTypeOK, TypeOK
  <2>4. CASE MeterOf(s) = m
    <3>1. pulses'[MeterOf(s)] = pulses[MeterOf(s)] + 1
      BY <1>2, <2>4, <2>3 DEF OpenContact, FaultyTypeOK, TypeOK
    <3> QED
      BY <3>1, <2>1, <2>2, <2>3 DEF EdgeInHand
  <2>5. CASE MeterOf(s) # m
    <3>1. pulses'[MeterOf(s)] = pulses[MeterOf(s)]
      BY <1>2, <2>5, <2>3 DEF OpenContact, FaultyTypeOK, TypeOK
    <3> QED
      BY <3>1, <2>1, <2>2, <2>5 DEF EdgeInHand
  <2> QED
    BY <2>4, <2>5
<1>3. CASE SampleOutput
  <2>1. scan \in OutPorts
    BY <1>3, BoardAssumption DEF SampleOutput, OutputDue, OutPorts, FaultyTypeOK, TypeOK
  <2> QED
    BY <1>3, <2>1, GoodSampleEdges, ConfigTypes DEF SampleOutput, OutputSampled, meterVars
<1>4. CASE SampleNoOutput
  BY <1>4, GoodSampleEdges, ConfigTypes DEF SampleNoOutput, DirectSampled, meterVars
<1>5. CASE UNCHANGED <<closed, pulses, edges, currentInputMask>>
  BY <1>5 DEF FalseEdgeInv, EdgeInHand
<1> QED
  BY <1>1, <1>2, <1>3, <1>4, <1>5
     DEF Next, Reader, Store, Elapse, StartIteration, StartIterationReading, SkipOutput,
         CountPulses, CountDown, StartStore, StoreCount, RequestReset, vars, meterVars, sampleVars

\* A failing transfer of the I2C bus makes no more than one false edge per counter, whatever
\* the uninitialised mask was and however long the output register keeps a wrong mask.
THEOREM FalseEdges == FaultySpec => []FalseEdgesBounded
<1>1. FaultyTypeOK /\ FalseEdgeInv /\ [FaultyNext]_faultyVars => FalseEdgeInv'
  <2> SUFFICES ASSUME FaultyTypeOK, FalseEdgeInv, [FaultyNext]_faultyVars PROVE FalseEdgeInv'
    OBVIOUS
  <2>1. CASE FaultyStartIteration
    <3>1. UNCHANGED <<closed, pulses, edges, currentInputMask>> /\ faults' = faults + 1
      BY <2>1 DEF FaultyStartIteration, Transfer, StartIterationReading, meterVars
    <3>2. \A s \in Slots : Used(s) => edges[s] \in Nat /\ pulses[MeterOf(s)] \in Nat
      BY SlotFacts DEF FaultyTypeOK, TypeOK
    <3> QED
      BY <3>1, <3>2 DEF FalseEdgeInv, EdgeInHand, FaultyTypeOK
  <2>2. CASE FaultySampleOutput
    <3>1. scan \in OutPorts
      BY <2>2, BoardAssumption
         DEF FaultySampleOutput, Transfer, OutputDue, OutPorts, FaultyTypeOK, TypeOK
    <3>2. PICK mask, lines : SampleReading(scan, mask, lines)
      BY <2>2 DEF FaultySampleOutput, Transfer, FaultySample
    <3> QED
      BY <2>2, <3>1, <3>2, FaultySampleEdges, ConfigTypes
         DEF FaultySampleOutput, Transfer, OutputSampled, meterVars
  <2>3. CASE FaultySampleNoOutput
    <3>1. PICK mask, lines : SampleReading(NoPort, mask, lines)
      BY <2>3 DEF FaultySampleNoOutput, Transfer, FaultySample
    <3> QED
      BY <2>3, <3>1, FaultySampleEdges, ConfigTypes
         DEF FaultySampleNoOutput, Transfer, DirectSampled, meterVars
  <2> QED
    BY <2>1, <2>2, <2>3, FalseEdgeNext DEF FaultyNext, FaultyReader, faultyVars
<1>2. FalseEdgeInv => FalseEdgesBounded
  BY DEF FalseEdgeInv, FalseEdgesBounded
<1> QED
  BY <1>1, <1>2, FalseEdgeInit, FaultyTypeInductive, PTL DEF FaultySpec

-----------------------------------------------------------------------------
(* Counting what was seen                                                   *)

\* Also on a failing bus every edge that a sample showed, true or false, is counted when
\* countPulses is through.
THEOREM FaultyEdgesCounted == FaultySpec => []EveryEdgeCounted
<1>1. FaultyInit => EdgeInv
  BY DEF FaultyInit, Init, InitReading, EdgeInv
<1>2. FaultyTypeOK /\ EdgeInv /\ [FaultyNext]_faultyVars => EdgeInv'
  <2> SUFFICES ASSUME TypeOK, EdgeInv, [FaultyNext]_faultyVars PROVE EdgeInv'
    BY DEF FaultyTypeOK
  <2>1. CASE FaultyStartIteration
    BY <2>1 DEF FaultyStartIteration, Transfer, StartIterationReading, EdgeInv, Pending
  <2>2. CASE FaultySampleOutput
    <3>1. OutputDue /\ OutputSampled
      BY <2>2 DEF FaultySampleOutput, Transfer
    <3>2. scan \in OutPorts
      BY <3>1, BoardAssumption DEF OutputDue, OutPorts, TypeOK
    <3>3. PICK mask, lines : SampleReading(scan, mask, lines)
      BY <2>2 DEF FaultySampleOutput, Transfer, FaultySample
    <3> QED
      BY <3>1, <3>2, <3>3, SampleEdge, ConfigTypes DEF OutputDue, OutputSampled
  <2>3. CASE FaultySampleNoOutput
    <3>1. PICK mask, lines : SampleReading(NoPort, mask, lines)
      BY <2>3 DEF FaultySampleNoOutput, Transfer, FaultySample
    <3> QED
      BY <2>3, <3>1, SampleEdge, ConfigTypes
         DEF FaultySampleNoOutput, Transfer, ScanComplete, DirectSampled
  <2> QED
    BY <2>1, <2>2, <2>3, EdgeInductive DEF FaultyNext, FaultyReader, faultyVars
<1>3. EdgeInv => EveryEdgeCounted
  BY DEF EdgeInv, EveryEdgeCounted, Pending
<1> QED
  BY <1>1, <1>2, <1>3, FaultyTypeInductive, PTL DEF FaultySpec

\* Nor does a failing bus make an edge count more often than the period of its output allows.
THEOREM FaultyRecount == FaultySpec => []RecountBound
<1>1. FaultyInit => RecountInv
  <2> SUFFICES ASSUME FaultyInit, NEW s \in Slots
               PROVE  counted[s] <= Bound(s) /\ ~ Rising(s)
    BY DEF RecountInv
  <2>1. Out(s) \in Groups /\ MaxCount(Out(s)) \in Nat
    BY SlotFacts, MaxCountType
  <2>2. counted[s] = 0 /\ Bound(s) \in Nat
    BY <2>1, BoundGrows DEF FaultyInit, Init, InitReading, Bound
  <2>3. ~ Rising(s)
    BY DEF FaultyInit, Init, InitReading, Rising, InputHasRisingEdge
  <2> QED
    BY <2>2, <2>3
<1>2. FaultyTypeOK /\ RecountInv /\ [FaultyNext]_faultyVars => RecountInv'
  <2> SUFFICES ASSUME TypeOK, RecountInv, [FaultyNext]_faultyVars PROVE RecountInv'
    BY DEF FaultyTypeOK
  <2>1. CASE FaultyStartIteration
    <3>1. /\ UNCHANGED <<edges, counted, currentCount, previousInputMask, currentInputMask>>
          /\ pc = "sleep" /\ pc' = "scan" /\ scan' = 0
      BY <2>1 DEF FaultyStartIteration, Transfer, StartIterationReading
    <3>2. \A s \in Slots : Out(s) # NoPort => ~ Sampled(s)'
      BY <3>1, SlotFacts DEF Sampled, Groups, OutPorts
    <3>3. \A s \in Slots : Left(s)' = Left(s)
      BY <3>1, <3>2 DEF Left, Sampled
    <3> QED
      BY <3>1, <3>3, MoreRoom
  <2>2. CASE FaultySampleOutput
    <3>1. OutputDue /\ OutputSampled
      BY <2>2 DEF FaultySampleOutput, Transfer
    <3>2. scan \in OutPorts
      BY <3>1, BoardAssumption DEF OutputDue, OutPorts, TypeOK
    <3>3. PICK mask, lines : SampleReading(scan, mask, lines)
      BY <2>2 DEF FaultySampleOutput, Transfer, FaultySample
    <3> QED
      BY <3>1, <3>2, <3>3, SampleRecount, ConfigTypes DEF OutputDue, OutputSampled, Due
  <2>3. CASE FaultySampleNoOutput
    <3>1. PICK mask, lines : SampleReading(NoPort, mask, lines)
      BY <2>3 DEF FaultySampleNoOutput, Transfer, FaultySample
    <3>2. ScanComplete /\ DirectSampled
      BY <2>3 DEF FaultySampleNoOutput, Transfer
    <3> QED
      BY <3>1, <3>2, SampleRecount, ConfigTypes DEF ScanComplete, DirectSampled
  <2> QED
    BY <2>1, <2>2, <2>3, RecountInductive DEF FaultyNext, FaultyReader, faultyVars
<1>3. RecountInv => RecountBound
  BY DEF RecountInv, RecountBound, Bound
<1> QED
  BY <1>1, <1>2, <1>3, FaultyTypeInductive, PTL DEF FaultySpec
=============================================================================
