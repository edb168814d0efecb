------------------------------ MODULE FaultyBus ------------------------------
(***************************************************************************)
(* The pulse counter on an I2C bus whose transfers may fail (pcf8574_read, *)
(* pcf8574_write and their callers in lib/hardware).  The class I2c logs a *)
(* failure and goes on: a read then returns its uninitialised local, that  *)
(* is any mask, and the caller of a write does not look at the result.     *)
(*                                                                         *)
(* A write that fails leaves any mask in the register: its address byte,   *)
(* which pcf8574_write sends as data first, may have come through.         *)
(***************************************************************************)
EXTENDS Pulsecounter

CONSTANT MaxFaults      \* bound: samples and reads of the output mask that are hit

ASSUME FaultsAssumption == MaxFaults \in Nat

VARIABLE faults         \* history: how many were hit

Transfer(failing) ==
    /\ faults < MaxFaults
    /\ failing
    /\ faults' = faults + 1

\* Pulsecounter::init reads the direct meters, or something else.
FaultyInit ==
    \/ Init /\ faults = 0
    \/ /\ MaxFaults > 0
       /\ \E lines \in SUBSET InPorts : InitReading(lines)
       /\ faults = 1

\* readOutputPorts: the mask the outputs get back after the scan is any mask.
FaultyStartIteration ==
    Transfer(\E mask \in SUBSET OutPorts : StartIterationReading(mask))

\* writeOutputs or readInputPorts: another output is selected, or the lines are not read.
\* Both expanders of the inputs are read into one mask.
FaultySample(g) ==
    \E mask \in SUBSET OutPorts, lines \in SUBSET InPorts : SampleReading(g, mask, lines)

FaultySampleOutput == Transfer(OutputDue /\ FaultySample(scan) /\ OutputSampled)

\* The same with the write that restores the outputs and the read of the direct meters.
FaultySampleNoOutput == Transfer(ScanComplete /\ FaultySample(NoPort) /\ DirectSampled)

FaultyReader == FaultyStartIteration \/ FaultySampleOutput \/ FaultySampleNoOutput

FaultyNext ==
    \/ Next /\ UNCHANGED faults
    \/ FaultyReader

faultyVars == <<vars, faults>>
FaultySpec == FaultyInit /\ [][FaultyNext]_faultyVars
-----------------------------------------------------------------------------
\* What the bus may do to a counter: a sample that was hit adds one edge at most, whatever
\* mask it left behind; the samples after it show the meter's own pulses again, also while
\* a wrong output mask is read back and restored for ever.
FalseEdgesBounded ==
    \A s \in Slots : Used(s) => edges[s] <= pulses[MeterOf(s)] + faults
=============================================================================
