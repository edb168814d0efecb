------------------------------- MODULE MCBatch -------------------------------
(* The scheduler's batches against the reader: an EMeter configured twice, a water *)
(* meter of a longer period on its line, and a counter beyond the capacity of the   *)
(* table.                                                                           *)
EXTENDS Pulsecounter

MCOutputs == <<[port |-> 0, type |-> EMeterType], [port |-> 1, type |-> WaterMeterType]>>
MCCounters == <<[out |-> 0, in |-> 1, divider |-> 1000],
                [out |-> 0, in |-> 1, divider |-> 400],
                [out |-> 1, in |-> 1, divider |-> 144000],
                [out |-> NoPort, in |-> 2, divider |-> 1000]>>
MCMeters == Channels
MCMinHold == [m \in Meters |-> 0]
=============================================================================
