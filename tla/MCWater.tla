------------------------------- MODULE MCWater -------------------------------
(* One water meter with the default divider, its contact a quarter second in each *)
(* position; a tick is 10 ms.                                                     *)
EXTENDS Pulsecounter

MCOutputs == <<[port |-> 0, type |-> WaterMeterType]>>
MCCounters == <<[out |-> 0, in |-> 1, divider |-> 1000]>>
MCMeters == Channels
MCMinHold == [m \in Meters |-> 25]
=============================================================================
