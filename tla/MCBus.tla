-------------------------------- MODULE MCBus --------------------------------
(* A water meter, sampled every other iteration like the EMeter, and the EMeter on *)
(* one line, a direct meter, on a bus that fails.                                   *)
EXTENDS FaultyBus

MCOutputs == <<[port |-> 0, type |-> WaterMeterType], [port |-> 1, type |-> EMeterType]>>
MCCounters == <<[out |-> 0, in |-> 1, divider |-> 72000],
                [out |-> 1, in |-> 1, divider |-> 400],
                [out |-> NoPort, in |-> 2, divider |-> 1000]>>
MCMeters == Channels
MCMinHold == [m \in Meters |-> 0]
=============================================================================
