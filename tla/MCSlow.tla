------------------------------- MODULE MCSlow -------------------------------
(* Meters that hold every contact position for longer than the time between two   *)
(* samples of their output: 50 ms behind an EMeter output, 30 ms at a direct input. *)
EXTENDS Pulsecounter

MCOutputs == <<[port |-> 0, type |-> EMeterType]>>
MCCounters == <<[out |-> 0, in |-> 1, divider |-> 1000],
                [out |-> NoPort, in |-> 2, divider |-> 1000]>>
MCMeters == Channels
MCMinHold == [m \in Meters |-> Period(m[1]) + 1]
=============================================================================
