------------------------------ MODULE PulseCount ------------------------------
(***************************************************************************)
(* What the pulse counter promises, without a bus, a scan or masks: a      *)
(* meter gives pulses, the device records them, a batch publishes what was *)
(* recorded.  Nothing is recorded that no meter gave, but for the repeats  *)
(* a sampling period allows, and nothing is published that was not         *)
(* recorded.  Pulsecounter implements it.                                  *)
(***************************************************************************)
EXTENDS Integers

CONSTANTS
    Slots,      \* the counters
    Meters,     \* the meters
    Source,     \* the meter of a counter
    Repeats     \* how often one pulse may be recorded: iterations from sample to sample

VARIABLES
    given,      \* pulses each meter gave
    recorded,   \* pulses recorded for each counter
    published   \* pulses published for each counter

vars == <<given, recorded, published>>

Init ==
    /\ given = [m \in Meters |-> 0]
    /\ recorded = [s \in Slots |-> 0]
    /\ published = [s \in Slots |-> 0]

Give(m) ==
    /\ given' = [given EXCEPT ![m] = @ + 1]
    /\ UNCHANGED <<recorded, published>>

\* One iteration records at most one pulse for a counter, and only one that was given.
Record(S) ==
    /\ \A s \in S : recorded[s] < Repeats[s] * given[Source[s]]
    /\ recorded' = [s \in Slots |-> IF s \in S THEN recorded[s] + 1 ELSE recorded[s]]
    /\ UNCHANGED <<given, published>>

\* A batch publishes what was recorded of the counter's meter and not published before.
Publish(i) ==
    /\ \E s \in Slots :
          /\ Source[s] = Source[i]
          /\ \E n \in 0 .. recorded[s] - published[i] :
                published' = [published EXCEPT ![i] = @ + n]
    /\ UNCHANGED <<given, recorded>>

Next ==
    \/ \E m \in Meters : Give(m)
    \/ \E S \in SUBSET Slots : Record(S)
    \/ \E i \in Slots : Publish(i)

Spec == Init /\ [][Next]_vars
=============================================================================
