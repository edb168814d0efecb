---------------------------- MODULE ConfigRegister ----------------------------
(***************************************************************************)
(* What the update of the configuration promises, without tasks, clients   *)
(* or a web server: a register of the configuration that only a newer one  *)
(* replaces, and a scheduler that is only set to what the register held,   *)
(* never to something older than it has.  It may go astray by a            *)
(* configuration that came at the wrong moment, and finds its way back.    *)
(* ConfigUpdate implements it.                                             *)
(***************************************************************************)
EXTENDS Integers

CONSTANTS
    Configs,    \* the configurations, numbered by their posts
    Accepted    \* those the scheduler accepts

VARIABLES
    stored,     \* the configuration in the register
    held,       \* the ones it held so far
    strays,     \* the ones that came at the wrong moment
    applied     \* what the scheduler was last set to

vars == <<stored, held, strays, applied>>

Init ==
    /\ stored = 0
    /\ held = {0}
    /\ strays = {}
    /\ applied = 0

Store(n) ==
    /\ n >= stored
    /\ stored' = n
    /\ held' = held \cup {n}
    /\ UNCHANGED <<strays, applied>>

Stray(n) ==
    /\ strays' = strays \cup {n}
    /\ UNCHANGED <<stored, held, applied>>

Apply(n) ==
    /\ n \in held \cup strays
    /\ n >= applied \/ applied \in strays
    /\ applied' = n
    /\ UNCHANGED <<stored, held, strays>>

Next ==
    \/ \E n \in Configs : Store(n) \/ Stray(n)
    \/ \E n \in Accepted : Apply(n)

Spec == Init /\ [][Next]_vars
=============================================================================
