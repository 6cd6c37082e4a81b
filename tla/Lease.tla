------------------------------- MODULE Lease -------------------------------
(***************************************************************************)
(* What the lifecycle promises about a challenge, whatever fails: it is    *)
(* stopped, or it has a lease of host ports that nobody else has, until a  *)
(* date that is near.  Ports and dates come with the lease and not after   *)
(* it, ports stay as they are, and a date can move but not go away.        *)
(***************************************************************************)
EXTENDS Integers

CONSTANTS
    Challenges,
    Internal,   \* the ports a challenge publishes
    HostPorts,  \* the ports there are to lease
    NoPorts,    \* the ports of a challenge without a lease
    Never,      \* no date
    Reach,      \* how far away the end of a lease may be
    Given       \* challenges that have ports and no date at the beginning

VARIABLES running, ports, until, now

vars == <<running, ports, until, now>>

Bindings == [Internal -> HostPorts]

\* No port of m is leased to another challenge.
Unleased(m, c) ==
    \A d \in running \ {c} : \A i, j \in Internal : m[i] # ports[d][j]

\* A date that may be given to c now, the others keeping theirs.
Date(c) ==
    /\ until'[c] \in 0 .. now + Reach
    /\ until' = [until EXCEPT ![c] = until'[c]]

Init ==
    /\ running = Given /\ now = 0
    /\ until = [c \in Challenges |-> Never]
    /\ \A c \in Challenges : IF c \in Given THEN ports[c] \in Bindings ELSE ports[c] = NoPorts
    /\ \A c \in Given : Unleased(ports[c], c)

Grant(c) ==
    /\ c \notin running
    /\ running' = running \cup {c}
    /\ ports'[c] \in Bindings /\ Unleased(ports'[c], c)
    /\ ports' = [ports EXCEPT ![c] = ports'[c]]
    /\ Date(c)
    /\ UNCHANGED now

\* A date is set, or another one is.
Renew(c) ==
    /\ c \in running
    /\ UNCHANGED <<running, now>>
    /\ Date(c)
    /\ UNCHANGED ports

End(c) ==
    /\ c \in running
    /\ running' = running \ {c}
    /\ ports' = [ports EXCEPT ![c] = NoPorts]
    /\ until' = [until EXCEPT ![c] = Never]
    /\ UNCHANGED now

\* The folders of some challenges are gone: ports are given back before the end.
Strip ==
    /\ UNCHANGED <<running, until, now>>
    /\ \E C \in SUBSET running :
           ports' = [c \in Challenges |-> IF c \in C THEN NoPorts ELSE ports[c]]

Tick == now' = now + 1 /\ UNCHANGED <<running, ports, until>>

Next ==
    \/ \E c \in Challenges : Grant(c) \/ Renew(c) \/ End(c)
    \/ Strip
    \/ Tick

Spec == Init /\ [][Next]_vars
=============================================================================
