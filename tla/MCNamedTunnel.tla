--------------------------- MODULE MCNamedTunnel ---------------------------
(***************************************************************************)
(* Instances of NamedTunnel for TLC.                                       *)
(***************************************************************************)
EXTENDS NamedTunnel, TLC

Symmetry == Permutations(Pids) \cup Permutations(Ports) \cup Permutations(Hosts)
SafetySpec == Init /\ [][Next]_vars
=============================================================================
