----------------------------- MODULE MCExports -----------------------------
(***************************************************************************)
(* Instances of Exports for TLC.  Process ids, challenges and ports are    *)
(* only compared, never ordered, so permuting them is sound for the safety *)
(* runs; the liveness run takes Spec and no symmetry.                      *)
(***************************************************************************)
EXTENDS Exports, TLC

Symmetry == Permutations(Pids) \cup Permutations(Challenges) \cup Permutations(HostPorts)
SafetySpec == Init /\ [][Next]_vars
=============================================================================
