---------------------------- MODULE MCLifecycle ----------------------------
(* Two challenges and two or three host ports; a tick is what the times    *)
(* below are counted in.                                                    *)
EXTENDS Lifecycle, TLC

CONSTANTS a, b, viewer

Both == {a, b}
One  == {a}
OneViewer == {viewer}
Nobody == {}
Symmetric == Permutations(Both)
=============================================================================
