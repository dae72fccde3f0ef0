---------------------------- MODULE MCRedelegation ----------------------------
(* Instances of RedelegationScanner for TLC: every event has the one source    *)
(* and moves one unit, so the redelegations are interchangeable.               *)
EXTENDS RedelegationScanner, TLC

CONSTANTS a, e1, e2, f1

OneSource == [e \in Events |-> a]
OneUnit == [e \in Events |-> 1]
Interchangeable == Permutations(Redelegations)
=============================================================================
