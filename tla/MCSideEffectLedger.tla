------------------------- MODULE MCSideEffectLedger -------------------------
(* Instances of SideEffectLedger for TLC.                                   *)
EXTENDS SideEffectLedger, TLC

CONSTANTS a1, a2, p1, p2, r1, r2, i1, i2

(* One process for both agents, or one for each.                            *)
SameProcess == [a \in Agents |-> p1]
TwoProcesses == (a1 :> p1) @@ (a2 :> p2)

(* Runs and identities are interchangeable: nothing compares or orders them.*)
Symmetry == Permutations({r1, r2}) \cup Permutations({i1, i2})
=============================================================================
