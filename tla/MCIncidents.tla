---------------------------- MODULE MCIncidents ----------------------------
(* Two alerts of different rules on one machine.                           *)
EXTENDS Incidents, TLC

CONSTANTS r1, r2, r3, m1, cpu, disk, vm

MCRequests == {r1, r2, r3}
MCMoves == {m1}
MCAlerts == {cpu, disk}
MCRuleOf == (cpu :> "cpu") @@ (disk :> "disk")
MCResourceOf == [a \in MCAlerts |-> vm]

Symmetry == Permutations(MCRequests)

=============================================================================
