--------------------------- MODULE MCTopologySync ---------------------------
(* Two workers and two resources, a query window of four units for an      *)
(* interval of two.                                                        *)
EXTENDS TopologySync, TLC

CONSTANTS w1, w2, vm, nic

MCWorker == {w1, w2}
MCResource == {vm, nic}

Symmetry == Permutations(MCWorker) \cup Permutations(MCResource)

=============================================================================
