-------------------------- MODULE MCTopologyGraph --------------------------
(* Every graph of five resources that refer to nothing, to the machine, to *)
(* the subnet, to the group, or to two others as a machine does; any one   *)
(* document may be replaced during the query.                              *)
EXTENDS TopologyGraph, TLC

CONSTANTS vm, nic, disk, subnet, group

MCNode == {vm, nic, disk, subnet, group}
MCLinks == {{}, {vm}, {subnet}, {group}, {nic, disk}}

Symmetry == Permutations({nic, disk})

=============================================================================
