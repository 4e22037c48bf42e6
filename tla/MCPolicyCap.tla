----------------------------- MODULE MCPolicyCap -----------------------------
(* Three proposals and two policies, with caps of one and two a day.        *)
EXTENDS PolicyCap, TLC

CONSTANTS r1, r2, r3, once, twice

MCProposals == {r1, r2, r3}
MCPolicies == {once, twice}
MCMaxDaily == [p \in MCPolicies |-> IF p = once THEN 1 ELSE 2]

Symmetry == Permutations(MCProposals)

=============================================================================
