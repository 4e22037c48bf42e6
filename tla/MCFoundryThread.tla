--------------------------- MODULE MCFoundryThread ---------------------------
(* Two verification results, an approval and a chat on one thread.         *)
EXTENDS FoundryThread, TLC

CONSTANTS v1, v2

MCInjections == {v1, v2}

Symmetry == Permutations(MCInjections)

=============================================================================
