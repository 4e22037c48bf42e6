------------------------------ MODULE MCWarRoom ------------------------------
(* Three requests of two operators in two workers, one event stream.       *)
EXTENDS WarRoom, TLC

CONSTANTS c1, c2, c3, ann, bob, w1, w2, tab

MCCalls == {c1, c2, c3}
MCOperators == {ann, bob}
MCWorkers == {w1, w2}
MCClients == {tab}

Symmetry == Permutations(MCCalls) \cup Permutations(MCOperators)
                \cup Permutations(MCWorkers)

=============================================================================
