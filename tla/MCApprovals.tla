----------------------------- MODULE MCApprovals -----------------------------
(* Instances of Approvals for TLC: requests are interchangeable, proposals  *)
(* are not (one of them targets a production subscription).                 *)
EXTENDS Approvals, TLC

RequestSymmetry == Permutations(Requests)
=============================================================================
