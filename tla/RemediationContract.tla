------------------------- MODULE RemediationContract -------------------------
(***************************************************************************)
(* What the gate and the executor promise together, with no word of        *)
(* documents, etags, records or tasks.  A proposal gets at most one        *)
(* decision and keeps it; an execution acts on a resource only under a     *)
(* decision in favour; what it did is judged at most once, and undone only *)
(* when it was judged to have made things worse and can be undone.         *)
(***************************************************************************)
CONSTANTS
    Proposals,
    Executions,
    None,
    Undoable    \* the proposals whose action has an inverse

VARIABLES
    decision,   \* of every proposal
    acted,      \* the proposal an execution acted on
    judged,     \* the verdict on an execution
    undone      \* executions for which the inverse was issued

cvars == <<decision, acted, judged, undone>>

InFavour == {"approved", "policy"}

Verdict == {"RESOLVED", "IMPROVED", "DEGRADED", "TIMEOUT"}

ContractInit ==
    /\ decision = [p \in Proposals |-> "none"]
    /\ acted = [e \in Executions |-> None]
    /\ judged = [e \in Executions |-> "none"]
    /\ undone = {}

Decide(p, d) ==
    /\ decision[p] = "none"
    /\ decision' = [decision EXCEPT ![p] = d]
    /\ UNCHANGED <<acted, judged, undone>>

(* Only a decision taken by a policy is ever taken back, and only before    *)
(* anybody acted on it.                                                     *)
Withdraw(p) ==
    /\ decision[p] = "policy"
    /\ \A e \in Executions : acted[e] # p
    /\ decision' = [decision EXCEPT ![p] = "none"]
    /\ UNCHANGED <<acted, judged, undone>>

Act(e, p) ==
    /\ acted[e] = None
    /\ decision[p] \in InFavour
    /\ acted' = [acted EXCEPT ![e] = p]
    /\ UNCHANGED <<decision, judged, undone>>

Assess(e, v) ==
    /\ judged[e] = "none"
    /\ judged' = [judged EXCEPT ![e] = v]
    /\ UNCHANGED <<decision, acted, undone>>

Undo(e, p) ==
    /\ judged[e] = "DEGRADED"
    /\ e \notin undone
    /\ p \in Undoable
    /\ decision[p] \in InFavour
    /\ acted[e] \in {p, None}
    /\ undone' = undone \cup {e}
    /\ UNCHANGED <<decision, acted, judged>>

ContractNext ==
    \/ \E p \in Proposals :
          \/ \E d \in {"approved", "rejected", "policy"} : Decide(p, d)
          \/ Withdraw(p)
    \/ \E e \in Executions :
          \/ \E p \in Proposals : Act(e, p) \/ Undo(e, p)
          \/ \E v \in Verdict : Assess(e, v)

Contract == ContractInit /\ [][ContractNext]_cvars
=============================================================================
