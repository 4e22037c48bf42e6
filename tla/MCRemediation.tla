---------------------------- MODULE MCRemediation ----------------------------
(* Instances of Remediation for TLC.                                        *)
EXTENDS Remediation, TLC

RequestSymmetry == Permutations(Requests)

(* A bound: after an alert the executions find nothing that they do not     *)
(* find after NewIncident; only the runs about alerts go on.                *)
NoAlertYet == alerts = {}

(* One virtual machine; the action of its proposals.                        *)
OneResource == [p \in Proposals |-> "vm"]
Deallocation == [p \in Proposals |-> "deallocate_vm"]
Restart == [p \in Proposals |-> "restart_vm"]

(* One request has approved its proposal and is done; the others are free   *)
(* to execute it, both of them.                                             *)
CONSTANTS Approver, Approved

OnceApproved ==
    /\ RemediationInit
    /\ approval = [p \in Proposals |->
                     IF p = Approved
                     THEN [status |-> "approved", etag |-> 2,
                           decided_by |-> Approver]
                     ELSE [status |-> "absent", etag |-> 0,
                           decided_by |-> None]]
    /\ late = {}
    /\ request = [r \in Requests |->
                    IF r = Approver
                    THEN [kind |-> "approved", on |-> Approved,
                          confirmed |-> TRUE, seen |-> "pending", etag |-> 1]
                    ELSE [kind |-> "none", on |-> None, confirmed |-> FALSE,
                          seen |-> "absent", etag |-> 0]]
    /\ stage = [r \in Requests |-> IF r = Approver THEN "done" ELSE "idle"]
    /\ reply = [r \in Requests |-> IF r = Approver THEN "ok" ELSE "none"]
    /\ posted = {Approver}
    /\ resumed = {Approver}

ApprovedSpec == OnceApproved /\ [][Next]_vars

FairApprovedSpec == ApprovedSpec /\ Fairness

=============================================================================
