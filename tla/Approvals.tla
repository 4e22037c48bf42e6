------------------------------ MODULE Approvals ------------------------------
(***************************************************************************)
(* The human-in-the-loop gate of the API gateway: the `approvals` Cosmos   *)
(* container, the handlers that decide a remediation proposal              *)
(* (services/api-gateway/approvals.py) and the endpoint that executes an   *)
(* approved one (execute_approval in services/api-gateway/main.py).        *)
(*                                                                         *)
(* The gateway runs as several replicas of two uvicorn workers each, so a  *)
(* request is an activity of its own: between any two calls it makes to    *)
(* the container another request may run.  Every Cosmos call is one step.  *)
(* What execute_remediation does between the guard of execute_approval and *)
(* its final patch is the business of module Remediation.                  *)
(***************************************************************************)
EXTENDS Naturals

CONSTANTS
    Proposals,  \* calls of create_approval: one proposal each
    Requests,   \* HTTP requests: decisions, executions, auto-approvals
    Prod,       \* the proposals that target a production subscription
    None        \* "no request", "no proposal"

ASSUME ProdAssumption == Prod \subseteq Proposals
ASSUME NoneAssumption == None \notin Requests \cup Proposals

VARIABLES
    approval,   \* the approvals container: one document per proposal
    late,       \* the proposals whose expires_at has passed
    request,    \* what every request asks for and what it read
    stage,      \* where its handler is
    reply,      \* what it was answered
    posted,     \* requests that posted approval_response on the thread
    resumed     \* requests that also created the run that resumes it

avars == <<approval, late, request, stage, reply, posted, resumed>>

(* "absent": create_approval has not run.  "auto": it took the policy       *)
(* branch, which stores no document.                                        *)
Status == {"absent", "auto", "pending", "approved", "rejected", "expired",
           "executed"}

Decision == {"approved", "rejected"}

Kind == Decision \cup {"execute", "policy"}

Stage == {"idle", "read", "expiring", "deciding", "resuming", "running",
          "executing", "done", "dead"}

Reply == {"none", "ok", "not_found", "refused", "scope", "expired", "error"}

ApprovalTypeOK ==
    /\ approval \in [Proposals -> [status : Status, etag : Nat,
                                   decided_by : Requests \cup {None}]]
    /\ late \subseteq Proposals
    /\ request \in [Requests -> [kind      : Kind \cup {"none"},
                                 on        : Proposals \cup {None},
                                 confirmed : BOOLEAN,
                                 seen      : Status,
                                 etag      : Nat]]
    /\ stage \in [Requests -> Stage]
    /\ reply \in [Requests -> Reply]
    /\ posted \subseteq Requests
    /\ resumed \subseteq posted

ApprovalInit ==
    /\ approval = [p \in Proposals |->
                     [status |-> "absent", etag |-> 0, decided_by |-> None]]
    /\ late = {}
    /\ request = [r \in Requests |->
                    [kind |-> "none", on |-> None, confirmed |-> FALSE,
                     seen |-> "absent", etag |-> 0]]
    /\ stage = [r \in Requests |-> "idle"]
    /\ reply = [r \in Requests |-> "none"]
    /\ posted = {}
    /\ resumed = {}

-----------------------------------------------------------------------------
(* Helpers on the container and on the activation records.                 *)

(* A document exists in the container.                                      *)
Stored(p) == approval[p].status \notin {"absent", "auto"}

(* Mutant: replace_item without its etag.                                   *)
EtagIgnored(r) == request[r].etag \in Nat

(* replace_item(etag=..., match_condition=...) goes through.                *)
EtagMatches(r) == approval[request[r].on].etag = request[r].etag

(* The document after a write; Cosmos gives it a new etag.                  *)
Written(p, st, by) ==
    [status |-> st, etag |-> approval[p].etag + 1, decided_by |-> by]

Goto(r, st) ==
    /\ stage' = [stage EXCEPT ![r] = st]
    /\ UNCHANGED <<request, reply>>

Answer(r, rep) ==
    /\ stage' = [stage EXCEPT ![r] = "done"]
    /\ reply' = [reply EXCEPT ![r] = rep]
    /\ UNCHANGED request

(* A request arrives; its first Cosmos call reads the document, or finds    *)
(* none and the request is answered 404.                                    *)
Arrive(r, k, p, conf) ==
    /\ stage[r] = "idle"
    /\ request' = [request EXCEPT ![r] =
                     [kind |-> k, on |-> p, confirmed |-> conf,
                      seen |-> approval[p].status, etag |-> approval[p].etag]]
    /\ IF Stored(p)
       THEN /\ stage' = [stage EXCEPT ![r] = "read"]
            /\ UNCHANGED reply
       ELSE /\ stage' = [stage EXCEPT ![r] = "done"]
            /\ reply' = [reply EXCEPT ![r] = "not_found"]

-----------------------------------------------------------------------------
(* create_approval.                                                         *)

(* The policy branch did not apply, or failed: store a pending document.    *)
CreateApproval(p) ==
    /\ approval[p].status = "absent"
    /\ approval' = [approval EXCEPT ![p] = Written(p, "pending", None)]
    /\ UNCHANGED <<late, request, stage, reply, posted, resumed>>

(* A remediation policy matched: execution starts in the same call, under   *)
(* a synthesised approval that is never stored.                             *)
AutoApprove(r, p) ==
    /\ stage[r] = "idle"
    /\ approval[p].status = "absent"
    /\ approval' = [approval EXCEPT ![p] =
                      [status |-> "auto", etag |-> approval[p].etag,
                       decided_by |-> None]]
    /\ request' = [request EXCEPT ![r] =
                     [kind |-> "policy", on |-> p, confirmed |-> FALSE,
                      seen |-> "absent", etag |-> 0]]
    /\ stage' = [stage EXCEPT ![r] = "executing"]
    /\ UNCHANGED <<late, reply, posted, resumed>>

(* The clock passes expires_at.                                             *)
Expire(p) ==
    /\ Stored(p)
    /\ p \notin late
    /\ late' = late \cup {p}
    /\ UNCHANGED <<approval, request, stage, reply, posted, resumed>>

-----------------------------------------------------------------------------
(* process_approval_decision, behind approve_proposal and reject_proposal.  *)

(* reject_proposal does not hand scope_confirmed on, so a rejection is      *)
(* always unconfirmed.                                                      *)
ReadForDecision(r, k, p, conf) ==
    /\ conf => k = "approved"
    /\ Arrive(r, k, p, conf)
    /\ UNCHANGED <<approval, late, posted, resumed>>

(* Mutant: no status check.                                                 *)
JudgeAnyStatus(r) ==
    LET p == request[r].on IN
    /\ stage[r] = "read"
    /\ request[r].kind \in Decision
    /\ Goto(r, IF p \in late THEN "expiring" ELSE "deciding")
    /\ UNCHANGED <<approval, late, posted, resumed>>

(* The checks between the read and the write, in the order of the code:     *)
(* expiry, then status, then production scope.                              *)
Judge(r) ==
    LET p == request[r].on IN
    /\ stage[r] = "read"
    /\ request[r].kind \in Decision
    /\ \/ /\ p \in late
          /\ Goto(r, "expiring")
       \/ /\ p \notin late
          /\ request[r].seen # "pending"
          /\ Answer(r, "refused")
       \/ /\ p \notin late
          /\ request[r].seen = "pending"
          /\ p \in Prod /\ ~request[r].confirmed
          /\ Answer(r, "scope")
       \/ /\ p \notin late
          /\ request[r].seen = "pending"
          /\ p \in Prod => request[r].confirmed
          /\ Goto(r, "deciding")
    /\ UNCHANGED <<approval, late, posted, resumed>>

(* The expired document is stored, decided_by untouched, and the caller is  *)
(* told 410.                                                                *)
WriteExpired(r) ==
    LET p == request[r].on IN
    /\ stage[r] = "expiring"
    /\ EtagMatches(r)
    /\ approval' = [approval EXCEPT ![p] =
                      Written(p, "expired", approval[p].decided_by)]
    /\ Answer(r, "expired")
    /\ UNCHANGED <<late, posted, resumed>>

(* Mutant: the thread is resumed whatever the decision.                     *)
WriteDecisionResume(r) ==
    LET p == request[r].on IN
    /\ stage[r] = "deciding"
    /\ EtagMatches(r)
    /\ approval' = [approval EXCEPT ![p] = Written(p, request[r].kind, r)]
    /\ Goto(r, "resuming")
    /\ UNCHANGED <<late, posted, resumed>>

(* The decision is stored.  An approval goes on to resume the thread.       *)
WriteDecision(r) ==
    LET p == request[r].on IN
    /\ stage[r] = "deciding"
    /\ EtagMatches(r)
    /\ approval' = [approval EXCEPT ![p] = Written(p, request[r].kind, r)]
    /\ IF request[r].kind = "approved" THEN Goto(r, "resuming")
                                       ELSE Answer(r, "ok")
    /\ UNCHANGED <<late, posted, resumed>>

(* The write is applied but its response is lost: the handler raises.       *)
WriteDecisionUnheard(r) ==
    LET p == request[r].on IN
    /\ stage[r] = "deciding"
    /\ EtagMatches(r)
    /\ approval' = [approval EXCEPT ![p] = Written(p, request[r].kind, r)]
    /\ Answer(r, "error")
    /\ UNCHANGED <<late, posted, resumed>>

(* The etag no longer matches, or Cosmos fails: nothing is stored and the   *)
(* exception leaves the handler as a 500.                                   *)
WriteFails(r) ==
    /\ stage[r] \in {"expiring", "deciding"}
    /\ Answer(r, "error")
    /\ UNCHANGED <<approval, late, posted, resumed>>

(* _resume_foundry_thread: a message on the parked thread ...               *)
PostResponse(r) ==
    /\ stage[r] = "resuming"
    /\ posted' = posted \cup {r}
    /\ Goto(r, "running")
    /\ UNCHANGED <<approval, late, resumed>>

(* ... then a run on it.                                                    *)
CreateRun(r) ==
    /\ stage[r] = "running"
    /\ resumed' = resumed \cup {r}
    /\ Answer(r, "ok")
    /\ UNCHANGED <<approval, late, posted>>

(* Either Foundry call fails; the error is logged and the caller told that  *)
(* the proposal is approved.                                                *)
ResumeFails(r) ==
    /\ stage[r] \in {"resuming", "running"}
    /\ Answer(r, "ok")
    /\ UNCHANGED <<approval, late, posted, resumed>>

-----------------------------------------------------------------------------
(* execute_approval, and the policy branch of create_approval.              *)

ReadForExecution(r, p) ==
    /\ Arrive(r, "execute", p, FALSE)
    /\ UNCHANGED <<approval, late, posted, resumed>>

(* Mutant: only expiry is checked before an execution.                      *)
GuardExecutionLax(r) ==
    /\ stage[r] = "read"
    /\ request[r].kind = "execute"
    /\ IF request[r].on \in late THEN Answer(r, "expired")
                                 ELSE Goto(r, "executing")
    /\ UNCHANGED <<approval, late, posted, resumed>>

(* The status guards: 410 when expired, 409 unless approved.                *)
GuardExecution(r) ==
    /\ stage[r] = "read"
    /\ request[r].kind = "execute"
    /\ IF request[r].on \in late THEN Answer(r, "expired")
       ELSE IF request[r].seen # "approved" THEN Answer(r, "refused")
       ELSE Goto(r, "executing")
    /\ UNCHANGED <<approval, late, posted, resumed>>

(* Mutant: the status of the WAL record is patched into the document.       *)
ReportExecutionWal(r) ==
    LET p == request[r].on IN
    /\ stage[r] = "executing"
    /\ Answer(r, "ok")
    /\ approval' = [approval EXCEPT ![p] =
                      Written(p, "complete", approval[p].decided_by)]
    /\ UNCHANGED <<late, posted, resumed>>

(* execute_remediation returned: the document is patched to "executed",     *)
(* with no etag and whatever the result says.  No document belongs to a     *)
(* policy execution, which just returns.                                    *)
ReportExecution(r) ==
    LET p == request[r].on IN
    /\ stage[r] = "executing"
    /\ Answer(r, "ok")
    /\ IF request[r].kind = "execute"
       THEN approval' = [approval EXCEPT ![p] =
                           Written(p, "executed", approval[p].decided_by)]
       ELSE UNCHANGED approval
    /\ UNCHANGED <<late, posted, resumed>>

(* The patch is best-effort: when it fails the caller is answered all the   *)
(* same and the document stays as it is.                                    *)
ReportExecutionFails(r) ==
    /\ stage[r] = "executing"
    /\ request[r].kind = "execute"
    /\ Answer(r, "ok")
    /\ UNCHANGED <<approval, late, posted, resumed>>

(* execute_remediation raised: a 500 from the endpoint; create_approval     *)
(* falls through to a pending document.                                     *)
ExecutionRaises(r) ==
    LET p == request[r].on IN
    /\ stage[r] = "executing"
    /\ IF request[r].kind = "policy"
       THEN /\ approval' = [approval EXCEPT ![p] = Written(p, "pending", None)]
            /\ Answer(r, "ok")
       ELSE /\ Answer(r, "error")
            /\ UNCHANGED approval
    /\ UNCHANGED <<late, posted, resumed>>

(* The worker that serves the request dies.                                 *)
Crash(r) ==
    /\ stage[r] \notin {"idle", "done", "dead"}
    /\ Goto(r, "dead")
    /\ UNCHANGED <<approval, late, posted, resumed>>

-----------------------------------------------------------------------------
(* The steps that do not belong to an execution in progress ...             *)
DecisionStep ==
    \/ \E p \in Proposals : CreateApproval(p) \/ Expire(p)
    \/ \E r \in Requests, p \in Proposals :
          \/ \E k \in Decision, conf \in BOOLEAN : ReadForDecision(r, k, p, conf)
          \/ ReadForExecution(r, p)
    \/ \E r \in Requests :
          \/ Judge(r)
          \/ WriteExpired(r)
          \/ WriteDecision(r)
          \/ WriteDecisionUnheard(r)
          \/ WriteFails(r)
          \/ PostResponse(r)
          \/ CreateRun(r)
          \/ ResumeFails(r)

(* ... and those that start, end or interrupt one.                          *)
ExecutionStep ==
    \/ \E r \in Requests, p \in Proposals : AutoApprove(r, p)
    \/ \E r \in Requests :
          \/ GuardExecution(r)
          \/ ReportExecution(r)
          \/ ReportExecutionFails(r)
          \/ ExecutionRaises(r)
          \/ Crash(r)

ApprovalNext == DecisionStep \/ ExecutionStep

ApprovalSpec == ApprovalInit /\ [][ApprovalNext]_avars

-----------------------------------------------------------------------------
(* Correctness.                                                             *)

(* Nobody is told that the decision went through and then finds another     *)
(* one on record: a decision answered 200 by process_approval_decision is   *)
(* the decision the document carries from then on, whatever other           *)
(* operators, expiry and executions do to it.  In particular two decisions  *)
(* of one proposal are never both accepted.                                 *)
AcceptedDecisionStands ==
    \A r \in Requests :
        request[r].kind \in Decision /\ reply[r] = "ok"
            => approval[request[r].on].decided_by = r

(* What execute_approval and the policy branch are allowed to run: the      *)
(* proposal's recorded decision is an approval, and stays one while the     *)
(* execution is in progress, even if the document has since been marked     *)
(* expired or executed; or a policy approved it.                            *)
ExecutingIsAuthorised ==
    \A r \in Requests : stage[r] = "executing" =>
        LET by == approval[request[r].on].decided_by IN
        IF request[r].kind = "policy" THEN approval[request[r].on].status = "auto"
        ELSE by # None /\ request[by].kind = "approved"

(* _resume_foundry_thread speaks for the decision on record: the thread of  *)
(* a proposal gets an approval_response only from the request whose         *)
(* approval was stored, so never for a rejection and never twice.           *)
ResumeSpeaksForDecision ==
    \A r \in posted : /\ request[r].kind = "approved"
                      /\ approval[request[r].on].decided_by = r

(* A document never changes from one decision to the other.                 *)
DecisionNeverReversed ==
    [][\A p \in Proposals : approval[p].decided_by # None
          => approval'[p].decided_by = approval[p].decided_by]_avars

-----------------------------------------------------------------------------
(* What the repository says of this code and the code does not do.          *)

(* "Only "pending" records can be decided" (process_approval_decision).     *)
(* The expiry branch comes before the status check.                         *)
OnlyPendingIsDecided ==
    [][\A p \in Proposals :
          approval'[p].status \in Decision \cup {"expired"}
             => approval[p].status \in {"pending", approval'[p].status}]_avars
=============================================================================
