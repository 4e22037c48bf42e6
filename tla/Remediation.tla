----------------------------- MODULE Remediation -----------------------------
(***************************************************************************)
(* Closed-loop execution of approved proposals                             *)
(* (services/api-gateway/remediation_executor.py), composed with the       *)
(* approval gate that starts it: pre-flight check, write-ahead record, ARM *)
(* call, outcome, a verification task that wakes up later in the same      *)
(* worker, and the rollback it may run.  Beside them the stale-record      *)
(* monitor and the start-up sweep of every worker.                         *)
(*                                                                         *)
(* An execution is named by the request that runs it, so execution_id is   *)
(* a member of Requests; its rollback has a write-ahead record of its own. *)
(***************************************************************************)
EXTENDS Approvals

CONSTANTS
    ActionOf,       \* proposed_action of a proposal
    ResourceOf,     \* its first target resource
    CosmosFaults    \* may the executor's Cosmos calls fail?

(* SAFE_ARM_ACTIONS: the supported actions and the operation that undoes    *)
(* each of them.                                                            *)
RollbackOp == [restart_vm            |-> "none",
               deallocate_vm         |-> "start",
               start_vm              |-> "deallocate",
               resize_vm             |-> "resize_to_original",
               restart_container_app |-> "none"]

SafeActions == DOMAIN RollbackOp

Health == {"Available", "Unavailable", "Degraded", "Unknown"}

ASSUME ActionAssumption   == DOMAIN ActionOf = Proposals
ASSUME ResourceAssumption == DOMAIN ResourceOf = Proposals
ASSUME FaultAssumption    == CosmosFaults \in BOOLEAN

VARIABLES
    phase,      \* where execute_remediation is
    arm,        \* the ARM call of an execution
    wal,        \* status of its record in remediation_audit
    verdict,    \* verification_result of that record
    rolled_back,\* rolled_back of that record
    check,      \* where its verification task is
    health,     \* what that task read from Resource Health
    rb_wal,     \* status of the rollback's record
    rb_arm,     \* the ARM call of the rollback
    fresh,      \* proposals with an active incident newer than the decision
    alerts      \* records for which a REMEDI_WAL_ALERT incident was created

rvars == <<phase, arm, wal, verdict, rolled_back, check, health, rb_wal,
           rb_arm, fresh, alerts>>

vars == <<avars, rvars>>

Class == {"RESOLVED", "IMPROVED", "DEGRADED", "TIMEOUT"}

(* What is known of an operation that was sent: "overdue" is still running   *)
(* when the time for it is up, of a "lost" one the poller saw no end.        *)
Seen == {"success", "failure", "overdue", "lost"}

Outcome == {"none", "issued"} \cup Seen

WalStatus == {"absent", "pending", "complete", "failed"}

(* "aborted" and "returned" are the two kinds of result.                    *)
Phase == {"preflight", "log", "arm", "wait", "record", "aborted", "returned"}

(* "rollback" to "flag" are the steps of _rollback and of what follows it.  *)
Check == {"none", "sleeping", "rollback", "call", "wait", "record", "flag",
          "report", "done", "dead"}

RemediationTypeOK ==
    /\ phase \in [Requests -> Phase]
    /\ arm \in [Requests -> Outcome]
    /\ wal \in [Requests -> WalStatus]
    /\ verdict \in [Requests -> Class \cup {"undefined", "null"}]
    /\ rolled_back \in [Requests -> BOOLEAN]
    /\ check \in [Requests -> Check]
    /\ health \in [Requests -> Health \cup {"unread"}]
    /\ rb_wal \in [Requests -> WalStatus]
    /\ rb_arm \in [Requests -> Outcome]
    /\ fresh \subseteq Proposals
    /\ alerts \subseteq Requests \X {"execute", "rollback"}

RemediationInit ==
    /\ phase = [r \in Requests |-> "preflight"]
    /\ arm = [r \in Requests |-> "none"]
    /\ wal = [r \in Requests |-> "absent"]
    /\ verdict = [r \in Requests |-> "undefined"]
    /\ rolled_back = [r \in Requests |-> FALSE]
    /\ check = [r \in Requests |-> "none"]
    /\ health = [r \in Requests |-> "unread"]
    /\ rb_wal = [r \in Requests |-> "absent"]
    /\ rb_arm = [r \in Requests |-> "none"]
    /\ fresh = {}
    /\ alerts = {}

-----------------------------------------------------------------------------
(* Helpers.                                                                 *)

Executing(r, ph) == stage[r] = "executing" /\ phase[r] = ph

Enter(r, ph) == phase' = [phase EXCEPT ![r] = ph]

Proceed(r, c) == check' = [check EXCEPT ![r] = c]

Action(r) == ActionOf[request[r].on]

(* decided_at is set: by a decider, or by the policy branch.                *)
Decided(p) == approval[p].decided_by # None \/ approval[p].status = "auto"

(* The decisions that an incident reported now, on the resource of p, is    *)
(* newer than.                                                              *)
Outdated(p) == {q \in Proposals : ResourceOf[q] = ResourceOf[p] /\ Decided(q)}

(* _classify_verification.                                                  *)
Classify(current, before) ==
    CASE current \in {"Unavailable", "Degraded"} -> "DEGRADED"
      [] current = "Available" ->
            IF before \in {"Unavailable", "Degraded"} THEN "RESOLVED"
                                                      ELSE "IMPROVED"
      [] OTHER -> "TIMEOUT"

-----------------------------------------------------------------------------
(* execute_remediation.                                                     *)

BlastLimit == 50

(* The kill switch, the table of supported actions and _run_preflight.      *)
(* Topology and incident scan are non-fatal: without an answer they pass.   *)
PreflightPasses(r, enabled, blast, scanned) ==
    /\ enabled
    /\ Action(r) \in SafeActions
    /\ blast <= BlastLimit
    /\ scanned => request[r].on \notin fresh

Preflight(r) ==
    /\ Executing(r, "preflight")
    /\ \E enabled \in BOOLEAN, blast \in {0, BlastLimit, BlastLimit + 1},
          scanned \in (IF CosmosFaults THEN BOOLEAN ELSE {TRUE}) :
          Enter(r, IF PreflightPasses(r, enabled, blast, scanned)
                   THEN "log" ELSE "aborted")
    /\ UNCHANGED <<avars, arm, wal, verdict, rolled_back, check, health,
                   rb_wal, rb_arm, fresh, alerts>>

(* _write_wal(base_record): the pending record, its verification_result     *)
(* null.  _write_wal never raises; a failing call stores nothing.           *)
WriteAhead(r) ==
    /\ Executing(r, "log")
    /\ Enter(r, "arm")
    /\ \/ /\ wal' = [wal EXCEPT ![r] = "pending"]
          /\ verdict' = [verdict EXCEPT ![r] = "null"]
       \/ /\ CosmosFaults
          /\ UNCHANGED <<wal, verdict>>
    /\ UNCHANGED <<avars, arm, rolled_back, check, health, rb_wal, rb_arm,
                   fresh, alerts>>

(* _execute_arm_action sends the operation, ...                             *)
IssueArm(r) ==
    /\ Executing(r, "arm")
    /\ Enter(r, "wait")
    /\ arm' = [arm EXCEPT ![r] = "issued"]
    /\ UNCHANGED <<avars, wal, verdict, rolled_back, check, health, rb_wal,
                   rb_arm, fresh, alerts>>

(* ... or fails before anything is sent: a missing parameter, an error of   *)
(* the client.                                                              *)
ArmNotSent(r) ==
    /\ Executing(r, "arm")
    /\ Enter(r, "record")
    /\ UNCHANGED <<avars, arm, wal, verdict, rolled_back, check, health,
                   rb_wal, rb_arm, fresh, alerts>>

(* poller.result(timeout) comes back.  It raises for an operation that      *)
(* failed and for one it lost contact with, but not for one still running   *)
(* when the timeout is over.                                                *)
ArmReturns(r) ==
    /\ Executing(r, "wait")
    /\ Enter(r, "record")
    /\ \E result \in Seen : arm' = [arm EXCEPT ![r] = result]
    /\ UNCHANGED <<avars, wal, verdict, rolled_back, check, health, rb_wal,
                   rb_arm, fresh, alerts>>

(* An update of a record that exists; _write_wal leaves a missing one.      *)
Update(log, r, st) == IF log[r] = "absent" THEN log ELSE [log EXCEPT ![r] = st]

(* Mutants: the result of the ARM call goes into the record as it is; a call *)
(* that came back counts as complete.                                       *)
OutcomeVerbatim(outcome) == outcome
OutcomeOptimistic(outcome) == IF outcome = "none" THEN "failed" ELSE "complete"

(* "complete" when poller.result did not raise: of an operation that has    *)
(* succeeded, or is still running.                                          *)
NotRaised == {"success", "overdue"}

OutcomeStatus(outcome) == IF outcome \in NotRaised THEN "complete" ELSE "failed"

(* Mutant: a failed execution is not verified.                              *)
RecordOutcomeQuiet(r) ==
    /\ Executing(r, "record")
    /\ Enter(r, "returned")
    /\ Proceed(r, IF arm[r] \in NotRaised THEN "sleeping" ELSE "none")
    /\ \/ wal' = Update(wal, r, OutcomeStatus(arm[r]))
       \/ CosmosFaults /\ UNCHANGED wal
    /\ UNCHANGED <<avars, arm, verdict, rolled_back, health, rb_wal, rb_arm,
                   fresh, alerts>>

(* The outcome is recorded and the verification task created, without an    *)
(* await in between.                                                        *)
RecordOutcome(r) ==
    /\ Executing(r, "record")
    /\ Enter(r, "returned")
    /\ Proceed(r, "sleeping")
    /\ \/ wal' = Update(wal, r, OutcomeStatus(arm[r]))
       \/ CosmosFaults /\ UNCHANGED wal
    /\ UNCHANGED <<avars, arm, verdict, rolled_back, health, rb_wal, rb_arm,
                   fresh, alerts>>

(* execute_remediation has a result: the gate reports it.                   *)
Report(r) ==
    /\ phase[r] \in {"aborted", "returned"}
    /\ ReportExecution(r) \/ ReportExecutionFails(r)
    /\ UNCHANGED rvars

(* Mutant: an ARM failure is raised instead of returned.                    *)
RaiseLate(r) ==
    /\ phase[r] \in {"preflight", "record"}
    /\ ExecutionRaises(r)
    /\ UNCHANGED rvars

(* It can raise only on a malformed proposal, before anything is written.   *)
(* A policy decision it leaves behind is void.                              *)
Raise(r) ==
    /\ phase[r] = "preflight"
    /\ ExecutionRaises(r)
    /\ fresh' = IF request[r].kind = "policy" THEN fresh \ {request[r].on}
                                              ELSE fresh
    /\ UNCHANGED <<phase, arm, wal, verdict, rolled_back, check, health,
                   rb_wal, rb_arm, alerts>>

-----------------------------------------------------------------------------
(* _delayed_verify, _verify_remediation and _rollback.                      *)

(* _rollback knows the action, and an operation that undoes it.             *)
HasInverse(action) == action \in SafeActions /\ RollbackOp[action] # "none"

Reversible(r) == HasInverse(Action(r))

(* Mutant: the rollback does not look at the classification.                *)
VerifyAlways(r) ==
    /\ check[r] = "sleeping"
    /\ \E h \in Health :
          /\ health' = [health EXCEPT ![r] = h]
          /\ \/ verdict' = IF wal[r] = "absent" THEN verdict
                           ELSE [verdict EXCEPT ![r] = Classify(h, "Unknown")]
             \/ CosmosFaults /\ UNCHANGED verdict
          /\ Proceed(r, IF Reversible(r) THEN "rollback" ELSE "report")
    /\ UNCHANGED <<avars, phase, arm, wal, rolled_back, rb_wal, rb_arm, fresh,
                   alerts>>

(* The task wakes up, reads Resource Health and stores the classification;  *)
(* a failing health call reads as Unknown.  The status before the execution *)
(* is not known to it.                                                      *)
Verify(r) ==
    /\ check[r] = "sleeping"
    /\ \E h \in Health :
          /\ health' = [health EXCEPT ![r] = h]
          /\ \/ verdict' = IF wal[r] = "absent" THEN verdict
                           ELSE [verdict EXCEPT ![r] = Classify(h, "Unknown")]
             \/ CosmosFaults /\ UNCHANGED verdict
          /\ Proceed(r, IF /\ Classify(h, "Unknown") = "DEGRADED"
                           /\ Reversible(r)
                        THEN "rollback" ELSE "report")
    /\ UNCHANGED <<avars, phase, arm, wal, rolled_back, rb_wal, rb_arm, fresh,
                   alerts>>

(* Mutant: the rollback keeps no record of its own.                         *)
RollbackUnlogged(r) ==
    /\ check[r] = "rollback"
    /\ Proceed(r, "call")
    /\ UNCHANGED <<avars, phase, arm, wal, verdict, rolled_back, health, rb_wal,
                   rb_arm, fresh, alerts>>

(* _rollback writes a pending record of its own under a new execution id.   *)
RollbackAhead(r) ==
    /\ check[r] = "rollback"
    /\ Proceed(r, "call")
    /\ \/ rb_wal' = [rb_wal EXCEPT ![r] = "pending"]
       \/ CosmosFaults /\ UNCHANGED rb_wal
    /\ UNCHANGED <<avars, phase, arm, wal, verdict, rolled_back, health,
                   rb_arm, fresh, alerts>>

IssueRollback(r) ==
    /\ check[r] = "call"
    /\ RollbackOp[Action(r)] # "resize_to_original"
    /\ Proceed(r, "wait")
    /\ rb_arm' = [rb_arm EXCEPT ![r] = "issued"]
    /\ UNCHANGED <<avars, phase, arm, wal, verdict, rolled_back, health,
                   rb_wal, fresh, alerts>>

(* Nothing is sent: an error of the client, and always for                  *)
(* resize_to_original, whose original_vm_size _rollback does not hand on.   *)
RollbackNotSent(r) ==
    /\ check[r] = "call"
    /\ Proceed(r, "record")
    /\ UNCHANGED <<avars, phase, arm, wal, verdict, rolled_back, health,
                   rb_wal, rb_arm, fresh, alerts>>

RollbackReturns(r) ==
    /\ check[r] = "wait"
    /\ Proceed(r, "record")
    /\ \E result \in Seen : rb_arm' = [rb_arm EXCEPT ![r] = result]
    /\ UNCHANGED <<avars, phase, arm, wal, verdict, rolled_back, health,
                   rb_wal, fresh, alerts>>

RecordRollback(r) ==
    /\ check[r] = "record"
    /\ Proceed(r, "flag")
    /\ \/ rb_wal' = Update(rb_wal, r, OutcomeStatus(rb_arm[r]))
       \/ CosmosFaults /\ UNCHANGED rb_wal
    /\ UNCHANGED <<avars, phase, arm, wal, verdict, rolled_back, health,
                   rb_arm, fresh, alerts>>

(* _rollback returned an id, whatever became of the rollback.               *)
FlagRolledBack(r) ==
    /\ check[r] = "flag"
    /\ Proceed(r, "report")
    /\ \/ rolled_back' = IF wal[r] = "absent" THEN rolled_back
                         ELSE [rolled_back EXCEPT ![r] = TRUE]
       \/ CosmosFaults /\ UNCHANGED rolled_back
    /\ UNCHANGED <<avars, phase, arm, wal, verdict, health, rb_wal, rb_arm,
                   fresh, alerts>>

(* _inject_verification_result never raises and ends the task; what it does *)
(* to the thread is the business of FoundryThread.                         *)
ReportVerdict(r) ==
    /\ check[r] = "report"
    /\ Proceed(r, "done")
    /\ UNCHANGED <<avars, phase, arm, wal, verdict, rolled_back, health,
                   rb_wal, rb_arm, fresh, alerts>>

-----------------------------------------------------------------------------
(* The worker, its background loops and the incidents container.            *)

(* The worker dies under a request, and with it the task it created.        *)
CrashRequest(r) ==
    /\ Crash(r)
    /\ check' = IF check[r] = "none" THEN check ELSE [check EXCEPT ![r] = "dead"]
    /\ UNCHANGED <<phase, arm, wal, verdict, rolled_back, health, rb_wal,
                   rb_arm, fresh, alerts>>

(* The worker dies after the answer, the task still asleep or at work.      *)
CrashTask(r) ==
    /\ stage[r] = "done"
    /\ check[r] \notin {"none", "done", "dead"}
    /\ Proceed(r, "dead")
    /\ UNCHANGED <<avars, phase, arm, wal, verdict, rolled_back, health,
                   rb_wal, rb_arm, fresh, alerts>>

(* Mutant: the monitor's query asks for records of executions only.         *)
StaleExecution(r, k) == k = "execute" /\ wal[r] = "pending"

(* A record the monitor's query returns: pending, and old enough whenever   *)
(* the clock has it so.                                                     *)
Stale(r, k) == (IF k = "execute" THEN wal ELSE rb_wal)[r] = "pending"

(* run_wal_stale_monitor finds a stale record: a new Sev1 incident on its   *)
(* resource.                                                                *)
EmitAlert(r, k) ==
    /\ Stale(r, k)
    /\ alerts' = alerts \cup {<<r, k>>}
    /\ fresh' = fresh \cup Outdated(request[r].on)
    /\ UNCHANGED <<avars, phase, arm, wal, verdict, rolled_back, check, health,
                   rb_wal, rb_arm>>

(* Any other incident is reported on the resource of p, ...                 *)
NewIncident(p) ==
    /\ fresh' = fresh \cup Outdated(p)
    /\ UNCHANGED <<avars, phase, arm, wal, verdict, rolled_back, check, health,
                   rb_wal, rb_arm, alerts>>

(* ... or those on it are closed.                                           *)
IncidentsClosed(p) ==
    /\ fresh' = fresh \ {q \in Proposals : ResourceOf[q] = ResourceOf[p]}
    /\ UNCHANGED <<avars, phase, arm, wal, verdict, rolled_back, check, health,
                   rb_wal, rb_arm, alerts>>

(* The query of run_missed_verification_sweep: NOT IS_DEFINED is not true   *)
(* of a field that is there and null.                                       *)
Missed == {r \in Requests : wal[r] = "complete" /\ verdict[r] = "undefined"}

(* A worker starts and verifies anew what it takes for missed.              *)
Sweep ==
    /\ \E found \in SUBSET Missed :
          check' = [r \in Requests |-> IF r \in found THEN "sleeping"
                                                      ELSE check[r]]
    /\ UNCHANGED <<avars, phase, arm, wal, verdict, rolled_back, health,
                   rb_wal, rb_arm, fresh, alerts>>

-----------------------------------------------------------------------------
ExecutorStep(r) ==
    \/ Preflight(r)
    \/ WriteAhead(r)
    \/ IssueArm(r)
    \/ ArmNotSent(r)
    \/ ArmReturns(r)
    \/ RecordOutcome(r)

TaskStep(r) ==
    \/ Verify(r)
    \/ RollbackAhead(r)
    \/ IssueRollback(r)
    \/ RollbackNotSent(r)
    \/ RollbackReturns(r)
    \/ RecordRollback(r)
    \/ FlagRolledBack(r)
    \/ ReportVerdict(r)

GateStep ==
    \/ DecisionStep /\ UNCHANGED rvars
    \/ \E r \in Requests, p \in Proposals : AutoApprove(r, p) /\ UNCHANGED rvars
    \/ \E r \in Requests : GuardExecution(r) /\ UNCHANGED rvars

Next ==
    \/ GateStep
    \/ \E r \in Requests :
          \/ ExecutorStep(r)
          \/ Report(r)
          \/ Raise(r)
          \/ TaskStep(r)
          \/ CrashRequest(r)
          \/ CrashTask(r)
    \/ \E r \in Requests, k \in {"execute", "rollback"} : EmitAlert(r, k)
    \/ \E p \in Proposals : NewIncident(p) \/ IncidentsClosed(p)
    \/ Sweep

Init == ApprovalInit /\ RemediationInit

Spec == Init /\ [][Next]_vars

(* Handlers and tasks run on as long as their worker lives: the event loop  *)
(* schedules them, every ARM poller has a timeout.  The monitor loops for   *)
(* ever, a dead worker is replaced and sweeps when it starts.  Nobody has   *)
(* to send a request or report an incident.                                 *)
Fairness ==
    /\ \A r \in Requests : /\ WF_vars(ExecutorStep(r))
                           /\ WF_vars(TaskStep(r))
                           /\ \A k \in {"execute", "rollback"} :
                                 WF_vars(EmitAlert(r, k))
    /\ WF_vars(Sweep)

FairSpec == Spec /\ Fairness

-----------------------------------------------------------------------------
(* Correctness.                                                             *)

(* The ARM operation of an execution is sent only for a proposal that an    *)
(* operator approved on the document, or that a policy decided; and that    *)
(* stays so for ever after: no late decision, expiry or fall-through to a   *)
(* pending document takes the mandate of a sent operation back.             *)
ArmIsAuthorised ==
    \A r \in Requests : arm[r] # "none" =>
        LET by == approval[request[r].on].decided_by IN
        IF request[r].kind = "policy" THEN approval[request[r].on].status = "auto"
        ELSE by # None /\ request[by].kind = "approved"

(* What a record in remediation_audit may be read as, whatever calls to     *)
(* Cosmos are lost and wherever workers die.  A complete record is of an    *)
(* operation that was sent and either succeeded or was still running when   *)
(* its time was up: it has not been seen to fail, but need not have ended.  *)
(* A failed record is of an operation that was not sent, that failed or     *)
(* that was lost sight of: it has not been seen to succeed.                 *)
WalTellsTruth ==
    \A r \in Requests :
        /\ wal[r] = "complete" => arm[r] \in {"success", "overdue"}
        /\ wal[r] = "failed" => arm[r] \in {"none", "failure", "lost"}
        /\ rb_wal[r] = "complete" => rb_arm[r] \in {"success", "overdue"}
        /\ rb_wal[r] = "failed" => rb_arm[r] \in {"none", "failure", "lost"}

(* REMEDI-011: no ARM operation, rollbacks included, without a record in    *)
(* remediation_audit; and one that is still waited for is pending there.    *)
WriteAheadHolds ==
    \A r \in Requests :
        /\ arm[r] # "none" => wal[r] # "absent"
        /\ arm[r] = "issued" => wal[r] = "pending"
        /\ rb_arm[r] # "none" => rb_wal[r] # "absent"
        /\ rb_arm[r] = "issued" => rb_wal[r] = "pending"

(* REMEDI-012: a rollback operation is sent only when the execution is      *)
(* over, its resource was then found unhealthy, and the action of the very  *)
(* proposal it executed has an inverse.                                     *)
RollbackJustified ==
    \A r \in Requests : rb_arm[r] # "none" =>
        /\ phase[r] = "returned" /\ arm[r] # "issued"
        /\ health[r] \in {"Unavailable", "Degraded"}
        /\ Reversible(r)

(* The composition keeps the promises of RemediationContract.  Decisions    *)
(* are read off the document and the activation records.                    *)
DecisionOn(p) ==
    IF approval[p].status = "auto" THEN "policy"
    ELSE IF approval[p].decided_by = None THEN "none"
    ELSE request[approval[p].decided_by].kind

Decisions == [p \in Proposals |-> DecisionOn(p)]

ActedOn == [r \in Requests |-> IF arm[r] = "none" THEN None ELSE request[r].on]

Judgements == [r \in Requests |-> IF health[r] = "unread" THEN "none"
                                  ELSE Classify(health[r], "Unknown")]

Undone == {r \in Requests : rb_arm[r] # "none"}

Promise == INSTANCE RemediationContract WITH
    Executions <- Requests,
    Undoable   <- {p \in Proposals : HasInverse(ActionOf[p])},
    decision   <- Decisions,
    acted      <- ActedOn,
    judged     <- Judgements,
    undone     <- Undone

KeepsContract == Promise!Contract

(* Every ARM operation sent is eventually judged in its record, unless the  *)
(* worker that sent it dies (REMEDI-009).                                   *)
SentIsVerified ==
    \A r \in Requests :
        arm[r] = "issued" ~>
            \/ verdict[r] \in Class
            \/ stage[r] = "dead"
            \/ check[r] = "dead"

(* A record that nobody will settle any more, the worker having died        *)
(* between write-ahead and outcome, is brought to the operators' attention; *)
(* that of a rollback too (REMEDI-011).                                     *)
PendingIsAlerted ==
    \A r \in Requests :
        /\ wal[r] = "pending" ~>
              wal[r] # "pending" \/ <<r, "execute">> \in alerts
        /\ rb_wal[r] = "pending" ~>
              rb_wal[r] # "pending" \/ <<r, "rollback">> \in alerts

-----------------------------------------------------------------------------
(* What the repository says of this code and the code does not do.          *)

(* "approval status must be 'approved' (409 if ... executed)": a proposal   *)
(* is executed once.  Nothing claims it between the guard and the patch.    *)
ExecutedOnce ==
    \A r, s \in Requests :
        r # s /\ arm[r] # "none" /\ arm[s] # "none"
            => request[r].on # request[s].on

(* "re-verify WAL records that completed execution but never got verified": *)
(* an execution whose task died is verified after a restart.                *)
MissedIsVerified ==
    \A r \in Requests :
        wal[r] = "complete" /\ check[r] = "dead" ~> verdict[r] \in Class
=============================================================================
