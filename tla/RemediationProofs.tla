-------------------------- MODULE RemediationProofs --------------------------
(***************************************************************************)
(* Proofs about Approvals and about Remediation, which composes the gate   *)
(* with the executor: for every set of proposals and requests and every    *)
(* assignment of actions and resources to proposals, with and without      *)
(* faults of Cosmos.                                                       *)
(***************************************************************************)
EXTENDS Remediation, TLAPS

-----------------------------------------------------------------------------
(* Part one: the gate by itself (ApprovalSpec).  Its inductive invariant.   *)

(* A request that is being served is about some proposal.                   *)
OnAProposal ==
    \A r \in Requests : stage[r] # "idle" => request[r].on \in Proposals

(* What a request read is the document as long as the etag has not moved.   *)
SnapshotIsDocument ==
    \A r \in Requests : stage[r] \in {"read", "expiring", "deciding"} =>
        LET doc == approval[request[r].on] IN
        /\ request[r].seen \notin {"absent", "auto"}
        /\ request[r].etag <= doc.etag
        /\ request[r].etag = doc.etag => request[r].seen = doc.status

(* Only a request that saw "pending" is about to store a decision, and only  *)
(* one that is done has been answered.                                      *)
StagesFollowKinds ==
    \A r \in Requests :
        /\ stage[r] # "done" => reply[r] = "none"
        /\ r \in posted => stage[r] # "idle"
        /\ stage[r] = "deciding" =>
              request[r].seen = "pending" /\ request[r].kind \in Decision
        /\ stage[r] = "expiring" => request[r].kind \in Decision
        /\ stage[r] = "executing" => request[r].kind \in {"execute", "policy"}
        /\ stage[r] = "running" => r \in posted
        /\ stage[r] \in {"resuming", "running"} =>
              /\ request[r].kind = "approved"
              /\ approval[request[r].on].decided_by = r

(* A document has a decider once it is decided, and not before; the decider *)
(* is a request that has left "idle", so that its kind is settled.          *)
DeciderOnRecord ==
    \A p \in Proposals :
        /\ approval[p].status \in {"absent", "auto", "pending"} =>
              approval[p].decided_by = None
        /\ approval[p].status \in {"approved", "executed"} =>
              /\ approval[p].decided_by # None
              /\ request[approval[p].decided_by].kind = "approved"
        /\ approval[p].decided_by # None =>
              stage[approval[p].decided_by] # "idle"

(* An execution that read "approved" read a decision that is still there.   *)
SawApproval ==
    \A r \in Requests :
        stage[r] = "read" /\ request[r].seen = "approved" =>
            LET by == approval[request[r].on].decided_by IN
            by # None /\ request[by].kind = "approved"

(* One policy execution per proposal.                                       *)
PolicyRunsOnce ==
    /\ \A r \in Requests : request[r].kind = "policy" =>
          stage[r] # "idle" /\ approval[request[r].on].status # "absent"
    /\ \A r, s \in Requests :
          request[r].kind = "policy" /\ request[s].kind = "policy"
            /\ request[r].on = request[s].on => r = s

(* The inductive invariant.                                                 *)
ApprovalInv ==
    /\ ApprovalTypeOK
    /\ OnAProposal
    /\ SnapshotIsDocument
    /\ StagesFollowKinds
    /\ DeciderOnRecord
    /\ SawApproval
    /\ PolicyRunsOnce
    /\ AcceptedDecisionStands
    /\ ExecutingIsAuthorised
    /\ ResumeSpeaksForDecision

-----------------------------------------------------------------------------
LEMMA InitEstablishes == ApprovalInit => ApprovalInv
BY NoneAssumption
   DEF ApprovalInit, ApprovalInv, ApprovalTypeOK, OnAProposal,
       SnapshotIsDocument, StagesFollowKinds, DeciderOnRecord, SawApproval,
       PolicyRunsOnce, AcceptedDecisionStands, ExecutingIsAuthorised,
       ResumeSpeaksForDecision, Status, Kind, Stage, Reply, Decision

(* A document is created where there was none, so no request has read it. *)
LEMMA CreatePreserves ==
    ASSUME ApprovalInv, NEW p \in Proposals, CreateApproval(p)
    PROVE  ApprovalInv'
BY NoneAssumption
   DEF CreateApproval, Written,
       ApprovalInv, ApprovalTypeOK, OnAProposal, SnapshotIsDocument,
       StagesFollowKinds, DeciderOnRecord, SawApproval, PolicyRunsOnce,
       AcceptedDecisionStands, ExecutingIsAuthorised, ResumeSpeaksForDecision,
       Status, Kind, Stage, Reply, Decision

(* The clock touches no document. *)
LEMMA ExpirePreserves ==
    ASSUME ApprovalInv, NEW p \in Proposals, Expire(p)
    PROVE  ApprovalInv'
BY NoneAssumption
   DEF Expire, Stored,
       ApprovalInv, ApprovalTypeOK, OnAProposal, SnapshotIsDocument,
       StagesFollowKinds, DeciderOnRecord, SawApproval, PolicyRunsOnce,
       AcceptedDecisionStands, ExecutingIsAuthorised, ResumeSpeaksForDecision,
       Status, Kind, Stage, Reply, Decision

(* A request arrives: what it reads is the document. *)
LEMMA ArrivePreserves ==
    ASSUME ApprovalInv, NEW r \in Requests, NEW p \in Proposals,
           NEW k \in Decision \cup {"execute"}, NEW conf \in BOOLEAN, Arrive(r, k, p, conf),
           UNCHANGED <<approval, late, posted, resumed>>
    PROVE  ApprovalInv'
<1> USE NoneAssumption DEF ApprovalInv, Arrive, Stored
<1>1. ApprovalTypeOK'
  <2>1. CASE conf = TRUE
    BY <2>1 DEF ApprovalTypeOK, Status, Kind, Stage, Reply, Decision
  <2>2. CASE conf = FALSE
    BY <2>2 DEF ApprovalTypeOK, Status, Kind, Stage, Reply, Decision
  <2> QED
    BY <2>1, <2>2
<1>2. OnAProposal'
  BY DEF ApprovalTypeOK, OnAProposal, Stage
<1>3. SnapshotIsDocument'
  BY DEF ApprovalTypeOK, OnAProposal, SnapshotIsDocument,
         StagesFollowKinds
<1>4. StagesFollowKinds'
  BY DEF ApprovalTypeOK, OnAProposal, SnapshotIsDocument,
         StagesFollowKinds, DeciderOnRecord, Decision
<1>5. DeciderOnRecord'
  BY DEF ApprovalTypeOK, OnAProposal, StagesFollowKinds, DeciderOnRecord,
         ExecutingIsAuthorised, Decision
<1>6. SawApproval'
  BY DEF ApprovalTypeOK, OnAProposal, SnapshotIsDocument,
         StagesFollowKinds, DeciderOnRecord, SawApproval
<1>7. PolicyRunsOnce'
  BY DEF ApprovalTypeOK, OnAProposal, StagesFollowKinds, PolicyRunsOnce,
         Decision
<1>8. AcceptedDecisionStands'
  BY DEF ApprovalTypeOK, OnAProposal, SnapshotIsDocument,
         StagesFollowKinds, DeciderOnRecord, AcceptedDecisionStands, Decision
<1>9. ExecutingIsAuthorised'
  BY DEF ApprovalTypeOK, OnAProposal, SnapshotIsDocument,
         StagesFollowKinds, DeciderOnRecord, SawApproval, PolicyRunsOnce,
         ExecutingIsAuthorised
<1>10. ResumeSpeaksForDecision'
  BY DEF ApprovalTypeOK, OnAProposal, SnapshotIsDocument,
         StagesFollowKinds, DeciderOnRecord, ResumeSpeaksForDecision, Decision
<1> QED
  BY <1>1, <1>2, <1>3, <1>4, <1>5, <1>6, <1>7, <1>8, <1>9, <1>10

(* The policy branch takes a proposal that has no document. *)
LEMMA AutoApprovePreserves ==
    ASSUME ApprovalInv, NEW r \in Requests, NEW p \in Proposals, AutoApprove(r, p)
    PROVE  ApprovalInv'
<1> USE NoneAssumption DEF ApprovalInv, AutoApprove
<1>1. ApprovalTypeOK'
  BY DEF ApprovalTypeOK, Status, Kind, Stage, Reply, Decision,
         OnAProposal, StagesFollowKinds
<1>2. OnAProposal'
  BY DEF ApprovalTypeOK, OnAProposal, Stage
<1>3. SnapshotIsDocument'
  BY DEF ApprovalTypeOK, OnAProposal, SnapshotIsDocument,
         StagesFollowKinds
<1>4. StagesFollowKinds'
  BY DEF ApprovalTypeOK, OnAProposal, SnapshotIsDocument,
         StagesFollowKinds, DeciderOnRecord, Decision
<1>5. DeciderOnRecord'
  BY DEF ApprovalTypeOK, OnAProposal, StagesFollowKinds, DeciderOnRecord,
         ExecutingIsAuthorised, Decision
<1>6. SawApproval'
  BY DEF ApprovalTypeOK, OnAProposal, SnapshotIsDocument,
         StagesFollowKinds, DeciderOnRecord, SawApproval
<1>7. PolicyRunsOnce'
  BY DEF ApprovalTypeOK, OnAProposal, StagesFollowKinds, PolicyRunsOnce,
         Decision
<1>8. AcceptedDecisionStands'
  BY DEF ApprovalTypeOK, OnAProposal, SnapshotIsDocument,
         StagesFollowKinds, DeciderOnRecord, AcceptedDecisionStands, Decision
<1>9. ExecutingIsAuthorised'
  BY DEF ApprovalTypeOK, OnAProposal, SnapshotIsDocument,
         StagesFollowKinds, DeciderOnRecord, SawApproval, PolicyRunsOnce,
         ExecutingIsAuthorised
<1>10. ResumeSpeaksForDecision'
  BY DEF ApprovalTypeOK, OnAProposal, SnapshotIsDocument,
         StagesFollowKinds, DeciderOnRecord, ResumeSpeaksForDecision, Decision
<1> QED
  BY <1>1, <1>2, <1>3, <1>4, <1>5, <1>6, <1>7, <1>8, <1>9, <1>10

(* Only a request that saw "pending" goes on to decide. *)
LEMMA JudgePreserves ==
    ASSUME ApprovalInv, NEW r \in Requests, Judge(r)
    PROVE  ApprovalInv'
<1> USE NoneAssumption DEF ApprovalInv, Judge, Goto, Answer
<1>1. ApprovalTypeOK'
  <2>1. \E st \in Stage : stage' = [stage EXCEPT ![r] = st]
    BY DEF Stage
  <2>2. reply' = reply \/ \E rep \in Reply : reply' = [reply EXCEPT ![r] = rep]
    BY DEF Reply
  <2> QED
    BY <2>1, <2>2 DEF ApprovalTypeOK
<1>2. OnAProposal'
  BY DEF ApprovalTypeOK, OnAProposal, Stage
<1>3. SnapshotIsDocument'
  BY DEF ApprovalTypeOK, OnAProposal, SnapshotIsDocument,
         StagesFollowKinds
<1>4. StagesFollowKinds'
  BY DEF ApprovalTypeOK, OnAProposal, SnapshotIsDocument,
         StagesFollowKinds, DeciderOnRecord, Decision
<1>5. DeciderOnRecord'
  BY DEF ApprovalTypeOK, OnAProposal, StagesFollowKinds, DeciderOnRecord,
         ExecutingIsAuthorised, Decision
<1>6. SawApproval'
  BY DEF ApprovalTypeOK, OnAProposal, SnapshotIsDocument,
         StagesFollowKinds, DeciderOnRecord, SawApproval
<1>7. PolicyRunsOnce'
  BY DEF ApprovalTypeOK, OnAProposal, StagesFollowKinds, PolicyRunsOnce,
         Decision
<1>8. AcceptedDecisionStands'
  BY DEF ApprovalTypeOK, OnAProposal, SnapshotIsDocument,
         StagesFollowKinds, DeciderOnRecord, AcceptedDecisionStands, Decision
<1>9. ExecutingIsAuthorised'
  BY DEF ApprovalTypeOK, OnAProposal, SnapshotIsDocument,
         StagesFollowKinds, DeciderOnRecord, SawApproval, PolicyRunsOnce,
         ExecutingIsAuthorised
<1>10. ResumeSpeaksForDecision'
  BY DEF ApprovalTypeOK, OnAProposal, SnapshotIsDocument,
         StagesFollowKinds, DeciderOnRecord, ResumeSpeaksForDecision, Decision
<1> QED
  BY <1>1, <1>2, <1>3, <1>4, <1>5, <1>6, <1>7, <1>8, <1>9, <1>10

(* decided_by stays, so a decision survives the expired status. *)
LEMMA WriteExpiredPreserves ==
    ASSUME ApprovalInv, NEW r \in Requests, WriteExpired(r)
    PROVE  ApprovalInv'
<1> USE NoneAssumption DEF ApprovalInv, WriteExpired, EtagMatches, Written, Answer
<1>1. ApprovalTypeOK'
  BY DEF ApprovalTypeOK, Status, Stage, Reply, OnAProposal
<1>2. OnAProposal'
  BY DEF ApprovalTypeOK, OnAProposal, Stage
<1>3. SnapshotIsDocument'
  BY DEF ApprovalTypeOK, OnAProposal, SnapshotIsDocument, StagesFollowKinds
<1>4. StagesFollowKinds'
  BY DEF ApprovalTypeOK, OnAProposal, StagesFollowKinds
<1>5. DeciderOnRecord'
  BY DEF ApprovalTypeOK, OnAProposal, DeciderOnRecord
<1>6. SawApproval'
  BY DEF ApprovalTypeOK, OnAProposal, SawApproval
<1>7. PolicyRunsOnce'
  BY DEF ApprovalTypeOK, OnAProposal, StagesFollowKinds, PolicyRunsOnce
<1>8. AcceptedDecisionStands'
  BY DEF ApprovalTypeOK, OnAProposal, StagesFollowKinds, DeciderOnRecord,
         AcceptedDecisionStands, Decision
<1>9. ExecutingIsAuthorised'
  BY DEF ApprovalTypeOK, OnAProposal, SnapshotIsDocument, StagesFollowKinds,
         PolicyRunsOnce, ExecutingIsAuthorised
<1>10. ResumeSpeaksForDecision'
  BY DEF ApprovalTypeOK, OnAProposal, StagesFollowKinds, ResumeSpeaksForDecision
<1> QED
  BY <1>1, <1>2, <1>3, <1>4, <1>5, <1>6, <1>7, <1>8, <1>9, <1>10

(* The etag has not moved, so the document is pending and has no decider. *)
LEMMA WriteDecisionPreserves ==
    ASSUME ApprovalInv, NEW r \in Requests, WriteDecision(r)
    PROVE  ApprovalInv'
<1> USE NoneAssumption DEF ApprovalInv, WriteDecision, EtagMatches, Written, Goto, Answer
<1>1. ApprovalTypeOK'
  <2>1. request[r].kind \in Status /\ request[r].on \in Proposals
    BY DEF StagesFollowKinds, OnAProposal, Decision, Status
  <2> QED
    BY <2>1 DEF ApprovalTypeOK, Stage, Reply
<1>2. OnAProposal'
  BY DEF ApprovalTypeOK, OnAProposal, Stage
<1>3. SnapshotIsDocument'
  BY DEF ApprovalTypeOK, OnAProposal, SnapshotIsDocument,
         StagesFollowKinds
<1>4. StagesFollowKinds'
  BY DEF ApprovalTypeOK, OnAProposal, SnapshotIsDocument,
         StagesFollowKinds, DeciderOnRecord, Decision
<1>5. DeciderOnRecord'
  BY DEF ApprovalTypeOK, OnAProposal, StagesFollowKinds, DeciderOnRecord,
         ExecutingIsAuthorised, Decision
<1>6. SawApproval'
  BY DEF ApprovalTypeOK, OnAProposal, SnapshotIsDocument,
         StagesFollowKinds, DeciderOnRecord, SawApproval
<1>7. PolicyRunsOnce'
  BY DEF ApprovalTypeOK, OnAProposal, StagesFollowKinds, PolicyRunsOnce,
         Decision
<1>8. AcceptedDecisionStands'
  BY DEF ApprovalTypeOK, OnAProposal, SnapshotIsDocument,
         StagesFollowKinds, DeciderOnRecord, AcceptedDecisionStands, Decision
<1>9. ExecutingIsAuthorised'
  BY DEF ApprovalTypeOK, OnAProposal, SnapshotIsDocument,
         StagesFollowKinds, DeciderOnRecord, SawApproval, PolicyRunsOnce,
         ExecutingIsAuthorised
<1>10. ResumeSpeaksForDecision'
  BY DEF ApprovalTypeOK, OnAProposal, SnapshotIsDocument,
         StagesFollowKinds, DeciderOnRecord, ResumeSpeaksForDecision, Decision
<1> QED
  BY <1>1, <1>2, <1>3, <1>4, <1>5, <1>6, <1>7, <1>8, <1>9, <1>10

(* The same write, answered with an error. *)
LEMMA WriteUnheardPreserves ==
    ASSUME ApprovalInv, NEW r \in Requests, WriteDecisionUnheard(r)
    PROVE  ApprovalInv'
<1> USE NoneAssumption DEF ApprovalInv, WriteDecisionUnheard, EtagMatches, Written, Answer
<1>1. ApprovalTypeOK'
  BY DEF ApprovalTypeOK, Status, Stage, Reply, Decision, OnAProposal, StagesFollowKinds
<1>2. OnAProposal'
  BY DEF ApprovalTypeOK, OnAProposal, Stage
<1>3. SnapshotIsDocument'
  BY DEF ApprovalTypeOK, OnAProposal, SnapshotIsDocument, StagesFollowKinds
<1>4. StagesFollowKinds'
  BY DEF ApprovalTypeOK, OnAProposal, SnapshotIsDocument, StagesFollowKinds,
         DeciderOnRecord, Decision
<1>5. DeciderOnRecord'
  BY DEF ApprovalTypeOK, OnAProposal, StagesFollowKinds, DeciderOnRecord, Decision
<1>6. SawApproval'
  BY DEF ApprovalTypeOK, OnAProposal, SnapshotIsDocument, StagesFollowKinds,
         DeciderOnRecord, SawApproval
<1>7. PolicyRunsOnce'
  BY DEF ApprovalTypeOK, OnAProposal, StagesFollowKinds, PolicyRunsOnce, Decision
<1>8. AcceptedDecisionStands'
  BY DEF ApprovalTypeOK, OnAProposal, SnapshotIsDocument, StagesFollowKinds,
         DeciderOnRecord, AcceptedDecisionStands, Decision
<1>9. ExecutingIsAuthorised'
  BY DEF ApprovalTypeOK, OnAProposal, SnapshotIsDocument, StagesFollowKinds,
         DeciderOnRecord, PolicyRunsOnce, ExecutingIsAuthorised
<1>10. ResumeSpeaksForDecision'
  BY DEF ApprovalTypeOK, OnAProposal, SnapshotIsDocument, StagesFollowKinds,
         DeciderOnRecord, ResumeSpeaksForDecision
<1> QED
  BY <1>1, <1>2, <1>3, <1>4, <1>5, <1>6, <1>7, <1>8, <1>9, <1>10

(* Nothing is written. *)
LEMMA WriteFailsPreserves ==
    ASSUME ApprovalInv, NEW r \in Requests, WriteFails(r)
    PROVE  ApprovalInv'
BY NoneAssumption
   DEF WriteFails, Answer,
       ApprovalInv, ApprovalTypeOK, OnAProposal, SnapshotIsDocument,
       StagesFollowKinds, DeciderOnRecord, SawApproval, PolicyRunsOnce,
       AcceptedDecisionStands, ExecutingIsAuthorised, ResumeSpeaksForDecision,
       Status, Kind, Stage, Reply, Decision

(* The request that resumes is the decider. *)
LEMMA PostResponsePreserves ==
    ASSUME ApprovalInv, NEW r \in Requests, PostResponse(r)
    PROVE  ApprovalInv'
BY NoneAssumption
   DEF PostResponse, Goto,
       ApprovalInv, ApprovalTypeOK, OnAProposal, SnapshotIsDocument,
       StagesFollowKinds, DeciderOnRecord, SawApproval, PolicyRunsOnce,
       AcceptedDecisionStands, ExecutingIsAuthorised, ResumeSpeaksForDecision,
       Status, Kind, Stage, Reply, Decision

(* It is answered ok, and it is the decider. *)
LEMMA CreateRunPreserves ==
    ASSUME ApprovalInv, NEW r \in Requests, CreateRun(r)
    PROVE  ApprovalInv'
<1> USE NoneAssumption DEF ApprovalInv, CreateRun, Answer
<1>1. ApprovalTypeOK'
  BY DEF ApprovalTypeOK, Status, Kind, Stage, Reply, Decision,
         OnAProposal, StagesFollowKinds
<1>2. OnAProposal'
  BY DEF ApprovalTypeOK, OnAProposal, Stage
<1>3. SnapshotIsDocument'
  BY DEF ApprovalTypeOK, OnAProposal, SnapshotIsDocument,
         StagesFollowKinds
<1>4. StagesFollowKinds'
  BY DEF ApprovalTypeOK, OnAProposal, SnapshotIsDocument,
         StagesFollowKinds, DeciderOnRecord, Decision
<1>5. DeciderOnRecord'
  BY DEF ApprovalTypeOK, OnAProposal, StagesFollowKinds, DeciderOnRecord,
         ExecutingIsAuthorised, Decision
<1>6. SawApproval'
  BY DEF ApprovalTypeOK, OnAProposal, SnapshotIsDocument,
         StagesFollowKinds, DeciderOnRecord, SawApproval
<1>7. PolicyRunsOnce'
  BY DEF ApprovalTypeOK, OnAProposal, StagesFollowKinds, PolicyRunsOnce,
         Decision
<1>8. AcceptedDecisionStands'
  BY DEF ApprovalTypeOK, OnAProposal, SnapshotIsDocument,
         StagesFollowKinds, DeciderOnRecord, AcceptedDecisionStands, Decision
<1>9. ExecutingIsAuthorised'
  BY DEF ApprovalTypeOK, OnAProposal, SnapshotIsDocument,
         StagesFollowKinds, DeciderOnRecord, SawApproval, PolicyRunsOnce,
         ExecutingIsAuthorised
<1>10. ResumeSpeaksForDecision'
  BY DEF ApprovalTypeOK, OnAProposal, SnapshotIsDocument,
         StagesFollowKinds, DeciderOnRecord, ResumeSpeaksForDecision, Decision
<1> QED
  BY <1>1, <1>2, <1>3, <1>4, <1>5, <1>6, <1>7, <1>8, <1>9, <1>10

(* The same answer without the run. *)
LEMMA ResumeFailsPreserves ==
    ASSUME ApprovalInv, NEW r \in Requests, ResumeFails(r)
    PROVE  ApprovalInv'
BY NoneAssumption
   DEF ResumeFails, Answer,
       ApprovalInv, ApprovalTypeOK, OnAProposal, SnapshotIsDocument,
       StagesFollowKinds, DeciderOnRecord, SawApproval, PolicyRunsOnce,
       AcceptedDecisionStands, ExecutingIsAuthorised, ResumeSpeaksForDecision,
       Status, Kind, Stage, Reply, Decision

(* The execution that passes the guard read "approved". *)
LEMMA GuardPreserves ==
    ASSUME ApprovalInv, NEW r \in Requests, GuardExecution(r)
    PROVE  ApprovalInv'
<1> USE NoneAssumption DEF ApprovalInv, GuardExecution, Goto, Answer
<1>1. ApprovalTypeOK'
  BY DEF ApprovalTypeOK, Status, Kind, Stage, Reply, Decision,
         OnAProposal, StagesFollowKinds
<1>2. OnAProposal'
  BY DEF ApprovalTypeOK, OnAProposal, Stage
<1>3. SnapshotIsDocument'
  BY DEF ApprovalTypeOK, OnAProposal, SnapshotIsDocument,
         StagesFollowKinds
<1>4. StagesFollowKinds'
  BY DEF ApprovalTypeOK, OnAProposal, SnapshotIsDocument,
         StagesFollowKinds, DeciderOnRecord, Decision
<1>5. DeciderOnRecord'
  BY DEF ApprovalTypeOK, OnAProposal, StagesFollowKinds, DeciderOnRecord,
         ExecutingIsAuthorised, Decision
<1>6. SawApproval'
  BY DEF ApprovalTypeOK, OnAProposal, SnapshotIsDocument,
         StagesFollowKinds, DeciderOnRecord, SawApproval
<1>7. PolicyRunsOnce'
  BY DEF ApprovalTypeOK, OnAProposal, StagesFollowKinds, PolicyRunsOnce,
         Decision
<1>8. AcceptedDecisionStands'
  BY DEF ApprovalTypeOK, OnAProposal, SnapshotIsDocument,
         StagesFollowKinds, DeciderOnRecord, AcceptedDecisionStands, Decision
<1>9. ExecutingIsAuthorised'
  BY DEF ApprovalTypeOK, OnAProposal, SnapshotIsDocument,
         StagesFollowKinds, DeciderOnRecord, SawApproval, PolicyRunsOnce,
         ExecutingIsAuthorised
<1>10. ResumeSpeaksForDecision'
  BY DEF ApprovalTypeOK, OnAProposal, SnapshotIsDocument,
         StagesFollowKinds, DeciderOnRecord, ResumeSpeaksForDecision, Decision
<1> QED
  BY <1>1, <1>2, <1>3, <1>4, <1>5, <1>6, <1>7, <1>8, <1>9, <1>10

(* The patch keeps decided_by, whatever the document has become. *)
LEMMA ReportPreserves ==
    ASSUME ApprovalInv, NEW r \in Requests, ReportExecution(r)
    PROVE  ApprovalInv'
<1> USE NoneAssumption DEF ApprovalInv
<1>0. request[r].kind \in {"execute", "policy"}
  BY DEF StagesFollowKinds, ReportExecution
<1>1. CASE request[r].kind = "execute"
  <2>0. /\ request[r].on \in Proposals
        /\ approval[request[r].on].etag \in Nat
        /\ stage[r] = "executing"
    BY <1>1 DEF ReportExecution, ApprovalTypeOK, OnAProposal
  <2>a. /\ approval' = [approval EXCEPT ![request[r].on] =
                          [status |-> "executed",
                           etag |-> approval[request[r].on].etag + 1,
                           decided_by |-> approval[request[r].on].decided_by]]
        /\ stage' = [stage EXCEPT ![r] = "done"]
        /\ reply' = [reply EXCEPT ![r] = "ok"]
        /\ UNCHANGED <<late, request, posted, resumed>>
    BY <1>1 DEF ReportExecution, Written, Answer
  <2>1. ApprovalTypeOK'
    BY <1>1, <2>0, <2>a DEF ApprovalTypeOK, Status, Kind, Stage, Reply, Decision,
         OnAProposal, StagesFollowKinds
  <2>2. OnAProposal'
    BY <1>1, <2>0, <2>a DEF ApprovalTypeOK, OnAProposal, Stage
  <2>3. SnapshotIsDocument'
    BY <1>1, <2>0, <2>a DEF ApprovalTypeOK, OnAProposal, SnapshotIsDocument
  <2>4. StagesFollowKinds'
    BY <1>1, <2>0, <2>a DEF ApprovalTypeOK, OnAProposal, SnapshotIsDocument,
         StagesFollowKinds, DeciderOnRecord, Decision
  <2>5. DeciderOnRecord'
    BY <1>1, <2>0, <2>a DEF ApprovalTypeOK, OnAProposal, StagesFollowKinds, DeciderOnRecord,
         ExecutingIsAuthorised, Decision
  <2>6. SawApproval'
    BY <1>1, <2>0, <2>a DEF ApprovalTypeOK, OnAProposal, SnapshotIsDocument,
         StagesFollowKinds, DeciderOnRecord, SawApproval
  <2>7. PolicyRunsOnce'
    BY <1>1, <2>0, <2>a DEF ApprovalTypeOK, OnAProposal, StagesFollowKinds, PolicyRunsOnce,
         Decision
  <2>8. AcceptedDecisionStands'
    BY <1>1, <2>0, <2>a DEF ApprovalTypeOK, OnAProposal, SnapshotIsDocument,
         StagesFollowKinds, DeciderOnRecord, AcceptedDecisionStands, Decision
  <2>9. ExecutingIsAuthorised'
    BY <1>1, <2>0, <2>a DEF ApprovalTypeOK, OnAProposal, SnapshotIsDocument,
         StagesFollowKinds, DeciderOnRecord, SawApproval, PolicyRunsOnce,
         ExecutingIsAuthorised
  <2>10. ResumeSpeaksForDecision'
    BY <1>1, <2>0, <2>a DEF ApprovalTypeOK, OnAProposal, SnapshotIsDocument,
         StagesFollowKinds, DeciderOnRecord, ResumeSpeaksForDecision, Decision
  <2> QED
    BY <2>1, <2>2, <2>3, <2>4, <2>5, <2>6, <2>7, <2>8, <2>9, <2>10
<1>2. CASE request[r].kind = "policy"
  <2>0. /\ stage[r] = "executing"
        /\ stage' = [stage EXCEPT ![r] = "done"]
        /\ reply' = [reply EXCEPT ![r] = "ok"]
        /\ UNCHANGED <<approval, late, request, posted, resumed>>
    BY <1>2 DEF ReportExecution, Answer
  <2>1. ApprovalTypeOK'
    BY <1>2, <2>0 DEF ApprovalTypeOK, Status, Kind, Stage, Reply, Decision,
         OnAProposal, StagesFollowKinds
  <2>2. OnAProposal'
    BY <1>2, <2>0 DEF ApprovalTypeOK, OnAProposal, Stage
  <2>3. SnapshotIsDocument'
    BY <1>2, <2>0 DEF ApprovalTypeOK, OnAProposal, SnapshotIsDocument,
         StagesFollowKinds
  <2>4. StagesFollowKinds'
    BY <1>2, <2>0 DEF ApprovalTypeOK, OnAProposal, SnapshotIsDocument,
         StagesFollowKinds, DeciderOnRecord, Decision
  <2>5. DeciderOnRecord'
    BY <1>2, <2>0 DEF ApprovalTypeOK, OnAProposal, StagesFollowKinds, DeciderOnRecord,
         ExecutingIsAuthorised, Decision
  <2>6. SawApproval'
    BY <1>2, <2>0 DEF ApprovalTypeOK, OnAProposal, SnapshotIsDocument,
         StagesFollowKinds, DeciderOnRecord, SawApproval
  <2>7. PolicyRunsOnce'
    BY <1>2, <2>0 DEF ApprovalTypeOK, OnAProposal, StagesFollowKinds, PolicyRunsOnce,
         Decision
  <2>8. AcceptedDecisionStands'
    BY <1>2, <2>0 DEF ApprovalTypeOK, OnAProposal, SnapshotIsDocument,
         StagesFollowKinds, DeciderOnRecord, AcceptedDecisionStands, Decision
  <2>9. ExecutingIsAuthorised'
    BY <1>2, <2>0 DEF ApprovalTypeOK, OnAProposal, SnapshotIsDocument,
         StagesFollowKinds, DeciderOnRecord, SawApproval, PolicyRunsOnce,
         ExecutingIsAuthorised
  <2>10. ResumeSpeaksForDecision'
    BY <1>2, <2>0 DEF ApprovalTypeOK, OnAProposal, SnapshotIsDocument,
         StagesFollowKinds, DeciderOnRecord, ResumeSpeaksForDecision, Decision
  <2> QED
    BY <2>1, <2>2, <2>3, <2>4, <2>5, <2>6, <2>7, <2>8, <2>9, <2>10
<1> QED
  BY <1>0, <1>1, <1>2

(* Nothing is written. *)
LEMMA ReportFailsPreserves ==
    ASSUME ApprovalInv, NEW r \in Requests, ReportExecutionFails(r)
    PROVE  ApprovalInv'
BY NoneAssumption
   DEF ReportExecutionFails, Answer,
       ApprovalInv, ApprovalTypeOK, OnAProposal, SnapshotIsDocument,
       StagesFollowKinds, DeciderOnRecord, SawApproval, PolicyRunsOnce,
       AcceptedDecisionStands, ExecutingIsAuthorised, ResumeSpeaksForDecision,
       Status, Kind, Stage, Reply, Decision

(* A policy proposal falls back to a pending document that nobody has read. *)
LEMMA RaisesPreserves ==
    ASSUME ApprovalInv, NEW r \in Requests, ExecutionRaises(r)
    PROVE  ApprovalInv'
<1> USE NoneAssumption DEF ApprovalInv
<1>0. request[r].kind \in {"execute", "policy"}
  BY DEF StagesFollowKinds, ExecutionRaises
<1>1. CASE request[r].kind = "execute"
  <2>0. /\ stage[r] = "executing"
        /\ stage' = [stage EXCEPT ![r] = "done"]
        /\ reply' = [reply EXCEPT ![r] = "error"]
        /\ UNCHANGED <<approval, late, request, posted, resumed>>
    BY <1>1 DEF ExecutionRaises, Answer
  <2>1. ApprovalTypeOK'
    BY <1>1, <2>0 DEF ApprovalTypeOK, Status, Kind, Stage, Reply, Decision,
         OnAProposal, StagesFollowKinds
  <2>2. OnAProposal'
    BY <1>1, <2>0 DEF ApprovalTypeOK, OnAProposal, Stage
  <2>3. SnapshotIsDocument'
    BY <1>1, <2>0 DEF ApprovalTypeOK, OnAProposal, SnapshotIsDocument,
         StagesFollowKinds
  <2>4. StagesFollowKinds'
    BY <1>1, <2>0 DEF ApprovalTypeOK, OnAProposal, SnapshotIsDocument,
         StagesFollowKinds, DeciderOnRecord, Decision
  <2>5. DeciderOnRecord'
    BY <1>1, <2>0 DEF ApprovalTypeOK, OnAProposal, StagesFollowKinds, DeciderOnRecord,
         ExecutingIsAuthorised, Decision
  <2>6. SawApproval'
    BY <1>1, <2>0 DEF ApprovalTypeOK, OnAProposal, SnapshotIsDocument,
         StagesFollowKinds, DeciderOnRecord, SawApproval
  <2>7. PolicyRunsOnce'
    BY <1>1, <2>0 DEF ApprovalTypeOK, OnAProposal, StagesFollowKinds, PolicyRunsOnce,
         Decision
  <2>8. AcceptedDecisionStands'
    BY <1>1, <2>0 DEF ApprovalTypeOK, OnAProposal, SnapshotIsDocument,
         StagesFollowKinds, DeciderOnRecord, AcceptedDecisionStands, Decision
  <2>9. ExecutingIsAuthorised'
    BY <1>1, <2>0 DEF ApprovalTypeOK, OnAProposal, SnapshotIsDocument,
         StagesFollowKinds, DeciderOnRecord, SawApproval, PolicyRunsOnce,
         ExecutingIsAuthorised
  <2>10. ResumeSpeaksForDecision'
    BY <1>1, <2>0 DEF ApprovalTypeOK, OnAProposal, SnapshotIsDocument,
         StagesFollowKinds, DeciderOnRecord, ResumeSpeaksForDecision, Decision
  <2> QED
    BY <2>1, <2>2, <2>3, <2>4, <2>5, <2>6, <2>7, <2>8, <2>9, <2>10
<1>2. CASE request[r].kind = "policy"
  <2>0. /\ request[r].on \in Proposals
        /\ approval[request[r].on].status = "auto"
        /\ approval[request[r].on].decided_by = None
        /\ approval[request[r].on].etag \in Nat
        /\ stage[r] = "executing"
    BY <1>2 DEF ExecutionRaises, ApprovalTypeOK, OnAProposal,
         ExecutingIsAuthorised, DeciderOnRecord
  <2>a. /\ approval' = [approval EXCEPT ![request[r].on] =
                          [status |-> "pending",
                           etag |-> approval[request[r].on].etag + 1,
                           decided_by |-> None]]
        /\ stage' = [stage EXCEPT ![r] = "done"]
        /\ reply' = [reply EXCEPT ![r] = "ok"]
        /\ UNCHANGED <<late, request, posted, resumed>>
    BY <1>2 DEF ExecutionRaises, Written, Answer
  <2>1. ApprovalTypeOK'
    BY <1>2, <2>0, <2>a DEF ApprovalTypeOK, Status, Stage, Reply
  <2>2. OnAProposal'
    BY <1>2, <2>0, <2>a DEF ApprovalTypeOK, OnAProposal, Stage
  <2>3. SnapshotIsDocument'
    BY <1>2, <2>0, <2>a DEF ApprovalTypeOK, OnAProposal, SnapshotIsDocument,
         StagesFollowKinds
  <2>4. StagesFollowKinds'
    BY <1>2, <2>0, <2>a DEF ApprovalTypeOK, OnAProposal, SnapshotIsDocument,
         StagesFollowKinds, DeciderOnRecord, Decision
  <2>5. DeciderOnRecord'
    BY <1>2, <2>0, <2>a DEF ApprovalTypeOK, OnAProposal, StagesFollowKinds, DeciderOnRecord,
         ExecutingIsAuthorised, Decision
  <2>6. SawApproval'
    BY <1>2, <2>0, <2>a DEF ApprovalTypeOK, OnAProposal, SawApproval
  <2>7. PolicyRunsOnce'
    BY <1>2, <2>0, <2>a DEF ApprovalTypeOK, OnAProposal, StagesFollowKinds, PolicyRunsOnce,
         Decision
  <2>8. AcceptedDecisionStands'
    BY <1>2, <2>0, <2>a DEF ApprovalTypeOK, OnAProposal, SnapshotIsDocument,
         StagesFollowKinds, DeciderOnRecord, AcceptedDecisionStands, Decision
  <2>9. ExecutingIsAuthorised'
    BY <1>2, <2>0, <2>a DEF ApprovalTypeOK, OnAProposal, SnapshotIsDocument,
         StagesFollowKinds, DeciderOnRecord, SawApproval, PolicyRunsOnce,
         ExecutingIsAuthorised
  <2>10. ResumeSpeaksForDecision'
    BY <1>2, <2>0, <2>a DEF ApprovalTypeOK, OnAProposal, SnapshotIsDocument,
         StagesFollowKinds, DeciderOnRecord, ResumeSpeaksForDecision, Decision
  <2> QED
    BY <2>1, <2>2, <2>3, <2>4, <2>5, <2>6, <2>7, <2>8, <2>9, <2>10
<1> QED
  BY <1>0, <1>1, <1>2

(* A dead request does nothing any more. *)
LEMMA CrashPreserves ==
    ASSUME ApprovalInv, NEW r \in Requests, Crash(r)
    PROVE  ApprovalInv'
BY NoneAssumption
   DEF Crash, Goto,
       ApprovalInv, ApprovalTypeOK, OnAProposal, SnapshotIsDocument,
       StagesFollowKinds, DeciderOnRecord, SawApproval, PolicyRunsOnce,
       AcceptedDecisionStands, ExecutingIsAuthorised, ResumeSpeaksForDecision,
       Status, Kind, Stage, Reply, Decision

(* The invariant is inductive. *)
LEMMA StepPreserves == ApprovalInv /\ [ApprovalNext]_avars => ApprovalInv'
<1> SUFFICES ASSUME ApprovalInv, [ApprovalNext]_avars PROVE ApprovalInv'
  OBVIOUS
<1>1. CASE DecisionStep
  <2>1. CASE \E p \in Proposals : CreateApproval(p) \/ Expire(p)
    BY <2>1, CreatePreserves, ExpirePreserves
  <2>2. ASSUME NEW r \in Requests, NEW p \in Proposals,
               NEW k \in Decision, NEW conf \in BOOLEAN,
               ReadForDecision(r, k, p, conf)
        PROVE  ApprovalInv'
    BY <2>2, ArrivePreserves DEF ReadForDecision
  <2>3. ASSUME NEW r \in Requests, NEW p \in Proposals, ReadForExecution(r, p)
        PROVE  ApprovalInv'
    BY <2>3, ArrivePreserves DEF ReadForExecution
  <2>4. ASSUME NEW r \in Requests,
               \/ Judge(r) \/ WriteExpired(r) \/ WriteDecision(r)
               \/ WriteDecisionUnheard(r) \/ WriteFails(r)
               \/ PostResponse(r) \/ CreateRun(r) \/ ResumeFails(r)
        PROVE  ApprovalInv'
    BY <2>4, JudgePreserves, WriteExpiredPreserves, WriteDecisionPreserves,
       WriteUnheardPreserves, WriteFailsPreserves, PostResponsePreserves,
       CreateRunPreserves, ResumeFailsPreserves
  <2> QED
    BY <1>1, <2>1, <2>2, <2>3, <2>4 DEF DecisionStep
<1>2. CASE ExecutionStep
  BY <1>2, AutoApprovePreserves, GuardPreserves, ReportPreserves,
     ReportFailsPreserves, RaisesPreserves, CrashPreserves DEF ExecutionStep
<1>3. CASE UNCHANGED avars
  BY <1>3 DEF avars, ApprovalInv, ApprovalTypeOK, OnAProposal,
       SnapshotIsDocument, StagesFollowKinds, DeciderOnRecord, SawApproval,
       PolicyRunsOnce, AcceptedDecisionStands, ExecutingIsAuthorised,
       ResumeSpeaksForDecision
<1> QED
  BY <1>1, <1>2, <1>3 DEF ApprovalNext

THEOREM InductiveInvariant == ApprovalSpec => []ApprovalInv
BY InitEstablishes, StepPreserves, PTL DEF ApprovalSpec

-----------------------------------------------------------------------------
(* Every variable of the gate keeps its type.                               *)
THEOREM TypeCorrect == ApprovalSpec => []ApprovalTypeOK
<1>1. ApprovalInv => ApprovalTypeOK
  BY DEF ApprovalInv
<1> QED
  BY <1>1, InductiveInvariant, PTL

(* An accepted decision is the one on record for good.                      *)
THEOREM DecisionStands == ApprovalSpec => []AcceptedDecisionStands
<1>1. ApprovalInv => AcceptedDecisionStands
  BY DEF ApprovalInv
<1> QED
  BY <1>1, InductiveInvariant, PTL

(* Nothing is executed that nobody approved.                                *)
THEOREM ExecutionAuthorised == ApprovalSpec => []ExecutingIsAuthorised
<1>1. ApprovalInv => ExecutingIsAuthorised
  BY DEF ApprovalInv
<1> QED
  BY <1>1, InductiveInvariant, PTL

(* A thread is resumed for the decision on record, and only once.           *)
THEOREM ResumeOfDecision == ApprovalSpec => []ResumeSpeaksForDecision
<1>1. ApprovalInv => ResumeSpeaksForDecision
  BY DEF ApprovalInv
<1> QED
  BY <1>1, InductiveInvariant, PTL

(* Only a pending document gets a decider, and a decider stays.             *)
LEMMA DeciderStays ==
    ASSUME ApprovalInv, ApprovalNext, NEW p \in Proposals,
           approval[p].decided_by # None
    PROVE  approval'[p].decided_by = approval[p].decided_by
<1> USE DEF ApprovalInv, ApprovalTypeOK, DeciderOnRecord, Written
<1>1. ASSUME NEW q \in Proposals, CreateApproval(q)
      PROVE  approval'[p].decided_by = approval[p].decided_by
  BY <1>1 DEF CreateApproval
<1>2. ASSUME NEW r \in Requests, NEW q \in Proposals, AutoApprove(r, q)
      PROVE  approval'[p].decided_by = approval[p].decided_by
  BY <1>2 DEF AutoApprove
<1>3. ASSUME NEW r \in Requests, WriteExpired(r) \/ ReportExecution(r)
      PROVE  approval'[p].decided_by = approval[p].decided_by
  <2>1. CASE WriteExpired(r)
    BY <2>1 DEF WriteExpired, OnAProposal
  <2>2. CASE ReportExecution(r) /\ request[r].kind = "execute"
    BY <2>2 DEF ReportExecution, OnAProposal
  <2>3. CASE ReportExecution(r) /\ request[r].kind # "execute"
    BY <2>3 DEF ReportExecution
  <2> QED
    BY <1>3, <2>1, <2>2, <2>3
<1>4. ASSUME NEW r \in Requests, WriteDecision(r) \/ WriteDecisionUnheard(r)
      PROVE  approval'[p].decided_by = approval[p].decided_by
  <2>1. approval[request[r].on].decided_by = None
    BY <1>4 DEF WriteDecision, WriteDecisionUnheard, EtagMatches, OnAProposal,
         SnapshotIsDocument, StagesFollowKinds
  <2> QED
    BY <1>4, <2>1 DEF WriteDecision, WriteDecisionUnheard
<1>5. ASSUME NEW r \in Requests, ExecutionRaises(r)
      PROVE  approval'[p].decided_by = approval[p].decided_by
  <2>1. CASE request[r].kind = "policy"
    <3>1. approval[request[r].on].decided_by = None
      BY <1>5, <2>1 DEF ExecutionRaises, ExecutingIsAuthorised, OnAProposal
    <3> QED
      BY <1>5, <2>1, <3>1 DEF ExecutionRaises
  <2>2. CASE request[r].kind # "policy"
    BY <1>5, <2>2 DEF ExecutionRaises
  <2> QED
    BY <2>1, <2>2
<1>6. CASE UNCHANGED approval
  BY <1>6
<1> QED
  BY <1>1, <1>2, <1>3, <1>4, <1>5, <1>6
     DEF ApprovalNext, DecisionStep, ExecutionStep, Expire, ReadForDecision,
         ReadForExecution, Judge, WriteFails, PostResponse, CreateRun,
         ResumeFails, GuardExecution, ReportExecutionFails, Crash

(* No operator, expiry, execution or fallback ever replaces a decision.     *)
THEOREM DecisionFinal == ApprovalSpec => DecisionNeverReversed
<1>1. ApprovalInv /\ [ApprovalNext]_avars =>
        [\A p \in Proposals : approval[p].decided_by # None
           => approval'[p].decided_by = approval[p].decided_by]_avars
  BY DeciderStays
<1> QED
  BY <1>1, InductiveInvariant, PTL DEF ApprovalSpec, DecisionNeverReversed

-----------------------------------------------------------------------------
(* Part two: the composition (Spec).                                        *)

(* Every step of the composition is a step of the gate, or leaves it alone. *)
LEMMA NextIsGateStep == Next => [ApprovalNext]_avars
BY DEF Next, GateStep, ExecutorStep, TaskStep, ApprovalNext, ExecutionStep,
       Report, Raise, CrashRequest, CrashTask, EmitAlert, NewIncident,
       IncidentsClosed, Sweep, Preflight, WriteAhead, IssueArm, ArmNotSent,
       ArmReturns, RecordOutcome, Verify, RollbackAhead, IssueRollback,
       RollbackNotSent, RollbackReturns, RecordRollback, FlagRolledBack,
       ReportVerdict

(* So what is proved of the gate holds of the composition.                  *)
LEMMA GateInvariant == Spec => []ApprovalInv
<1>1. Init => ApprovalInv
  BY InitEstablishes DEF Init
<1>2. ApprovalInv /\ [Next]_vars => ApprovalInv'
  BY NextIsGateStep, StepPreserves DEF vars, avars
<1> QED
  BY <1>1, <1>2, PTL DEF Spec

-----------------------------------------------------------------------------
(* The inductive invariant.                                                 *)

(* An execution that got past its pre-flight check has a mandate and keeps  *)
(* it, also when its operation is still to be sent.                         *)
Mandated(r) ==
    LET doc == approval[request[r].on] IN
    IF request[r].kind = "policy" THEN doc.status = "auto"
    ELSE doc.decided_by # None /\ request[doc.decided_by].kind = "approved"

StartedIsMandated ==
    \A r \in Requests : phase[r] # "preflight" =>
        /\ stage[r] \in {"executing", "done", "dead"}
        /\ request[r].kind \in {"execute", "policy"}
        /\ Mandated(r)

(* The ARM call and the record of an execution move with its phase.         *)
ExecutionInOrder ==
    \A r \in Requests :
        /\ phase[r] \in {"preflight", "log", "arm", "aborted"} => arm[r] = "none"
        /\ phase[r] = "wait" <=> arm[r] = "issued"
        /\ phase[r] \in {"preflight", "log", "aborted"} => wal[r] = "absent"
        /\ phase[r] \in {"arm", "wait", "record"} =>
              wal[r] \in {"absent", "pending"}
        /\ wal[r] # "absent" => verdict[r] # "undefined"

(* The ARM call and the record of a rollback move with the task, which      *)
(* exists once the execution is over, and rolls back for a reason.          *)
TaskInOrder ==
    \A r \in Requests :
        /\ check[r] # "none" => phase[r] = "returned"
        /\ check[r] \in {"none", "sleeping"} => health[r] = "unread"
        /\ check[r] \in {"none", "sleeping", "rollback", "call"} =>
              rb_arm[r] = "none"
        /\ check[r] = "wait" => rb_arm[r] = "issued"
        /\ rb_arm[r] = "issued" => check[r] \in {"wait", "dead"}
        /\ check[r] \in {"none", "sleeping", "rollback"} => rb_wal[r] = "absent"
        /\ check[r] \in {"call", "wait", "record"} =>
              rb_wal[r] \in {"absent", "pending"}
        /\ \/ check[r] \in {"rollback", "call", "wait", "record", "flag"}
           \/ rb_arm[r] # "none"
           => health[r] \in {"Unavailable", "Degraded"} /\ Reversible(r)

RemediationInv ==
    /\ RemediationTypeOK
    /\ StartedIsMandated
    /\ ExecutionInOrder
    /\ TaskInOrder
    /\ WalTellsTruth

-----------------------------------------------------------------------------
(* What the gate leaves alone.                                              *)

(* A request that has arrived never becomes another one.                    *)
LEMMA RequestFrozen ==
    ASSUME ApprovalInv, [ApprovalNext]_avars, NEW r \in Requests,
           stage[r] # "idle"
    PROVE  request'[r] = request[r] /\ stage'[r] # "idle"
<1> USE DEF ApprovalInv, ApprovalTypeOK
<1>1. ASSUME NEW s \in Requests, NEW p \in Proposals,
             NEW k \in Decision \cup {"execute"}, NEW conf \in BOOLEAN,
             Arrive(s, k, p, conf)
      PROVE  request'[r] = request[r] /\ stage'[r] # "idle"
  BY <1>1 DEF Arrive
<1>2. ASSUME NEW s \in Requests, NEW p \in Proposals, AutoApprove(s, p)
      PROVE  request'[r] = request[r] /\ stage'[r] # "idle"
  BY <1>2 DEF AutoApprove
<1>3. ASSUME NEW p \in Proposals, CreateApproval(p) \/ Expire(p)
      PROVE  request'[r] = request[r] /\ stage'[r] # "idle"
  BY <1>3 DEF CreateApproval, Expire
<1>4. ASSUME NEW s \in Requests, NEW st \in Stage \ {"idle"},
             UNCHANGED request, stage' = [stage EXCEPT ![s] = st]
      PROVE  request'[r] = request[r] /\ stage'[r] # "idle"
  BY <1>4
<1>5. ASSUME NEW s \in Requests,
             \/ Judge(s) \/ WriteExpired(s) \/ WriteDecision(s)
             \/ WriteDecisionUnheard(s) \/ WriteFails(s) \/ PostResponse(s)
             \/ CreateRun(s) \/ ResumeFails(s) \/ GuardExecution(s)
             \/ ReportExecution(s) \/ ReportExecutionFails(s)
             \/ ExecutionRaises(s) \/ Crash(s)
      PROVE  request'[r] = request[r] /\ stage'[r] # "idle"
  <2>1. /\ UNCHANGED request
        /\ \E st \in Stage \ {"idle"} : stage' = [stage EXCEPT ![s] = st]
    BY <1>5 DEF Judge, WriteExpired, WriteDecision, WriteDecisionUnheard,
                WriteFails, PostResponse, CreateRun, ResumeFails,
                GuardExecution, ReportExecution, ReportExecutionFails,
                ExecutionRaises, Crash, Goto, Answer, Stage
  <2> QED
    BY <2>1, <1>4
<1>6. CASE UNCHANGED avars
  BY <1>6 DEF avars
<1>7. CASE DecisionStep
  <2>1. ASSUME NEW s \in Requests, NEW p \in Proposals, NEW k \in Decision,
               NEW conf \in BOOLEAN, ReadForDecision(s, k, p, conf)
        PROVE  request'[r] = request[r] /\ stage'[r] # "idle"
    BY <2>1, <1>1 DEF ReadForDecision
  <2>2. ASSUME NEW s \in Requests, NEW p \in Proposals, ReadForExecution(s, p)
        PROVE  request'[r] = request[r] /\ stage'[r] # "idle"
    BY <2>2, <1>1 DEF ReadForExecution
  <2> QED
    BY <1>7, <2>1, <2>2, <1>3, <1>5 DEF DecisionStep
<1>8. CASE ExecutionStep
  BY <1>8, <1>2, <1>5 DEF ExecutionStep
<1> QED
  BY <1>6, <1>7, <1>8 DEF ApprovalNext

(* A step in which the execution of r does not raise.                       *)
StepSparing(r) ==
    \/ DecisionStep
    \/ \E s \in Requests, p \in Proposals : AutoApprove(s, p)
    \/ \E s \in Requests :
          \/ GuardExecution(s)
          \/ ReportExecution(s)
          \/ ReportExecutionFails(s)
          \/ s # r /\ ExecutionRaises(s)
          \/ Crash(s)
    \/ UNCHANGED avars

(* The executor raises only before its pre-flight check is over.            *)
LEMMA StartedIsSpared ==
    ASSUME [Next]_vars, NEW r \in Requests, phase[r] # "preflight"
    PROVE  StepSparing(r)
BY DEF StepSparing, Next, GateStep, ExecutorStep, TaskStep, Report, Raise,
       CrashRequest, CrashTask, EmitAlert, NewIncident, IncidentsClosed, Sweep,
       Preflight, WriteAhead, IssueArm, ArmNotSent, ArmReturns, RecordOutcome,
       Verify, RollbackAhead, IssueRollback, RollbackNotSent, RollbackReturns,
       RecordRollback, FlagRolledBack, ReportVerdict, vars

LEMMA SparingIsGateStep ==
    ASSUME NEW r \in Requests, StepSparing(r)
    PROVE  [ApprovalNext]_avars
BY DEF StepSparing, ApprovalNext, ExecutionStep

(* A proposal that a policy decided stays so unless the policy's own        *)
(* execution raises.                                                        *)
LEMMA AutoStays ==
    ASSUME ApprovalInv, NEW r \in Requests, StepSparing(r),
           NEW p \in Proposals, request[r].on = p,
           request[r].kind = "policy", approval[p].status = "auto"
    PROVE  approval'[p] = approval[p]
<1> USE DEF ApprovalInv, ApprovalTypeOK, Written
<1>1. ASSUME NEW q \in Proposals, CreateApproval(q)
      PROVE  approval'[p] = approval[p]
  BY <1>1 DEF CreateApproval
<1>2. ASSUME NEW s \in Requests, NEW q \in Proposals, AutoApprove(s, q)
      PROVE  approval'[p] = approval[p]
  BY <1>2 DEF AutoApprove
<1>3. ASSUME NEW s \in Requests,
             WriteExpired(s) \/ WriteDecision(s) \/ WriteDecisionUnheard(s)
      PROVE  approval'[p] = approval[p]
  <2>1. request[s].on # p
    BY <1>3 DEF WriteExpired, WriteDecision, WriteDecisionUnheard, EtagMatches,
                OnAProposal, SnapshotIsDocument
  <2> QED
    BY <1>3, <2>1 DEF WriteExpired, WriteDecision, WriteDecisionUnheard
<1>4. ASSUME NEW s \in Requests, ReportExecution(s)
      PROVE  approval'[p] = approval[p]
  <2>1. CASE request[s].kind = "execute"
    <3>1. request[s].on # p
      BY <1>4, <2>1 DEF ReportExecution, ExecutingIsAuthorised, DeciderOnRecord
    <3> QED
      BY <1>4, <2>1, <3>1 DEF ReportExecution
  <2>2. CASE request[s].kind # "execute"
    BY <1>4, <2>2 DEF ReportExecution
  <2> QED
    BY <2>1, <2>2
<1>5. ASSUME NEW s \in Requests, s # r, ExecutionRaises(s)
      PROVE  approval'[p] = approval[p]
  <2>1. CASE request[s].kind = "policy"
    <3>1. request[s].on # p
      BY <1>5, <2>1 DEF PolicyRunsOnce
    <3> QED
      BY <1>5, <2>1, <3>1 DEF ExecutionRaises
  <2>2. CASE request[s].kind # "policy"
    BY <1>5, <2>2 DEF ExecutionRaises
  <2> QED
    BY <2>1, <2>2
<1>6. CASE UNCHANGED approval
  BY <1>6
<1> QED
  BY <1>1, <1>2, <1>3, <1>4, <1>5, <1>6
     DEF StepSparing, DecisionStep, Expire, ReadForDecision,
         ReadForExecution, Judge, WriteFails, PostResponse, CreateRun,
         ResumeFails, GuardExecution, ReportExecutionFails, Crash, avars

(* A mandate outlives every step but a raise of the policy execution that   *)
(* has it.                                                                  *)
LEMMA MandateStays ==
    ASSUME ApprovalInv, NEW r \in Requests, StepSparing(r),
           stage[r] # "idle", Mandated(r)
    PROVE  Mandated(r)'
<1>0. [ApprovalNext]_avars
  BY SparingIsGateStep
<1>1. request'[r] = request[r] /\ request[r].on \in Proposals
  BY <1>0, RequestFrozen DEF ApprovalInv, OnAProposal
<1>2. CASE request[r].kind = "policy"
  <2>1. approval'[request[r].on] = approval[request[r].on]
    BY <1>1, <1>2, AutoStays DEF Mandated
  <2> QED
    BY <1>1, <1>2, <2>1 DEF Mandated
<1>3. CASE request[r].kind # "policy"
  <2> DEFINE by == approval[request[r].on].decided_by
  <2>1. by # None /\ request[by].kind = "approved"
    BY <1>3 DEF Mandated
  <2>2. by \in Requests /\ stage[by] # "idle"
    BY <1>1, <2>1 DEF ApprovalInv, ApprovalTypeOK, DeciderOnRecord
  <2>3. request'[by] = request[by]
    BY <1>0, <2>2, RequestFrozen
  <2>4. approval'[request[r].on].decided_by = by
    BY <1>0, <1>1, <2>1, DeciderStays DEF avars
  <2> QED
    BY <1>1, <1>3, <2>1, <2>3, <2>4 DEF Mandated
<1> QED
  BY <1>2, <1>3

(* An execution that was let in ends, but never goes back.                  *)
LEMMA StartedStays ==
    ASSUME ApprovalInv, [ApprovalNext]_avars, NEW r \in Requests,
           stage[r] \in {"executing", "done", "dead"}
    PROVE  stage'[r] \in {"executing", "done", "dead"}
(* A stage is written only by its own request, and executing is left for    *)
(* done or dead.                                                            *)
<1>0. stage \in [Requests -> Stage]
  BY DEF ApprovalInv, ApprovalTypeOK
<1>1. ASSUME NEW q \in Requests, NEW st, stage' = [stage EXCEPT ![q] = st],
             q # r \/ st \in {"done", "dead"}
      PROVE  stage'[r] \in {"executing", "done", "dead"}
  BY <1>0, <1>1
<1>2. CASE UNCHANGED stage
  BY <1>2
<1>3. ASSUME NEW q \in Requests, NEW p \in Proposals, NEW k, NEW conf, Arrive(q, k, p, conf)
      PROVE  stage'[r] \in {"executing", "done", "dead"}
  <2>1. q # r /\ \E st : stage' = [stage EXCEPT ![q] = st]
    BY <1>3 DEF Arrive
  <2> QED BY <1>1, <2>1
<1>4. ASSUME NEW q \in Requests, NEW p \in Proposals, AutoApprove(q, p)
      PROVE  stage'[r] \in {"executing", "done", "dead"}
  <2>1. q # r /\ \E st : stage' = [stage EXCEPT ![q] = st]
    BY <1>4 DEF AutoApprove
  <2> QED BY <1>1, <2>1
<1>5. ASSUME NEW q \in Requests,
             Judge(q) \/ WriteExpired(q) \/ WriteDecision(q) \/ WriteDecisionUnheard(q)
             \/ WriteFails(q) \/ PostResponse(q) \/ CreateRun(q) \/ ResumeFails(q)
             \/ GuardExecution(q)
      PROVE  stage'[r] \in {"executing", "done", "dead"}
  <2>1. q # r
    BY <1>5 DEF Judge, WriteExpired, WriteDecision, WriteDecisionUnheard, WriteFails,
                PostResponse, CreateRun, ResumeFails, GuardExecution
  <2>2. \E st : stage' = [stage EXCEPT ![q] = st]
    BY <1>5 DEF Judge, WriteExpired, WriteDecision, WriteDecisionUnheard, WriteFails,
                PostResponse, CreateRun, ResumeFails, GuardExecution, Goto, Answer
  <2> QED BY <1>1, <2>1, <2>2
<1>6. ASSUME NEW q \in Requests,
             ReportExecution(q) \/ ReportExecutionFails(q) \/ ExecutionRaises(q) \/ Crash(q)
      PROVE  stage'[r] \in {"executing", "done", "dead"}
  <2>1. \E st \in {"done", "dead"} : stage' = [stage EXCEPT ![q] = st]
    BY <1>6 DEF ReportExecution, ReportExecutionFails, ExecutionRaises, Crash, Goto, Answer
  <2> QED BY <1>1, <2>1
<1>7. ASSUME NEW p \in Proposals, CreateApproval(p) \/ Expire(p) PROVE UNCHANGED stage
  BY <1>7 DEF CreateApproval, Expire
<1> QED
  BY <1>2, <1>3, <1>4, <1>5, <1>6, <1>7
     DEF ApprovalNext, DecisionStep, ExecutionStep, ReadForDecision, ReadForExecution, avars

LEMMA StartedPreserved ==
    ASSUME ApprovalInv, RemediationInv, [Next]_vars
    PROVE  StartedIsMandated'
<1> SUFFICES ASSUME NEW r \in Requests, phase'[r] # "preflight"
             PROVE  /\ stage'[r] \in {"executing", "done", "dead"}
                    /\ request'[r].kind \in {"execute", "policy"}
                    /\ Mandated(r)'
  BY DEF StartedIsMandated, Mandated
<1>1. CASE phase[r] # "preflight"
  <2>1. stage[r] \in {"executing", "done", "dead"} /\ Mandated(r)
    BY <1>1 DEF RemediationInv, StartedIsMandated
  <2>2. StepSparing(r) /\ [ApprovalNext]_avars
    BY <1>1, StartedIsSpared, SparingIsGateStep
  <2>3. request'[r] = request[r]
    BY <2>1, <2>2, RequestFrozen
  <2> QED
    BY <1>1, <2>1, <2>2, <2>3, StartedStays, MandateStays
       DEF RemediationInv, StartedIsMandated
<1>2. CASE phase[r] = "preflight"
  <2>1. Preflight(r)
    <3>1. phase' # phase
      BY <1>2
    <3>2. PICK s \in Requests : ExecutorStep(s)
      BY <3>1 DEF Next, GateStep, TaskStep, Report, Raise, CrashRequest,
         CrashTask, EmitAlert, NewIncident, IncidentsClosed, Sweep, Verify,
         RollbackAhead, IssueRollback, RollbackNotSent, RollbackReturns,
         RecordRollback, FlagRolledBack, ReportVerdict, vars, rvars
    <3>3. \E ph \in Phase : phase' = [phase EXCEPT ![s] = ph]
      BY <3>2 DEF ExecutorStep, Preflight, WriteAhead, IssueArm, ArmNotSent,
         ArmReturns, RecordOutcome, Enter, Phase
    <3>4. s = r
      BY <1>2, <3>3 DEF RemediationInv, RemediationTypeOK
    <3> QED
      BY <1>2, <3>2, <3>4 DEF ExecutorStep, WriteAhead, IssueArm, ArmNotSent,
         ArmReturns, RecordOutcome, Executing
  <2>2. stage[r] = "executing" /\ UNCHANGED avars
    BY <2>1 DEF Preflight, Executing
  <2> QED
    BY <2>2 DEF avars, Mandated, ApprovalInv, ExecutingIsAuthorised,
       StagesFollowKinds, DeciderOnRecord, OnAProposal
<1> QED
  BY <1>1, <1>2

-----------------------------------------------------------------------------
(* The executor, the task and the loops preserve the order of things.       *)

InOrder ==
    RemediationTypeOK /\ ExecutionInOrder /\ TaskInOrder /\ WalTellsTruth

LEMMA ExecutorInOrder ==
    ASSUME InOrder, NEW r \in Requests, ExecutorStep(r)
    PROVE  InOrder'
<1> USE DEF InOrder, RemediationTypeOK, ExecutionInOrder, TaskInOrder,
            WalTellsTruth, Executing, Enter, Phase, Outcome, Seen, WalStatus
<1>0. UNCHANGED avars
  BY DEF ExecutorStep, Preflight, WriteAhead, IssueArm, ArmNotSent, ArmReturns,
         RecordOutcome
<1>r. \A s \in Requests : Reversible(s)' <=> Reversible(s)
  BY <1>0 DEF avars, Reversible, Action
<1>1. CASE Preflight(r)
  BY <1>1, <1>r DEF Preflight
<1>2. CASE WriteAhead(r)
  BY <1>2, <1>r DEF WriteAhead
<1>3. CASE IssueArm(r)
  BY <1>3, <1>r DEF IssueArm
<1>4. CASE ArmNotSent(r)
  BY <1>4, <1>r DEF ArmNotSent
<1>5. CASE ArmReturns(r)
  BY <1>5, <1>r DEF ArmReturns
<1>6. CASE RecordOutcome(r)
  BY <1>6, <1>r DEF RecordOutcome, Update, OutcomeStatus, NotRaised, Proceed, Check
<1> QED
  BY <1>1, <1>2, <1>3, <1>4, <1>5, <1>6 DEF ExecutorStep

LEMMA ClassifyIsClass ==
    ASSUME NEW h \in Health
    PROVE  /\ Classify(h, "Unknown") \in Class
           /\ Classify(h, "Unknown") = "DEGRADED"
                <=> h \in {"Unavailable", "Degraded"}
BY DEF Classify, Class, Health

LEMMA TaskStepInOrder ==
    ASSUME InOrder, NEW r \in Requests, TaskStep(r)
    PROVE  InOrder'
<1> USE DEF InOrder, RemediationTypeOK, ExecutionInOrder, TaskInOrder,
            WalTellsTruth, Proceed, Check, Outcome, Seen, WalStatus
<1>0. UNCHANGED avars
  BY DEF TaskStep, Verify, RollbackAhead, IssueRollback, RollbackNotSent,
         RollbackReturns, RecordRollback, FlagRolledBack, ReportVerdict
<1>r. \A s \in Requests : Reversible(s)' <=> Reversible(s)
  BY <1>0 DEF avars, Reversible, Action
<1>1. CASE Verify(r)
  <2>a. PICK h \in Health :
          /\ health' = [health EXCEPT ![r] = h]
          /\ \/ verdict' = IF wal[r] = "absent" THEN verdict
                           ELSE [verdict EXCEPT ![r] = Classify(h, "Unknown")]
             \/ CosmosFaults /\ UNCHANGED verdict
          /\ check' = [check EXCEPT ![r] =
                         IF Classify(h, "Unknown") = "DEGRADED" /\ Reversible(r)
                         THEN "rollback" ELSE "report"]
    BY <1>1 DEF Verify
  <2>b. Classify(h, "Unknown") = "DEGRADED" <=> h \in {"Unavailable", "Degraded"}
    BY ClassifyIsClass
  <2>1. /\ health' = [health EXCEPT ![r] = h]
        /\ verdict' \in {verdict, [verdict EXCEPT ![r] = Classify(h, "Unknown")]}
        /\ check' = [check EXCEPT ![r] =
                       IF h \in {"Unavailable", "Degraded"} /\ Reversible(r)
                       THEN "rollback" ELSE "report"]
    BY <2>a, <2>b
  <2>2. Classify(h, "Unknown") \in Class
    BY ClassifyIsClass
  <2>3. check[r] = "sleeping"
        /\ UNCHANGED <<phase, arm, wal, rolled_back, rb_wal, rb_arm, fresh, alerts>>
    BY <1>1 DEF Verify
  <2> HIDE DEF Health, Class
  <2>4. RemediationTypeOK'
    BY <2>1, <2>2, <2>3
  <2>5. ExecutionInOrder'
    BY <2>1, <2>2, <2>3 DEF Class
  <2>6. TaskInOrder'
    BY <2>1, <2>3, <1>r DEF Health
  <2>7. WalTellsTruth'
    BY <2>3
  <2> QED
    BY <2>4, <2>5, <2>6, <2>7
<1>2. CASE RollbackAhead(r)
  BY <1>2, <1>r DEF RollbackAhead
<1>3. CASE IssueRollback(r)
  BY <1>3, <1>r DEF IssueRollback
<1>4. CASE RollbackNotSent(r)
  BY <1>4, <1>r DEF RollbackNotSent
<1>5. CASE RollbackReturns(r)
  BY <1>5, <1>r DEF RollbackReturns
<1>6. CASE RecordRollback(r)
  BY <1>6, <1>r DEF RecordRollback, Update, OutcomeStatus, NotRaised
<1>7. CASE FlagRolledBack(r)
  <2>1. rolled_back' \in [Requests -> BOOLEAN]
    <3>1. rolled_back' \in {rolled_back, [rolled_back EXCEPT ![r] = TRUE]}
      BY <1>7 DEF FlagRolledBack
    <3>2. rolled_back \in [Requests -> BOOLEAN]
      OBVIOUS
    <3> HIDE DEF InOrder, RemediationTypeOK, ExecutionInOrder, TaskInOrder,
                 WalTellsTruth
    <3>3. [rolled_back EXCEPT ![r] = TRUE] \in [Requests -> BOOLEAN]
      BY <3>2, Zenon
    <3> QED
      BY <3>1, <3>2, <3>3
  <2>2. /\ check[r] = "flag" /\ check' = [check EXCEPT ![r] = "report"]
        /\ UNCHANGED <<avars, phase, arm, wal, verdict, health, rb_wal, rb_arm,
                       fresh, alerts>>
    BY <1>7 DEF FlagRolledBack
  <2> QED
    BY <2>1, <2>2, <1>r
<1>8. CASE ReportVerdict(r)
  BY <1>8, <1>r DEF ReportVerdict
<1> QED
  BY <1>1, <1>2, <1>3, <1>4, <1>5, <1>6, <1>7, <1>8 DEF TaskStep

(* What the rest of the system does leaves executions and tasks in order.   *)
LEMMA OthersInOrder ==
    ASSUME ApprovalInv, StartedIsMandated, InOrder, [Next]_vars,
           ~\E r \in Requests : ExecutorStep(r) \/ TaskStep(r)
    PROVE  InOrder'
<1> USE DEF InOrder, RemediationTypeOK, ExecutionInOrder, TaskInOrder,
            WalTellsTruth
<1>r. ASSUME NEW r \in Requests, phase[r] = "returned"
      PROVE  Reversible(r)' <=> Reversible(r)
  <2>1. stage[r] # "idle"
    BY <1>r DEF StartedIsMandated
  <2>2. request'[r] = request[r]
    BY <2>1, RequestFrozen, NextIsGateStep DEF vars, avars
  <2> QED
    BY <2>2 DEF Reversible, Action
<1>1. CASE UNCHANGED rvars
  BY <1>1, <1>r DEF rvars
<1>2. ASSUME NEW r \in Requests, CrashRequest(r) \/ CrashTask(r)
      PROVE  InOrder'
  BY <1>2, <1>r DEF CrashRequest, CrashTask, Proceed, Check
<1>3. ASSUME NEW r \in Requests, NEW k \in {"execute", "rollback"},
             EmitAlert(r, k)
      PROVE  InOrder'
  BY <1>3, <1>r DEF EmitAlert, Outdated
<1>4. ASSUME NEW p \in Proposals, NewIncident(p) \/ IncidentsClosed(p)
      PROVE  InOrder'
  BY <1>4, <1>r DEF NewIncident, IncidentsClosed, Outdated
<1>5. ASSUME NEW r \in Requests, Raise(r)
      PROVE  InOrder'
  BY <1>5, <1>r DEF Raise
<1>6. ASSUME Sweep
      PROVE  InOrder'
  <2>1. Missed = {}
    BY DEF Missed
  <2>2. check' = check
    BY <1>6, <2>1 DEF Sweep
  <2> QED
    BY <1>6, <2>2, <1>r DEF Sweep
<1>7. CASE GateStep \/ (\E r \in Requests : Report(r)) \/ UNCHANGED vars
  BY <1>1, <1>7 DEF GateStep, Report, vars
<1> QED
  BY <1>2, <1>3, <1>4, <1>5, <1>6, <1>7 DEF Next

LEMMA RemediationInvStep ==
    ASSUME ApprovalInv, RemediationInv, [Next]_vars
    PROVE  RemediationInv'
<1>1. InOrder /\ StartedIsMandated
  BY DEF RemediationInv, InOrder
<1>2. InOrder'
  BY <1>1, ExecutorInOrder, TaskStepInOrder, OthersInOrder
<1> QED
  BY <1>2, StartedPreserved DEF RemediationInv, InOrder

LEMMA RemediationInvInit == Init => RemediationInv
BY DEF Init, RemediationInit, RemediationInv, RemediationTypeOK,
       StartedIsMandated, ExecutionInOrder, TaskInOrder, WalTellsTruth, Phase,
       Outcome, Seen, WalStatus, Check

(* The inductive invariant of the composition.                              *)
THEOREM RemediationInvariant == Spec => []RemediationInv
BY RemediationInvInit, RemediationInvStep, GateInvariant, PTL DEF Spec

-----------------------------------------------------------------------------
(* Executor, tasks and loops keep their types.                              *)
THEOREM RemediationTypes == Spec => []RemediationTypeOK
<1>1. RemediationInv => RemediationTypeOK
  BY DEF RemediationInv
<1> QED
  BY <1>1, RemediationInvariant, PTL

(* No ARM operation without a mandate that lasts.                           *)
THEOREM ArmAuthorised == Spec => []ArmIsAuthorised
<1>1. RemediationInv => ArmIsAuthorised
  BY DEF RemediationInv, StartedIsMandated, ExecutionInOrder, Mandated,
         ArmIsAuthorised
<1> QED
  BY <1>1, RemediationInvariant, PTL

(* With and without faults, a record tells what the poller saw.             *)
THEOREM WalIsTrue == Spec => []WalTellsTruth
<1>1. RemediationInv => WalTellsTruth
  BY DEF RemediationInv
<1> QED
  BY <1>1, RemediationInvariant, PTL

(* Rollbacks have their reason, whatever the actions of the proposals are.  *)
THEOREM RollbacksJustified == Spec => []RollbackJustified
<1>1. RemediationInv => RollbackJustified
  BY DEF RemediationInv, RemediationTypeOK, ExecutionInOrder, TaskInOrder,
         RollbackJustified
<1> QED
  BY <1>1, RemediationInvariant, PTL

-----------------------------------------------------------------------------
(* Requests that come too late.                                             *)

(* Nothing executes, approves or decides such a document any more.          *)
Settled(p) == approval[p].status \in {"executed", "expired", "rejected"}

(* No late decision, report or fallback makes a settled document pending or *)
(* approved again.                                                          *)
LEMMA SettledStays ==
    ASSUME ApprovalInv, [ApprovalNext]_avars, NEW p \in Proposals, Settled(p)
    PROVE  Settled(p)'
<1> USE DEF ApprovalInv, ApprovalTypeOK, Settled, Written
<1>1. ASSUME NEW q \in Proposals, CreateApproval(q)
      PROVE  Settled(p)'
  BY <1>1 DEF CreateApproval
<1>2. ASSUME NEW r \in Requests, NEW q \in Proposals, AutoApprove(r, q)
      PROVE  Settled(p)'
  BY <1>2 DEF AutoApprove
<1>3. ASSUME NEW r \in Requests, WriteExpired(r)
      PROVE  Settled(p)'
  BY <1>3 DEF WriteExpired, OnAProposal
<1>4. ASSUME NEW r \in Requests, ReportExecution(r)
      PROVE  Settled(p)'
  <2>1. CASE request[r].kind = "execute"
    BY <1>4, <2>1 DEF ReportExecution, OnAProposal
  <2>2. CASE request[r].kind # "execute"
    BY <1>4, <2>2 DEF ReportExecution
  <2> QED
    BY <2>1, <2>2
<1>5. ASSUME NEW r \in Requests, WriteDecision(r) \/ WriteDecisionUnheard(r)
      PROVE  Settled(p)'
  <2>1. request[r].on # p
    BY <1>5 DEF WriteDecision, WriteDecisionUnheard, EtagMatches,
         SnapshotIsDocument, StagesFollowKinds
  <2> QED
    BY <1>5, <2>1 DEF WriteDecision, WriteDecisionUnheard
<1>6. ASSUME NEW r \in Requests, ExecutionRaises(r)
      PROVE  Settled(p)'
  <2>1. CASE request[r].kind = "policy"
    <3>1. request[r].on # p
      BY <1>6, <2>1 DEF ExecutionRaises, ExecutingIsAuthorised
    <3> QED
      BY <1>6, <2>1, <3>1 DEF ExecutionRaises
  <2>2. CASE request[r].kind # "policy"
    BY <1>6, <2>2 DEF ExecutionRaises
  <2> QED
    BY <2>1, <2>2
<1>7. CASE UNCHANGED approval
  BY <1>7
<1> QED
  BY <1>1, <1>2, <1>3, <1>4, <1>5, <1>6, <1>7
     DEF ApprovalNext, DecisionStep, ExecutionStep, Expire, ReadForDecision,
         ReadForExecution, Judge, WriteFails, PostResponse, CreateRun,
         ResumeFails, GuardExecution, ReportExecutionFails, Crash, avars

(* A request that is still to come, is about another proposal, or has read  *)
(* that p is settled and so will not pass the guard.                        *)
TooLate(r, p) ==
    /\ Settled(p)
    /\ \/ stage[r] = "idle"
       \/ request[r].on # p
       \/ /\ stage[r] # "executing"
          /\ stage[r] = "read" => request[r].seen # "approved"

LEMMA LateStays ==
    ASSUME ApprovalInv, [ApprovalNext]_avars,
           NEW r \in Requests, NEW p \in Proposals, TooLate(r, p)
    PROVE  TooLate(r, p)'
<1> USE DEF ApprovalInv, ApprovalTypeOK
<1>1. Settled(p)'
  BY SettledStays DEF TooLate
<1>2. CASE stage[r] # "idle" /\ request[r].on # p
  BY <1>1, <1>2, RequestFrozen DEF TooLate
<1>3. CASE stage[r] = "idle" \/ request[r].on = p
  <2>1. ASSUME NEW s \in Requests, NEW q \in Proposals,
               NEW k \in Decision \cup {"execute"}, NEW conf \in BOOLEAN,
               Arrive(s, k, q, conf)
        PROVE  TooLate(r, p)'
    BY <2>1, <1>1 DEF Arrive, TooLate, Settled
  <2>2. ASSUME NEW s \in Requests, NEW q \in Proposals, AutoApprove(s, q)
        PROVE  TooLate(r, p)'
    BY <2>2, <1>1 DEF AutoApprove, TooLate, Settled
  <2>3. ASSUME NEW s \in Requests, GuardExecution(s)
        PROVE  TooLate(r, p)'
    BY <2>3, <1>1 DEF GuardExecution, Goto, Answer, TooLate
  <2>4. ASSUME NEW s \in Requests, NEW st \in Stage \ {"idle", "read", "executing"},
               UNCHANGED request, stage' = [stage EXCEPT ![s] = st]
        PROVE  TooLate(r, p)'
    BY <2>4, <1>1 DEF TooLate
  <2>5. ASSUME NEW s \in Requests,
               \/ Judge(s) \/ WriteExpired(s) \/ WriteDecision(s)
               \/ WriteDecisionUnheard(s) \/ WriteFails(s) \/ PostResponse(s)
               \/ CreateRun(s) \/ ResumeFails(s) \/ ReportExecution(s)
               \/ ReportExecutionFails(s) \/ ExecutionRaises(s) \/ Crash(s)
        PROVE  TooLate(r, p)'
    <3>1. /\ UNCHANGED request
          /\ \E st \in Stage \ {"idle", "read", "executing"} :
                stage' = [stage EXCEPT ![s] = st]
      BY <2>5 DEF Judge, WriteExpired, WriteDecision, WriteDecisionUnheard,
                  WriteFails, PostResponse, CreateRun, ResumeFails,
                  ReportExecution, ReportExecutionFails, ExecutionRaises,
                  Crash, Goto, Answer, Stage
    <3> QED
      BY <3>1, <2>4
  <2>6. CASE UNCHANGED <<request, stage>>
    BY <2>6, <1>1 DEF TooLate
  <2>7. CASE DecisionStep
    <3>1. ASSUME NEW s \in Requests, NEW q \in Proposals, NEW k \in Decision,
                 NEW conf \in BOOLEAN, ReadForDecision(s, k, q, conf)
          PROVE  TooLate(r, p)'
      BY <3>1, <2>1 DEF ReadForDecision
    <3>2. ASSUME NEW s \in Requests, NEW q \in Proposals, ReadForExecution(s, q)
          PROVE  TooLate(r, p)'
      BY <3>2, <2>1 DEF ReadForExecution
    <3>3. ASSUME NEW q \in Proposals, CreateApproval(q) \/ Expire(q)
          PROVE  TooLate(r, p)'
      BY <3>3, <2>6 DEF CreateApproval, Expire
    <3> QED
      BY <2>7, <3>1, <3>2, <3>3, <2>5 DEF DecisionStep
  <2>8. CASE ExecutionStep
    BY <2>8, <2>2, <2>3, <2>5 DEF ExecutionStep
  <2> QED
    BY <2>6, <2>7, <2>8 DEF ApprovalNext, avars
<1> QED
  BY <1>2, <1>3

(* ... and has not begun to execute either.                                 *)
TooLateToStart(r, p) ==
    /\ TooLate(r, p)
    /\ stage[r] = "idle" \/ request[r].on = p => phase[r] = "preflight"

LEMMA LateStartStays ==
    ASSUME ApprovalInv, RemediationInv, [Next]_vars,
           NEW r \in Requests, NEW p \in Proposals, TooLateToStart(r, p)
    PROVE  TooLateToStart(r, p)'
<1>0. [ApprovalNext]_avars
  BY NextIsGateStep DEF vars
<1>1. TooLate(r, p)'
  BY <1>0, LateStays DEF TooLateToStart
<1>2. CASE stage[r] # "idle" /\ request[r].on # p
  BY <1>0, <1>1, <1>2, RequestFrozen DEF TooLateToStart
<1>3. CASE stage[r] = "idle" \/ request[r].on = p
  <2>1. stage[r] # "executing" /\ phase[r] = "preflight"
    BY <1>3 DEF TooLateToStart, TooLate
  <2>2. ASSUME NEW s \in Requests, ExecutorStep(s)
        PROVE  phase'[r] = phase[r]
    <3>1. r # s /\ \E ph \in Phase : phase' = [phase EXCEPT ![s] = ph]
      BY <2>1, <2>2 DEF ExecutorStep, Executing, Enter, Phase, Preflight,
           WriteAhead, IssueArm, ArmNotSent, ArmReturns, RecordOutcome
    <3> QED
      BY <3>1 DEF RemediationInv, RemediationTypeOK
  <2>3. (\A s \in Requests : ~ExecutorStep(s)) => phase' = phase
    BY DEF Next, GateStep, TaskStep, Report, Raise, CrashRequest, CrashTask,
         EmitAlert, NewIncident, IncidentsClosed, Sweep, Verify, RollbackAhead,
         IssueRollback, RollbackNotSent, RollbackReturns, RecordRollback,
         FlagRolledBack, ReportVerdict, vars, rvars
  <2> QED
    BY <1>1, <2>1, <2>2, <2>3 DEF TooLateToStart
<1> QED
  BY <1>2, <1>3

(* Once a document says executed, expired or rejected, no request that      *)
(* arrives afterwards sends an operation for it.  An operation is sent a     *)
(* second time only by requests that overlap, or when the first has not     *)
(* left its mark: the patch failed, or the worker died before it.           *)
THEOREM NothingSentLate ==
    ASSUME NEW r \in Requests, NEW p \in Proposals
    PROVE  Spec => [](stage[r] = "idle" /\ Settled(p)
                        => [](request[r].on = p => arm[r] = "none"))
<1>1. RemediationInv /\ stage[r] = "idle" /\ Settled(p) => TooLateToStart(r, p)
  BY DEF RemediationInv, StartedIsMandated, TooLateToStart, TooLate
<1>2. ApprovalInv /\ RemediationInv /\ TooLateToStart(r, p) /\ [Next]_vars
        => TooLateToStart(r, p)'
  BY LateStartStays
<1>3. RemediationInv /\ TooLateToStart(r, p)
        => (request[r].on = p => arm[r] = "none")
  BY DEF RemediationInv, ExecutionInOrder, TooLateToStart
<1> QED
  BY <1>1, <1>2, <1>3, GateInvariant, RemediationInvariant, PTL DEF Spec

-----------------------------------------------------------------------------
(* Two branches of the code that are never taken.                           *)

(* _delayed_verify does not know the health before the execution, so no     *)
(* record is ever classified RESOLVED and no incident resolved by it.       *)
THEOREM NeverResolved == Spec => [](\A r \in Requests : verdict[r] # "RESOLVED")
<1> DEFINE Unresolved == \A r \in Requests : verdict[r] # "RESOLVED"
<1>1. Init => Unresolved
  BY DEF Init, RemediationInit
<1>2. RemediationInv /\ Unresolved /\ [Next]_vars => Unresolved'
  <2> SUFFICES ASSUME RemediationInv, Unresolved, [Next]_vars PROVE Unresolved'
    OBVIOUS
  <2>0. verdict \in [Requests -> Class \cup {"undefined", "null"}]
    BY DEF RemediationInv, RemediationTypeOK
  <2>1. ASSUME NEW s \in Requests, WriteAhead(s)
        PROVE  Unresolved'
    BY <2>0, <2>1 DEF WriteAhead
  <2>2. ASSUME NEW s \in Requests, Verify(s)
        PROVE  Unresolved'
    <3>1. PICK h \in Health :
              verdict' = verdict \/ verdict' = [verdict EXCEPT ![s] = Classify(h, "Unknown")]
      BY <2>2 DEF Verify
    <3>2. Classify(h, "Unknown") # "RESOLVED"
      BY DEF Classify
    <3> QED
      BY <2>0, <3>1, <3>2
  <2>3. verdict' = verdict \/ \E s \in Requests : WriteAhead(s) \/ Verify(s)
    BY DEF Next, GateStep, ExecutorStep, TaskStep, Report, Raise, CrashRequest,
         CrashTask, EmitAlert, NewIncident, IncidentsClosed, Sweep, Preflight,
         IssueArm, ArmNotSent, ArmReturns, RecordOutcome, RollbackAhead,
         IssueRollback, RollbackNotSent, RollbackReturns, RecordRollback,
         FlagRolledBack, ReportVerdict, vars, rvars
  <2> QED
    BY <2>1, <2>2, <2>3
<1> QED
  BY <1>1, <1>2, RemediationInvariant, PTL DEF Spec

(* A record has a verification_result from its first write on, so the       *)
(* sweep of a starting worker, which looks for records without one, finds   *)
(* none, whatever was missed.                                               *)
THEOREM SweepFindsNothing == Spec => [](Missed = {})
<1>1. RemediationInv => Missed = {}
  BY DEF RemediationInv, ExecutionInOrder, Missed
<1> QED
  BY <1>1, RemediationInvariant, PTL

-----------------------------------------------------------------------------
(* Write-ahead, when Cosmos answers.                                        *)

(* A record is there from before the call until for ever, pending while     *)
(* the outcome is not known.                                                *)
LoggedAhead ==
    /\ WriteAheadHolds
    /\ \A r \in Requests :
          /\ phase[r] \in {"arm", "wait"} => wal[r] = "pending"
          /\ phase[r] \in {"record", "returned"} => wal[r] # "absent"
          /\ check[r] \in {"call", "wait"} => rb_wal[r] = "pending"
          /\ check[r] \in {"record", "flag"} => rb_wal[r] # "absent"

LEMMA LoggedAheadStep ==
    ASSUME RemediationInv, LoggedAhead, ~CosmosFaults, [Next]_vars
    PROVE  LoggedAhead'
<1> USE DEF RemediationInv, RemediationTypeOK, LoggedAhead, WriteAheadHolds,
            ExecutionInOrder, TaskInOrder, Enter, Executing, Proceed
<1>1. ASSUME NEW r \in Requests, ExecutorStep(r)
      PROVE  LoggedAhead'
  <2>1. CASE Preflight(r)
    BY <2>1 DEF Preflight
  <2>2. CASE WriteAhead(r)
    BY <2>2 DEF WriteAhead
  <2>3. CASE IssueArm(r)
    BY <2>3 DEF IssueArm
  <2>4. CASE ArmNotSent(r)
    BY <2>4 DEF ArmNotSent
  <2>5. CASE ArmReturns(r)
    BY <2>5 DEF ArmReturns, Seen
  <2>6. CASE RecordOutcome(r)
    BY <2>6 DEF RecordOutcome, Update, OutcomeStatus, NotRaised
  <2> QED
    BY <1>1, <2>1, <2>2, <2>3, <2>4, <2>5, <2>6 DEF ExecutorStep
<1>2. ASSUME NEW r \in Requests, TaskStep(r)
      PROVE  LoggedAhead'
  <2>1. CASE Verify(r)
    BY <2>1 DEF Verify
  <2>2. CASE RollbackAhead(r)
    BY <2>2 DEF RollbackAhead
  <2>3. CASE IssueRollback(r)
    BY <2>3 DEF IssueRollback
  <2>4. CASE RollbackNotSent(r)
    BY <2>4 DEF RollbackNotSent
  <2>5. CASE RollbackReturns(r)
    BY <2>5 DEF RollbackReturns, Seen
  <2>6. CASE RecordRollback(r)
    BY <2>6 DEF RecordRollback, Update, OutcomeStatus, NotRaised
  <2>7. CASE FlagRolledBack(r)
    BY <2>7 DEF FlagRolledBack
  <2>8. CASE ReportVerdict(r)
    BY <2>8 DEF ReportVerdict
  <2> QED
    BY <1>2, <2>1, <2>2, <2>3, <2>4, <2>5, <2>6, <2>7, <2>8 DEF TaskStep
<1>3. ASSUME NEW r \in Requests, CrashRequest(r) \/ CrashTask(r)
      PROVE  LoggedAhead'
  BY <1>3 DEF CrashRequest, CrashTask
<1>4. CASE Sweep
  <2>1. Missed = {}
    BY DEF Missed
  <2>2. check' = check
    BY <1>4, <2>1 DEF Sweep
  <2> QED
    BY <1>4, <2>2 DEF Sweep
<1>5. CASE UNCHANGED <<phase, arm, wal, check, rb_wal, rb_arm>>
  BY <1>5
<1> QED
  BY <1>1, <1>2, <1>3, <1>4, <1>5
     DEF Next, GateStep, Report, Raise, EmitAlert, NewIncident,
         IncidentsClosed, vars, rvars

(* REMEDI-011, as long as Cosmos answers: a record before every operation,  *)
(* of rollbacks too, and pending until the outcome is known.                *)
THEOREM LoggedBeforeSent == ~CosmosFaults => (Spec => []WriteAheadHolds)
<1> SUFFICES ASSUME ~CosmosFaults
             PROVE  Spec => []WriteAheadHolds
  OBVIOUS
<1>1. Init => LoggedAhead
  BY DEF Init, RemediationInit, LoggedAhead, WriteAheadHolds
<1>2. RemediationInv /\ LoggedAhead /\ [Next]_vars => LoggedAhead'
  BY LoggedAheadStep
<1>3. LoggedAhead => WriteAheadHolds
  BY DEF LoggedAhead
<1> QED
  BY <1>1, <1>2, <1>3, RemediationInvariant, PTL DEF Spec

-----------------------------------------------------------------------------
(* The composition implements RemediationContract.                          *)

LEMMA ContractInitially == Init => Promise!ContractInit
BY DEF Init, ApprovalInit, RemediationInit, Promise!ContractInit, Decisions,
       DecisionOn, ActedOn, Judgements, Undone

(* A decision changes only when the document gets a decider, or passes to   *)
(* or from a policy.                                                        *)
LEMMA DecisionKept ==
    ASSUME ApprovalInv, [ApprovalNext]_avars, NEW p \in Proposals,
           approval'[p].decided_by = approval[p].decided_by,
           approval'[p].status = "auto" <=> approval[p].status = "auto"
    PROVE  DecisionOn(p)' = DecisionOn(p)
<1> DEFINE by == approval[p].decided_by
<1>1. CASE by = None
  BY <1>1 DEF DecisionOn
<1>2. CASE by # None
  <2>1. by \in Requests /\ stage[by] # "idle"
    BY <1>2 DEF ApprovalInv, ApprovalTypeOK, DeciderOnRecord
  <2>2. request'[by] = request[by]
    BY <2>1, RequestFrozen
  <2> QED
    BY <1>2, <2>2 DEF DecisionOn
<1> QED
  BY <1>1, <1>2

(* The other three variables of the contract do not see steps of the gate.  *)
LEMMA GateInvisible ==
    ASSUME ApprovalInv, RemediationInv, [ApprovalNext]_avars,
           UNCHANGED <<arm, health, rb_arm>>
    PROVE  UNCHANGED <<ActedOn, Judgements, Undone>>
<1>1. ASSUME NEW r \in Requests, arm[r] # "none"
      PROVE  request'[r] = request[r]
  <2>1. stage[r] # "idle"
    BY <1>1 DEF RemediationInv, ExecutionInOrder, StartedIsMandated
  <2> QED
    BY <2>1, RequestFrozen
<1>2. ActedOn' = ActedOn
  BY <1>1 DEF ActedOn
<1>3. Judgements' = Judgements
  BY DEF Judgements
<1>4. Undone' = Undone
  BY DEF Undone
<1> QED
  BY <1>2, <1>3, <1>4

(* A mandate is a decision in favour.                                       *)
LEMMA MandateIsInFavour ==
    ASSUME ApprovalInv, RemediationInv, NEW r \in Requests,
           phase[r] # "preflight"
    PROVE  /\ request[r].on \in Proposals
           /\ Decisions[request[r].on] \in Promise!InFavour
<1>1. /\ stage[r] # "idle"
      /\ request[r].kind \in {"execute", "policy"}
      /\ Mandated(r)
  BY DEF RemediationInv, StartedIsMandated
<1>2. request[r].on \in Proposals
  BY <1>1 DEF ApprovalInv, OnAProposal
<1>3. DecisionOn(request[r].on) \in {"approved", "policy"}
  BY <1>1, <1>2 DEF Mandated, DecisionOn, ApprovalInv, DeciderOnRecord
<1> QED
  BY <1>2, <1>3 DEF Decisions, Promise!InFavour

(* A step of the gate decides one proposal, withdraws a policy's decision,  *)
(* or leaves all decisions as they are.                                     *)
LEMMA GateDecides ==
    ASSUME ApprovalInv, DecisionStep
    PROVE  \/ Decisions' = Decisions
           \/ \E p \in Proposals, d \in Decision :
                 /\ Decisions[p] = "none"
                 /\ Decisions' = [Decisions EXCEPT ![p] = d]
<1> USE DEF ApprovalInv, ApprovalTypeOK, Written
<1>0. [ApprovalNext]_avars
  BY DEF ApprovalNext
<1>1. ASSUME NEW q \in Proposals, CreateApproval(q)
      PROVE  Decisions' = Decisions
  <2>1. \A p \in Proposals :
          /\ approval'[p].decided_by = approval[p].decided_by
          /\ approval'[p].status = "auto" <=> approval[p].status = "auto"
    BY <1>1 DEF CreateApproval, DeciderOnRecord
  <2> QED
    BY <1>0, <2>1, DecisionKept DEF Decisions
<1>2. ASSUME NEW r \in Requests, WriteExpired(r)
      PROVE  Decisions' = Decisions
  <2>1. \A p \in Proposals :
          /\ approval'[p].decided_by = approval[p].decided_by
          /\ approval'[p].status = "auto" <=> approval[p].status = "auto"
    BY <1>2 DEF WriteExpired, EtagMatches, OnAProposal, SnapshotIsDocument
  <2> QED
    BY <1>0, <2>1, DecisionKept DEF Decisions
<1>3. ASSUME NEW r \in Requests, WriteDecision(r) \/ WriteDecisionUnheard(r)
      PROVE  \E p \in Proposals, d \in Decision :
                /\ Decisions[p] = "none"
                /\ Decisions' = [Decisions EXCEPT ![p] = d]
  <2>1. PICK q \in Proposals, d \in Decision :
          request[r].on = q /\ request[r].kind = d /\ stage[r] # "idle"
    BY <1>3 DEF WriteDecision, WriteDecisionUnheard, OnAProposal,
         StagesFollowKinds
  <2>2. approval[q].status = "pending" /\ approval[q].decided_by = None
    BY <1>3, <2>1 DEF WriteDecision, WriteDecisionUnheard, EtagMatches,
         SnapshotIsDocument, StagesFollowKinds, DeciderOnRecord
  <2>3. Decisions[q] = "none"
    BY <2>1, <2>2 DEF Decisions, DecisionOn
  <2>4. approval'[q] = [status |-> d, etag |-> approval[q].etag + 1,
                        decided_by |-> r]
    BY <1>3, <2>1 DEF WriteDecision, WriteDecisionUnheard
  <2>5. request'[r] = request[r]
    BY <1>0, <2>1, RequestFrozen
  <2>6. DecisionOn(q)' = d
    BY <2>1, <2>4, <2>5, NoneAssumption DEF DecisionOn, Decision
  <2>7. ASSUME NEW p \in Proposals, p # q
        PROVE  DecisionOn(p)' = DecisionOn(p)
    <3>1. approval'[p] = approval[p]
      BY <1>3, <2>1, <2>7 DEF WriteDecision, WriteDecisionUnheard
    <3> QED
      BY <1>0, <3>1, DecisionKept
  <2>8. Decisions' = [Decisions EXCEPT ![q] = d]
    BY <2>1, <2>6, <2>7 DEF Decisions
  <2> QED
    BY <2>1, <2>3, <2>8
<1>4. ASSUME UNCHANGED approval
      PROVE  Decisions' = Decisions
  BY <1>0, <1>4, DecisionKept DEF Decisions
<1> QED
  BY <1>1, <1>2, <1>3, <1>4
     DEF DecisionStep, Expire, ReadForDecision, ReadForExecution, Judge,
         WriteFails, PostResponse, CreateRun, ResumeFails

LEMMA PolicyDecides ==
    ASSUME ApprovalInv, NEW r \in Requests, NEW q \in Proposals,
           AutoApprove(r, q)
    PROVE  /\ Decisions[q] = "none"
           /\ Decisions' = [Decisions EXCEPT ![q] = "policy"]
<1> USE DEF ApprovalInv, ApprovalTypeOK
<1>0. [ApprovalNext]_avars
  BY DEF ApprovalNext, ExecutionStep
<1>1. Decisions[q] = "none"
  BY DEF AutoApprove, Decisions, DecisionOn, DeciderOnRecord
<1>2. DecisionOn(q)' = "policy"
  BY DEF AutoApprove, DecisionOn
<1>3. ASSUME NEW p \in Proposals, p # q
      PROVE  DecisionOn(p)' = DecisionOn(p)
  <2>1. approval'[p] = approval[p]
    BY <1>3 DEF AutoApprove
  <2> QED
    BY <1>0, <2>1, DecisionKept
<1> QED
  BY <1>1, <1>2, <1>3 DEF Decisions

LEMMA ReportKeepsDecisions ==
    ASSUME ApprovalInv, NEW r \in Requests,
           ReportExecution(r) \/ ReportExecutionFails(r)
    PROVE  Decisions' = Decisions
<1> USE DEF ApprovalInv, ApprovalTypeOK, Written
<1>0. [ApprovalNext]_avars
  BY DEF ApprovalNext, ExecutionStep
<1>1. CASE ReportExecution(r) /\ request[r].kind = "execute"
  <2> DEFINE q == request[r].on
  <2>1. q \in Proposals /\ approval[q].status # "auto"
    BY <1>1 DEF ReportExecution, OnAProposal, ExecutingIsAuthorised,
         DeciderOnRecord
  <2>2. \A p \in Proposals :
          /\ approval'[p].decided_by = approval[p].decided_by
          /\ approval'[p].status = "auto" <=> approval[p].status = "auto"
    BY <1>1, <2>1 DEF ReportExecution
  <2> QED
    BY <1>0, <2>2, DecisionKept DEF Decisions
<1>2. CASE UNCHANGED approval
  BY <1>0, <1>2, DecisionKept DEF Decisions
<1> QED
  BY <1>1, <1>2 DEF ReportExecution, ReportExecutionFails

(* The policy's decision is withdrawn before anybody acted on it: only the  *)
(* policy's own execution could have.                                       *)
LEMMA RaiseWithdraws ==
    ASSUME ApprovalInv, RemediationInv, NEW r \in Requests, Raise(r)
    PROVE  \/ Decisions' = Decisions
           \/ \E p \in Proposals :
                 /\ Decisions[p] = "policy"
                 /\ \A s \in Requests : ActedOn[s] # p
                 /\ Decisions' = [Decisions EXCEPT ![p] = "none"]
<1> USE DEF ApprovalInv, ApprovalTypeOK, Written
<1>0. [ApprovalNext]_avars
  BY DEF Raise, ApprovalNext, ExecutionStep
<1>1. CASE request[r].kind = "policy"
  <2>1. PICK q \in Proposals :
          request[r].on = q /\ approval[q].status = "auto"
    BY <1>1 DEF Raise, ExecutionRaises, OnAProposal, ExecutingIsAuthorised
  <2>2. Decisions[q] = "policy"
    BY <2>1 DEF Decisions, DecisionOn
  <2>3. ASSUME NEW s \in Requests, ActedOn[s] = q
        PROVE  FALSE
    <3>1. arm[s] # "none" /\ request[s].on = q
      BY <2>1, <2>3, NoneAssumption DEF ActedOn
    <3>2. phase[s] # "preflight" /\ Mandated(s)
      BY <3>1 DEF RemediationInv, ExecutionInOrder, StartedIsMandated
    <3>3. request[s].kind = "policy"
      BY <2>1, <3>1, <3>2 DEF Mandated, DeciderOnRecord
    <3>4. s = r
      BY <1>1, <2>1, <3>1, <3>3 DEF PolicyRunsOnce
    <3> QED
      BY <3>2, <3>4 DEF Raise
  <2>4. approval'[q] = [status |-> "pending", etag |-> approval[q].etag + 1,
                        decided_by |-> None]
    BY <1>1, <2>1 DEF Raise, ExecutionRaises
  <2>5. DecisionOn(q)' = "none"
    BY <2>4 DEF DecisionOn
  <2>6. ASSUME NEW p \in Proposals, p # q
        PROVE  DecisionOn(p)' = DecisionOn(p)
    <3>1. approval'[p] = approval[p]
      BY <1>1, <2>1, <2>6 DEF Raise, ExecutionRaises
    <3> QED
      BY <1>0, <3>1, DecisionKept
  <2>7. Decisions' = [Decisions EXCEPT ![q] = "none"]
    BY <2>1, <2>5, <2>6 DEF Decisions
  <2> QED
    BY <2>1, <2>2, <2>3, <2>7
<1>2. CASE request[r].kind # "policy"
  <2>1. UNCHANGED approval
    BY <1>2 DEF Raise, ExecutionRaises
  <2> QED
    BY <1>0, <2>1, DecisionKept DEF Decisions
<1> QED
  BY <1>1, <1>2

(* Nothing of the gate changes, so no decision does.                        *)
LEMMA QuietGate ==
    ASSUME UNCHANGED avars
    PROVE  Decisions' = Decisions
BY DEF avars, Decisions, DecisionOn

LEMMA SendingActs ==
    ASSUME ApprovalInv, RemediationInv, NEW r \in Requests, IssueArm(r)
    PROVE  \E p \in Proposals : Promise!Act(r, p)
<1>1. PICK p \in Proposals : request[r].on = p /\ Decisions[p] \in Promise!InFavour
  BY MandateIsInFavour DEF IssueArm, Executing
<1>2. UNCHANGED avars /\ UNCHANGED <<health, rb_arm>>
  BY DEF IssueArm
<1>3. ActedOn[r] = None
  BY DEF IssueArm, Executing, RemediationInv, ExecutionInOrder, ActedOn
<1>4. arm' = [arm EXCEPT ![r] = "issued"]
  BY DEF IssueArm
<1>5. ActedOn' = [ActedOn EXCEPT ![r] = p]
  BY <1>1, <1>2, <1>4 DEF ActedOn, avars, RemediationInv, RemediationTypeOK
<1>6. UNCHANGED <<Decisions, Judgements, Undone>>
  BY <1>2, QuietGate DEF Judgements, Undone
<1> QED
  BY <1>1, <1>3, <1>5, <1>6 DEF Promise!Act

LEMMA VerifyingAssesses ==
    ASSUME RemediationInv, NEW r \in Requests, Verify(r)
    PROVE  \E v \in Promise!Verdict : Promise!Assess(r, v)
<1>1. PICK h \in Health : health' = [health EXCEPT ![r] = h]
  BY DEF Verify
<1>2. UNCHANGED avars /\ UNCHANGED <<arm, rb_arm>>
  BY DEF Verify
<1>3. PICK v \in Class : v = Classify(h, "Unknown")
  BY ClassifyIsClass
<1>4. Judgements[r] = "none"
  BY DEF Verify, RemediationInv, TaskInOrder, Judgements
<1>5. h # "unread"
  BY DEF Health
<1>6. Judgements' = [Judgements EXCEPT ![r] = v]
  BY <1>1, <1>3, <1>5 DEF Judgements, RemediationInv, RemediationTypeOK
<1>7. UNCHANGED <<Decisions, ActedOn, Undone>>
  BY <1>2, QuietGate DEF ActedOn, Undone, avars
<1>8. v \in Promise!Verdict
  BY DEF Class, Promise!Verdict
<1> QED
  BY <1>4, <1>6, <1>7, <1>8 DEF Promise!Assess

LEMMA RollingBackUndoes ==
    ASSUME ApprovalInv, RemediationInv, NEW r \in Requests, IssueRollback(r)
    PROVE  \E p \in Proposals : Promise!Undo(r, p)
<1>0. /\ check[r] = "call" /\ phase[r] = "returned" /\ rb_arm[r] = "none"
      /\ health[r] \in {"Unavailable", "Degraded"} /\ Reversible(r)
  BY DEF IssueRollback, RemediationInv, TaskInOrder
<1>1. PICK p \in Proposals : request[r].on = p /\ Decisions[p] \in Promise!InFavour
  BY <1>0, MandateIsInFavour
<1>2. UNCHANGED avars /\ UNCHANGED <<arm, health>>
  BY DEF IssueRollback
<1>3. Judgements[r] = "DEGRADED"
  BY <1>0, ClassifyIsClass DEF Judgements, Health
<1>4. p \in {q \in Proposals : HasInverse(ActionOf[q])}
  BY <1>0, <1>1 DEF Reversible, Action
<1>5. ActedOn[r] \in {p, None}
  BY <1>1 DEF ActedOn
<1>6. r \notin Undone
  BY <1>0 DEF Undone
<1>7. Undone' = Undone \cup {r}
  BY <1>0 DEF IssueRollback, Undone, RemediationInv, RemediationTypeOK
<1>8. UNCHANGED <<Decisions, ActedOn, Judgements>>
  BY <1>2, QuietGate DEF ActedOn, Judgements, avars
<1> QED
  BY <1>1, <1>3, <1>4, <1>5, <1>6, <1>7, <1>8 DEF Promise!Undo

(* Once sent, an operation stays sent: its result is no step of the         *)
(* contract.                                                                *)
LEMMA ResultsInvisible ==
    ASSUME RemediationInv, NEW r \in Requests,
           ArmReturns(r) \/ RollbackReturns(r)
    PROVE  UNCHANGED <<Decisions, ActedOn, Judgements, Undone>>
<1>1. UNCHANGED avars /\ UNCHANGED health
  BY DEF ArmReturns, RollbackReturns
<1>2. CASE ArmReturns(r)
  <2>1. UNCHANGED rb_arm
    BY <1>2 DEF ArmReturns
  <2>2. \A s \in Requests : arm'[s] = "none" <=> arm[s] = "none"
    BY <1>2 DEF ArmReturns, Seen, Executing, RemediationInv,
       RemediationTypeOK, ExecutionInOrder
  <2> QED
    BY <1>1, <2>1, <2>2, QuietGate DEF ActedOn, Judgements, Undone, avars
<1>3. CASE RollbackReturns(r)
  <2>1. UNCHANGED arm
    BY <1>3 DEF RollbackReturns
  <2>2. \A s \in Requests : rb_arm'[s] = "none" <=> rb_arm[s] = "none"
    BY <1>3 DEF RollbackReturns, Seen, RemediationInv, RemediationTypeOK,
       TaskInOrder
  <2> QED
    BY <1>1, <2>1, <2>2, QuietGate DEF ActedOn, Judgements, Undone, avars
<1> QED
  BY <1>2, <1>3

LEMMA ContractStep ==
    ASSUME ApprovalInv, RemediationInv, [Next]_vars
    PROVE  [Promise!ContractNext]_(Promise!cvars)
<1> USE DEF Promise!ContractNext, Promise!cvars
<1>0. [ApprovalNext]_avars
  BY NextIsGateStep DEF vars, avars
<1>1. CASE DecisionStep /\ UNCHANGED rvars
  <2>1. UNCHANGED <<ActedOn, Judgements, Undone>>
    BY <1>0, <1>1, GateInvisible DEF rvars
  <2> QED
    BY <1>1, <2>1, GateDecides DEF Promise!Decide, Decision
<1>2. ASSUME NEW r \in Requests, NEW p \in Proposals, AutoApprove(r, p),
             UNCHANGED rvars
      PROVE  [Promise!ContractNext]_(Promise!cvars)
  <2>1. UNCHANGED <<ActedOn, Judgements, Undone>>
    BY <1>0, <1>2, GateInvisible DEF rvars
  <2> QED
    BY <1>2, <2>1, PolicyDecides DEF Promise!Decide
<1>3. ASSUME NEW r \in Requests, Raise(r)
      PROVE  [Promise!ContractNext]_(Promise!cvars)
  <2>1. UNCHANGED <<ActedOn, Judgements, Undone>>
    BY <1>0, <1>3, GateInvisible DEF Raise
  <2> QED
    BY <1>3, <2>1, RaiseWithdraws DEF Promise!Withdraw
<1>4. ASSUME NEW r \in Requests, Report(r)
      PROVE  [Promise!ContractNext]_(Promise!cvars)
  <2>1. UNCHANGED <<ActedOn, Judgements, Undone>>
    BY <1>0, <1>4, GateInvisible DEF Report, rvars
  <2> QED
    BY <1>4, <2>1, ReportKeepsDecisions DEF Report
<1>5. ASSUME UNCHANGED approval, UNCHANGED <<arm, health, rb_arm>>
      PROVE  [Promise!ContractNext]_(Promise!cvars)
  <2>1. UNCHANGED <<ActedOn, Judgements, Undone>>
    BY <1>0, <1>5, GateInvisible
  <2>2. Decisions' = Decisions
    BY <1>0, <1>5, DecisionKept DEF Decisions
  <2> QED
    BY <2>1, <2>2
<1>6. ASSUME NEW r \in Requests, ExecutorStep(r)
      PROVE  [Promise!ContractNext]_(Promise!cvars)
  BY <1>5, <1>6, SendingActs, ResultsInvisible
     DEF ExecutorStep, Preflight, WriteAhead, ArmNotSent, RecordOutcome, avars
<1>7. ASSUME NEW r \in Requests, TaskStep(r)
      PROVE  [Promise!ContractNext]_(Promise!cvars)
  BY <1>5, <1>7, VerifyingAssesses, RollingBackUndoes, ResultsInvisible
     DEF TaskStep, RollbackAhead, RollbackNotSent, RecordRollback,
         FlagRolledBack, ReportVerdict, avars
<1>8. CASE \/ \E r \in Requests : GuardExecution(r) /\ UNCHANGED rvars
           \/ \E r \in Requests : CrashRequest(r) \/ CrashTask(r)
           \/ \E r \in Requests, k \in {"execute", "rollback"} : EmitAlert(r, k)
           \/ \E p \in Proposals : NewIncident(p) \/ IncidentsClosed(p)
           \/ Sweep
           \/ UNCHANGED vars
  BY <1>5, <1>8
     DEF GuardExecution, CrashRequest, Crash, CrashTask, EmitAlert,
         NewIncident, IncidentsClosed, Sweep, avars, rvars, vars
<1> QED
  BY <1>1, <1>2, <1>3, <1>4, <1>6, <1>7, <1>8 DEF Next, GateStep

(* Gate, executor, tasks and loops together keep the promises of            *)
(* RemediationContract: a decision is final, an execution acts under a      *)
(* decision in favour, is judged once, and undone only when it made things  *)
(* worse and can be undone.                                                 *)
THEOREM ContractKept == Spec => KeepsContract
BY ContractInitially, ContractStep, GateInvariant, RemediationInvariant, PTL
   DEF Spec, KeepsContract, Promise!Contract
=============================================================================
