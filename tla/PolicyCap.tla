------------------------------ MODULE PolicyCap ------------------------------
(***************************************************************************)
(* The daily cap of the auto-approval policies (services/api-gateway/      *)
(* policy_engine.py, called by create_approval in approvals.py).  A        *)
(* proposal is measured against the policies of its action, one after the  *)
(* other; the cap counts the execution records of the day.  The record of  *)
(* the proposal itself is written by execute_remediation, after the health *)
(* gate and the pre-flight check, so proposals that are evaluated at the   *)
(* same time do not see each other.  Approvals leaves the verdict of a     *)
(* policy open; this module is what is behind it.                          *)
(***************************************************************************)
EXTENDS Integers, FiniteSets

CONSTANTS
    Proposals,   \* calls of create_approval
    Policies,    \* rows of remediation_policies for the action at hand
    MaxDaily,    \* max_daily_executions of each policy
    MaxDay,      \* bound on the days
    None         \* "no policy"

ASSUME FiniteAssumption == IsFiniteSet(Proposals)
ASSUME CapAssumption == MaxDaily \in [Policies -> Nat \ {0}]
ASSUME DayAssumption == MaxDay \in Nat
ASSUME NonePolicy == None \notin Policies

VARIABLES
    day,       \* of the clock, in UTC
    enabled,   \* policies that are enabled
    stage,     \* where each proposal is
    left,      \* policies it has fetched and not tried
    policy,    \* the one whose cap it has passed
    ran,       \* the day of its executed_at, -1 before
    logged,    \* proposals whose execution record was written
    peak       \* most proposals at once between cap check and record

policyVars == <<day, enabled, stage, left, policy, ran, logged, peak>>

Stage == {"new", "guards", "health", "preflight", "stamped",
          "sent", "pending", "aborted", "dead"}

PolicyTypeOK ==
    /\ day \in 0 .. MaxDay
    /\ enabled \in SUBSET Policies
    /\ stage \in [Proposals -> Stage]
    /\ left \in [Proposals -> SUBSET Policies]
    /\ policy \in [Proposals -> Policies \cup {None}]
    /\ ran \in [Proposals -> -1 .. MaxDay]
    /\ logged \in SUBSET Proposals
    /\ peak \in [Policies -> Nat]

PolicyInit ==
    /\ day = 0
    /\ enabled \in SUBSET Policies
    /\ stage = [r \in Proposals |-> "new"]
    /\ left = [r \in Proposals |-> {}]
    /\ policy = [r \in Proposals |-> None]
    /\ ran = [r \in Proposals |-> -1]
    /\ logged = {}
    /\ peak = [p \in Policies |-> 0]

-----------------------------------------------------------------------------
Goto(r, s) == stage' = [stage EXCEPT ![r] = s]

(* Executions of a policy on a day, and those of them with a record.       *)
Executions(p, d) ==
    {r \in Proposals : policy[r] = p /\ ran[r] = d /\ stage[r] = "sent"}

Recorded(p, d) == Executions(p, d) \cap logged

(* Proposals between the cap check and the record of their execution.      *)
InFlight(p) ==
    {r \in Proposals :
        policy[r] = p /\ stage[r] \in {"health", "preflight", "stamped"}}

(* Mutant: one more than the cap.                                          *)
UpToCap(p) == Cardinality(Recorded(p, day)) <= MaxDaily[p]

(* The query counts the records since midnight.                            *)
UnderCap(p) == Cardinality(Recorded(p, day)) < MaxDaily[p]

-----------------------------------------------------------------------------
(* A database error gives no policies, nor does the tag aap-protected.     *)
Fetch(r) ==
    /\ stage[r] = "new"
    /\ \E ps \in {enabled, {}} : left' = [left EXCEPT ![r] = ps]
    /\ Goto(r, "guards")
    /\ UNCHANGED <<day, enabled, policy, ran, logged, peak>>

(* Tag filter, blast radius and cap pass; there is no await between them.  *)
PassGuards(r) ==
    /\ stage[r] = "guards"
    /\ \E p \in left[r] :
          /\ UnderCap(p)
          /\ policy' = [policy EXCEPT ![r] = p]
          /\ left' = [left EXCEPT ![r] = @ \ {p}]
          /\ LET n == Cardinality(InFlight(p)) + 1
             IN  peak' = [peak EXCEPT ![p] = IF n > @ THEN n ELSE @]
    /\ Goto(r, "health")
    /\ UNCHANGED <<day, enabled, ran, logged>>

(* One of them does not, or raises.                                        *)
FailGuards(r) ==
    /\ stage[r] = "guards"
    /\ \E p \in left[r] : left' = [left EXCEPT ![r] = @ \ {p}]
    /\ UNCHANGED <<day, enabled, stage, policy, ran, logged, peak>>

(* No policy is left, or none was found: a pending document for operators. *)
NoPolicy(r) ==
    /\ stage[r] = "guards"
    /\ left[r] = {}
    /\ Goto(r, "pending")
    /\ UNCHANGED <<day, enabled, left, policy, ran, logged, peak>>

(* The health gate, an await away.                                         *)
Healthy(r) ==
    /\ stage[r] = "health"
    /\ Goto(r, "preflight")
    /\ UNCHANGED <<day, enabled, left, policy, ran, logged, peak>>

Unhealthy(r) ==
    /\ stage[r] = "health"
    /\ Goto(r, "guards")
    /\ policy' = [policy EXCEPT ![r] = None]
    /\ UNCHANGED <<day, enabled, left, ran, logged, peak>>

(* execute_remediation: the pre-flight check refuses, ...                  *)
Abort(r) ==
    /\ stage[r] = "preflight"
    /\ Goto(r, "aborted")
    /\ UNCHANGED <<day, enabled, left, policy, ran, logged, peak>>

(* Mutant: the record is stamped in a local time ahead of UTC.             *)
StampedAhead(r) == [ran EXCEPT ![r] = day + 1]

Stamped(r) == [ran EXCEPT ![r] = day]

(* ... or the execution gets the time it is counted by, ...                *)
Stamp(r) ==
    /\ stage[r] = "preflight"
    /\ ran' = Stamped(r)
    /\ Goto(r, "stamped")
    /\ UNCHANGED <<day, enabled, left, policy, logged, peak>>

(* ... and is recorded and sent; a record that cannot be written does not  *)
(* stop it.                                                                *)
Execute(r) ==
    /\ stage[r] = "stamped"
    /\ \/ logged' = logged \cup {r}
       \/ UNCHANGED logged
    /\ Goto(r, "sent")
    /\ UNCHANGED <<day, enabled, left, policy, ran, peak>>

Die(r) ==
    /\ stage[r] \in {"guards", "health", "preflight", "stamped"}
    /\ Goto(r, "dead")
    /\ UNCHANGED <<day, enabled, left, policy, ran, logged, peak>>

(* An administrator enables or disables a policy.                          *)
Administer ==
    /\ \E p \in Policies :
          enabled' = IF p \in enabled THEN enabled \ {p} ELSE enabled \cup {p}
    /\ UNCHANGED <<day, stage, left, policy, ran, logged, peak>>

Midnight ==
    /\ day < MaxDay
    /\ day' = day + 1
    /\ UNCHANGED <<enabled, stage, left, policy, ran, logged, peak>>

PolicyNext ==
    \/ \E r \in Proposals :
          \/ Fetch(r) \/ PassGuards(r) \/ FailGuards(r) \/ NoPolicy(r)
          \/ Healthy(r) \/ Unhealthy(r) \/ Abort(r) \/ Stamp(r)
          \/ Execute(r) \/ Die(r)
    \/ Administer
    \/ Midnight

PolicySpec == PolicyInit /\ [][PolicyNext]_policyVars

-----------------------------------------------------------------------------
(* The cap is exceeded by no more than the proposals that were between the *)
(* count and their record at one time, less one, and by the executions     *)
(* whose record failed: with one proposal at a time and a log that works   *)
(* it is exact, also across midnight (policy_engine.py:204-235 against     *)
(* remediation_executor.py:818-838).                                       *)
CapHolds ==
    \A p \in Policies, d \in 0 .. MaxDay :
        Executions(p, d) # {} =>
            Cardinality(Executions(p, d))
                <= MaxDaily[p] + (peak[p] - 1)
                     + Cardinality(Executions(p, d) \ logged)

=============================================================================
