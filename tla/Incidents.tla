------------------------------ MODULE Incidents ------------------------------
(***************************************************************************)
(* How a fired alert becomes, or joins, an incident record: the two-layer  *)
(* deduplication of services/detection-plane/dedup.py as the gateway's     *)
(* POST /api/v1/incidents runs it (dedup_integration.py, ingest_incident   *)
(* in main.py), and the life cycle of the record                           *)
(* (services/detection-plane/alert_state.py).                              *)
(*                                                                         *)
(* A delivery of an alert is an activity of its own, in one of several     *)
(* gateway workers; so is a call of transition_alert_state.  Each call to  *)
(* the incidents container is one step.                                    *)
(***************************************************************************)
EXTENDS Naturals, Sequences, FiniteSets

CONSTANTS
    Requests,    \* deliveries of alerts: POST /api/v1/incidents
    Moves,       \* calls of transition_alert_state
    Alerts,      \* alert ids; the record an alert opens has the alert's id
    RuleOf,      \* the detection rule that fired each alert
    ResourceOf,  \* the first affected resource of each alert
    MaxRetries,  \* MAX_DEDUP_RETRIES, 3 in the code
    None         \* "no alert", "nothing read"

ASSUME RetriesAssumption == MaxRetries \in Nat \ {0}
ASSUME AlertAssumption == None \notin Alerts /\ IsFiniteSet(Alerts)
ASSUME CallAssumption == Requests \cap Moves = {} /\ IsFiniteSet(Requests)

VARIABLES
    incident,    \* the incidents container: one document per alert id
    aged,        \* records created more than five minutes ago
    post,        \* the alert each request delivers
    opened,      \* records open on the same resource when it came in
    stage,       \* where each call is
    seen,        \* the document it read last
    layer,       \* which layer of the deduplication matched
    attempt,     \* rounds of the optimistic-concurrency loop used up
    wrote,       \* what the request did to the container ...
    into,        \* ... and to which record
    target       \* the status a transition asks for

dedupVars == <<opened, layer, attempt, wrote, into, post>>
ivars == <<incident, aged, post, opened, stage, seen, layer, attempt, wrote,
           into, target>>

Calls == Requests \cup Moves

Status == {"new", "acknowledged", "closed"}

VALID_TRANSITIONS ==
    [s \in Status |-> CASE s = "new"          -> {"acknowledged", "closed"}
                        [] s = "acknowledged" -> {"closed"}
                        [] s = "closed"       -> {}]

(* born ranks the records by created_at; 0 is "no such record".             *)
Document ==
    [id : Alerts, status : Status \cup {"absent"}, duplicates : Nat,
     correlated : SUBSET Requests, history : Seq(Status), etag : Nat,
     born : Nat]

Stage == {"idle", "layer1", "layer2", "join", "reread", "create", "dispatch",
          "joined", "dispatched", "move", "moved", "refused", "error", "lost"}

IncidentTypeOK ==
    /\ incident \in [Alerts -> Document]
    /\ aged \subseteq Alerts
    /\ post \in [Requests -> Alerts \cup {None}]
    /\ opened \in [Requests -> SUBSET Alerts]
    /\ stage \in [Calls -> Stage]
    /\ seen \in [Calls -> Document \cup {None}]
    /\ layer \in [Requests -> {"none", "layer1", "layer2"}]
    /\ attempt \in [Requests -> 0 .. MaxRetries]
    /\ wrote \in [Requests -> {"nothing", "created", "layer1", "layer2"}]
    /\ into \in [Requests -> Alerts \cup {None}]
    /\ target \in [Moves -> Status]

IncidentInit ==
    /\ incident = [a \in Alerts |->
                     [id |-> a, status |-> "absent", duplicates |-> 0,
                      correlated |-> {}, history |-> << >>, etag |-> 0,
                      born |-> 0]]
    /\ aged = {}
    /\ post = [r \in Requests |-> None]
    /\ opened = [r \in Requests |-> {}]
    /\ stage = [c \in Calls |-> "idle"]
    /\ seen = [c \in Calls |-> None]
    /\ layer = [r \in Requests |-> "none"]
    /\ attempt = [r \in Requests |-> 0]
    /\ wrote = [r \in Requests |-> "nothing"]
    /\ into = [r \in Requests |-> None]
    /\ target = [t \in Moves |-> "new"]

-----------------------------------------------------------------------------
(* The container and the queries on it.                                    *)

Exists(a) == incident[a].status # "absent"

Open(a) == incident[a].status \in {"new", "acknowledged"}

OnResource(x) == {a \in Alerts : Exists(a) /\ ResourceOf[a] = x}

OpenOn(x) == {a \in OnResource(x) : Open(a)}

(* ORDER BY c.created_at DESC OFFSET 0 LIMIT 1.                             *)
Newest(S) == {a \in S : \A b \in S : incident[b].born <= incident[a].born}

(* Mutant: the rule is left out of the query.                               *)
AnyRule(r) ==
    {a \in OnResource(ResourceOf[post[r]]) : a \notin aged /\ incident[a].status # "closed"}

(* What the query of dedup_layer1 selects: the same rule on the same        *)
(* resource, created within the window and not closed.                      *)
Layer1Hits(r) ==
    {a \in OnResource(ResourceOf[post[r]]) :
        /\ RuleOf[a] = RuleOf[post[r]]
        /\ a \notin aged
        /\ incident[a].status # "closed"}

(* Mutant: acknowledged records do not count as open.                       *)
OnlyNew(r) == {a \in OnResource(ResourceOf[post[r]]) : incident[a].status = "new"}

Layer2Hits(r) == OpenOn(ResourceOf[post[r]])

(* Mutant: replace_item without its etag.                                   *)
EtagIgnored(c) == Exists(seen[c].id)

(* replace_item(etag=..., match_condition=...) goes through.                *)
EtagMatches(c) == incident[seen[c].id].etag = seen[c].etag

(* The copy the call read, with the delivery added to it.                   *)
Joined(r) ==
    LET d == seen[r]
    IN  [id |-> d.id, status |-> d.status,
         duplicates |-> d.duplicates + (IF layer[r] = "layer1" THEN 1 ELSE 0),
         correlated |-> d.correlated \cup
                          (IF layer[r] = "layer2" THEN {r} ELSE {}),
         history |-> d.history, etag |-> d.etag + 1, born |-> d.born]

(* Mutant: status_history is not extended.                                  *)
MovedSilently(t) ==
    LET d == seen[t]
    IN  [id |-> d.id, status |-> target[t], duplicates |-> d.duplicates,
         correlated |-> d.correlated, history |-> d.history,
         etag |-> d.etag + 1, born |-> d.born]

(* Mutant: the record takes the status that resolve_incident writes.        *)
MovedResolved(t) ==
    LET d == seen[t]
    IN  [id |-> d.id, status |-> "resolved", duplicates |-> d.duplicates,
         correlated |-> d.correlated, history |-> Append(d.history, target[t]),
         etag |-> d.etag + 1, born |-> d.born]

(* The copy the call read, in its new status.                               *)
Moved(t) ==
    LET d == seen[t]
    IN  [id |-> d.id, status |-> target[t], duplicates |-> d.duplicates,
         correlated |-> d.correlated, history |-> Append(d.history, target[t]),
         etag |-> d.etag + 1, born |-> d.born]

(* How many records exist: the rank of the next one.                        *)
Records == Cardinality({a \in Alerts : Exists(a)})

Goto(c, s) == stage' = [stage EXCEPT ![c] = s]

Finish(c, s) == Goto(c, s) /\ seen' = [seen EXCEPT ![c] = None]

-----------------------------------------------------------------------------
(* ingest_incident.  The noise reduction that runs first never suppresses: *)
(* it looks for a blast_radius_summary in the stored records, which        *)
(* nothing stores.                                                         *)

Post(r) ==
    /\ stage[r] = "idle"
    /\ \E a \in Alerts :
          /\ post' = [post EXCEPT ![r] = a]
          /\ opened' = [opened EXCEPT ![r] = OpenOn(ResourceOf[a])]
    /\ Goto(r, "layer1")
    /\ UNCHANGED <<incident, aged, seen, layer, attempt, wrote, into, target>>

(* A query found records: the newest is what the delivery will join.        *)
Hit(r, S, l) ==
    /\ \E a \in Newest(S) : seen' = [seen EXCEPT ![r] = incident[a]]
    /\ layer' = [layer EXCEPT ![r] = l]
    /\ Goto(r, "join")
    /\ UNCHANGED <<incident, aged, post, opened, attempt, wrote, into, target>>

Miss(r, S, next) ==
    /\ S = {}
    /\ Goto(r, next)
    /\ UNCHANGED <<incident, aged, seen, target, dedupVars>>

Layer1(r) ==
    /\ stage[r] = "layer1"
    /\ \/ Hit(r, Layer1Hits(r), "layer1")
       \/ Miss(r, Layer1Hits(r), "layer2")

Layer2(r) ==
    /\ stage[r] = "layer2"
    /\ \/ Hit(r, Layer2Hits(r), "layer2")
       \/ Miss(r, Layer2Hits(r), "create")

(* collapse_duplicate and correlate_alert write the copy they hold.         *)
Apply(r) ==
    /\ EtagMatches(r)
    /\ incident' = [incident EXCEPT ![seen[r].id] = Joined(r)]
    /\ wrote' = [wrote EXCEPT ![r] = layer[r]]
    /\ into' = [into EXCEPT ![r] = seen[r].id]

(* The write went through.  The answer carries the record's thread_id,      *)
(* which nothing ever sets, and IncidentResponse refuses a null one: the    *)
(* caller is answered 500, the container keeps the join.                    *)
Join(r) ==
    /\ stage[r] = "join"
    /\ Apply(r)
    /\ Finish(r, "joined")
    /\ UNCHANGED <<aged, post, opened, layer, attempt, target>>

(* The write went through but its response did not arrive: the exception is *)
(* not a 412, check_dedup swallows it, and the alert is dispatched as new.  *)
JoinUnheard(r) ==
    /\ stage[r] = "join"
    /\ Apply(r)
    /\ Finish(r, "dispatch")
    /\ UNCHANGED <<aged, post, opened, layer, attempt, target>>

(* Mutant: the loop ends without an exception, and the caller takes the     *)
(* alert for joined.                                                        *)
ConflictSilent(r) ==
    /\ stage[r] = "join"
    /\ ~EtagMatches(r)
    /\ attempt' = [attempt EXCEPT ![r] = @ + 1]
    /\ IF attempt[r] + 1 < MaxRetries
       THEN Goto(r, "reread") /\ UNCHANGED seen
       ELSE Finish(r, "joined")
    /\ UNCHANGED <<incident, aged, post, opened, layer, wrote, into, target>>

(* 412: another call wrote the record in between.  The last round raises,   *)
(* and check_dedup swallows it.                                             *)
Conflict(r) ==
    /\ stage[r] = "join"
    /\ ~EtagMatches(r)
    /\ attempt' = [attempt EXCEPT ![r] = @ + 1]
    /\ IF attempt[r] + 1 < MaxRetries
       THEN Goto(r, "reread") /\ UNCHANGED seen
       ELSE Finish(r, "dispatch")
    /\ UNCHANGED <<incident, aged, post, opened, layer, wrote, into, target>>

(* The next round reads the record again; its status is not looked at.      *)
Reread(r) ==
    /\ stage[r] = "reread"
    /\ seen' = [seen EXCEPT ![r] = incident[seen[r].id]]
    /\ Goto(r, "join")
    /\ UNCHANGED <<incident, aged, target, dedupVars>>

NewRecord(a) ==
    [id |-> a, status |-> "new", duplicates |-> 0, correlated |-> {},
     history |-> <<"new">>, etag |-> 1, born |-> Records + 1]

(* create_incident_record; 409 when the alert was delivered before.         *)
Create(r) ==
    /\ stage[r] = "create"
    /\ IF Exists(post[r])
       THEN UNCHANGED <<incident, wrote, into>>
       ELSE /\ incident' = [incident EXCEPT ![post[r]] = NewRecord(post[r])]
            /\ wrote' = [wrote EXCEPT ![r] = "created"]
            /\ into' = [into EXCEPT ![r] = post[r]]
    /\ Goto(r, "dispatch")
    /\ UNCHANGED <<aged, post, opened, seen, layer, attempt, target>>

(* Any other failure of the container: "non-blocking", the alert goes on.   *)
DedupFails(r) ==
    /\ stage[r] \in {"layer1", "layer2", "join", "reread", "create"}
    /\ Finish(r, "dispatch")
    /\ UNCHANGED <<incident, aged, target, dedupVars>>

(* create_foundry_thread, which may fail: 503 or 500.                       *)
Dispatch(r) ==
    /\ stage[r] = "dispatch"
    /\ \E s \in {"dispatched", "error"} : Goto(r, s)
    /\ UNCHANGED <<incident, aged, seen, target, dedupVars>>

-----------------------------------------------------------------------------
(* transition_alert_state: read, validate, replace; no retry.              *)

Ask(t) ==
    /\ stage[t] = "idle"
    /\ \E a \in Alerts, s \in Status :
          /\ Exists(a)
          /\ target' = [target EXCEPT ![t] = s]
          /\ IF s \in VALID_TRANSITIONS[incident[a].status]
             THEN /\ Goto(t, "move")
                  /\ seen' = [seen EXCEPT ![t] = incident[a]]
             ELSE Finish(t, "refused")
    /\ UNCHANGED <<incident, aged, dedupVars>>

Move(t) ==
    /\ stage[t] = "move"
    /\ EtagMatches(t)
    /\ incident' = [incident EXCEPT ![seen[t].id] = Moved(t)]
    /\ \E s \in {"moved", "error"} : Finish(t, s)
    /\ UNCHANGED <<aged, target, dedupVars>>

(* 412, or any failure that kept the write from happening.                  *)
MoveFails(t) ==
    /\ stage[t] = "move"
    /\ Finish(t, "error")
    /\ UNCHANGED <<incident, aged, target, dedupVars>>

-----------------------------------------------------------------------------
(* The environment: five minutes pass for a record, a worker dies.         *)

Age(a) ==
    /\ Exists(a)
    /\ a \notin aged
    /\ \A b \in Alerts \ aged : Exists(b) => incident[a].born <= incident[b].born
    /\ aged' = aged \cup {a}
    /\ UNCHANGED <<incident, stage, seen, target, dedupVars>>

InHandler(c) ==
    stage[c] \in {"layer1", "layer2", "join", "reread", "create", "dispatch",
                  "move"}

Crash(c) ==
    /\ InHandler(c)
    /\ Finish(c, "lost")
    /\ UNCHANGED <<incident, aged, target, dedupVars>>

-----------------------------------------------------------------------------
Handle(r) ==
    \/ Layer1(r) \/ Layer2(r) \/ Join(r) \/ JoinUnheard(r) \/ Conflict(r)
    \/ Reread(r) \/ Create(r) \/ DedupFails(r) \/ Dispatch(r)

Transition(t) == Ask(t) \/ Move(t) \/ MoveFails(t)

IncidentNext ==
    \/ \E r \in Requests : Post(r) \/ Handle(r)
    \/ \E t \in Moves : Transition(t)
    \/ \E a \in Alerts : Age(a)
    \/ \E c \in Calls : Crash(c)

IncidentSpec == IncidentInit /\ [][IncidentNext]_ivars

-----------------------------------------------------------------------------
(* Properties.                                                             *)

(* No join is lost and none is counted twice: duplicate_count and           *)
(* correlated_alerts of a record are exactly the deliveries whose write to  *)
(* it went through, however collapses, correlations and status transitions  *)
(* of the same record interleave (collapse_duplicate, correlate_alert and   *)
(* transition_alert_state all write back a whole copy they read earlier).   *)
JoinsAreKept ==
    \A a \in Alerts :
        /\ incident[a].duplicates =
             Cardinality({r \in Requests : into[r] = a /\ wrote[r] = "layer1"})
        /\ incident[a].correlated =
             {r \in Requests : into[r] = a /\ wrote[r] = "layer2"}

(* status_history is the true story of the record: it begins with "new",    *)
(* each entry may follow the one before it under VALID_TRANSITIONS, and the *)
(* last one is the record's status, so no write took a status back.         *)
HistoryIsLegal ==
    \A a \in Alerts : Exists(a) =>
        LET h == incident[a].history
        IN  /\ h # << >>
            /\ h[1] = "new"
            /\ h[Len(h)] = incident[a].status
            /\ \A i \in 1 .. Len(h) - 1 : h[i + 1] \in VALID_TRANSITIONS[h[i]]

(* A delivery opens a record of its own only when every record that was     *)
(* open on its resource as it came in has been closed since: with alerts    *)
(* that do not overlap in time a resource has one open incident.            *)
NoRedundantIncident ==
    \A r \in Requests : wrote[r] = "created" =>
        \A b \in opened[r] : incident[b].status = "closed"

(* No alert is swallowed: the deduplication short-circuits the dispatch to  *)
(* the orchestrator only for a delivery that a record did take, also when   *)
(* the rounds of the optimistic-concurrency loop run out.                   *)
JoinedIsRecorded ==
    \A r \in Requests : stage[r] = "joined" =>
        \E a \in Alerts : \/ r \in incident[a].correlated
                           \/ /\ into[r] = a /\ wrote[r] = "layer1"
                              /\ incident[a].duplicates > 0

(* What the records and the answers tell of a delivery.                     *)
Fate(r) ==
    CASE stage[r] = "idle" -> "out"
      [] stage[r] \in {"joined", "dispatched"} -> stage[r]
      [] stage[r] \in {"error", "lost"} -> "lost"
      [] OTHER -> CASE wrote[r] = "nothing" -> "waiting"
                    [] wrote[r] = "created" -> "opened"
                    [] OTHER -> "taken"

Fates == [r \in Requests |-> Fate(r)]

Kept == [a \in Alerts |-> [status |-> incident[a].status,
                           duplicates |-> incident[a].duplicates,
                           correlated |-> incident[a].correlated]]

Ledger == INSTANCE AlertLifecycle WITH
    record <- Kept, alert <- post, standing <- opened, fate <- Fates

(* Deduplication and life cycle keep AlertLifecycle: whatever copies, etag  *)
(* conflicts, retries and lost replies go on below, every step that shows   *)
(* in the records or in the fate of a delivery is one of the promised ones; *)
(* "closed is terminal" (alert_state.py:10) among them.                     *)
KeepsLifecycle == Ledger!Lifecycle

(* "a new distinct alert for a resource_id that already has an open         *)
(* incident is appended to the existing incident's correlated_alerts"       *)
(* (dedup.py:7): a record that is closed takes no more alerts.              *)
JoinsOpenIncident ==
    [][\A a \in Alerts : incident[a].status = "closed" =>
          /\ incident'[a].duplicates = incident[a].duplicates
          /\ incident'[a].correlated = incident[a].correlated]_ivars

=============================================================================
