# Verification of the Azure Agentic Platform

TLA+ models of the parts of the platform whose correctness depends on what runs
at the same time, what fails half-way and what is retried: the approval gate,
the remediation executor, the Foundry thread of an incident, the deduplication
of alerts into incidents, the war room, the chat and its event stream, the daily
cap of the auto-approval policies, and the resource topology graph. TLC checks
them on small instances; TLAPS proves their safety properties for every value of
the constants.

## 1. The system

Alert rules in Fabric post fired alerts to the **API gateway** (FastAPI,
`src/services/api-gateway`). The gateway deduplicates them into incident records in
Cosmos DB and dispatches the new ones to **Foundry agents** (an orchestrator and
domain agents, `src/agents`), which investigate with read-only tools and propose a
remediation. A proposal is a document in the `approvals` container. Operators
decide it in the **web UI** or in **Teams**; an approved one is executed by the
gateway against Azure Resource Manager (ARM), verified some minutes later and
rolled back if it did harm, and the verdict is posted to the incident's Foundry
thread for a re-diagnosis. Operators of one incident share a **war room** and
talk to the agents in a **chat**. A **topology graph** of the resources, followed
from Azure, says how far a remediation reaches.

The fact behind most of the models is the deployment: the gateway runs as 1 to 5
replicas (`src/terraform/modules/agent-apps/main.tf:18`) of two uvicorn workers
each (`src/services/api-gateway/Dockerfile:46`). Up to ten processes share nothing but
Cosmos DB; each has an event loop, background tasks and in-memory maps of its own
and loses them when it dies.

### Inventory

| Component | State | Operations | What makes it correct | Model |
|---|---|---|---|---|
| Approval gate: `approvals.py`, `execute_approval` in `main.py`, `agents/shared/approval_manager.py` | `approvals` container, Foundry thread | create (or auto-approve by policy), approve, reject, expire, resume the thread, execute | one decision, never reversed; nothing runs without a mandate | `Approvals` |
| Remediation executor: `remediation_executor.py` | `remediation_audit` container, sleeping tasks | pre-flight, write-ahead, ARM call, outcome, delayed verification, rollback, stale monitor, start-up sweep | the log tells the truth, no rollback without cause, every operation judged | `Remediation` |
| Deduplication, alert life cycle: `detection-plane/dedup.py`, `alert_state.py`, `dedup_integration.py` | `incidents` container | two queries, collapse, correlate, create, status transition | no alert lost, no status taken back, no incident beside an open one | `Incidents` |
| War room: `war_room.py` | `war_rooms` container, stream queues per worker | join, annotate, heartbeat, hand-off, connect, disconnect | nothing stored is dropped; streams show what is stored | `WarRoom` |
| Policy engine: `policy_engine.py` | policies in PostgreSQL, execution records of the day | match a proposal, guards, daily cap | a cap is exceeded by no more than run at once | `PolicyCap` |
| Foundry thread: `foundry.py`, `_inject_verification_result`, `_resume_foundry_thread` | messages and runs of a thread, `re_diagnosis_count` | dispatch, resume, cancel runs, inject a verdict, chat | no message stays unread; a chat gets no old answer | `FoundryThread` |
| Chat and event stream: `chat.py`, web-ui `api/stream`, `sse-buffer.ts`, `use-sse.ts`, `ChatDrawer.tsx` | answers per worker, ring buffers, sequence numbers, spinner | send, answer, poll, push, replay, reconnect, time out | each turn ends, with a text of its own shown once | `ChatStream`, `Conversation` |
| Topology graph: `topology.py` | `topology` container | bootstrap, incremental sync, blast radius, path | queries invent and miss nothing; changes arrive in time | `TopologyGraph`, `TopologySync` |
| Teams bot: `escalation.ts`, `proactive.ts` | map of last reminders | poll, remind | one reminder per interval, none after a decision | next in the plan |
| Network topology: `network_topology_service.py` | a cached snapshot | evaluate rules, check a path | agreement with the order of the rules | in the plan |
| Agent health: `agent_health.py` | failure counters per worker | poll, emit an incident | one incident per outage | in the plan |
| Session budget: `agents/shared/budget.py` | `sessions` container | create, record, complete | the limit is not overrun | no: nothing but its tests uses it |
| Runbooks: `runbook_executor.py` | approval and audit records | steps, gates, rollback stack | gates hold, rollback in reverse | no: steps, gate and rollback are simulated |
| Rate limiters, ARG cache, tenants, SLOs, feedback, incident memory, push, suggestions, several dozen posture and audit services | single documents or rows, caches | query Azure, upsert, list | no protocol of several steps | no |
| Agents, MCP servers | none, or the hosted model's | prompts and read-only tools | not a transition system | no |
| Web UI, Terraform, SOPs, scripts | view state, declarations | rendering, deployment | not a transition system | no |

How they interact: Fabric calls `POST /api/v1/incidents`; `ingest_incident` calls the
deduplication and, for what it did not absorb, Foundry. Agents and endpoints write
pending approvals; operators' decisions go through `process_approval_decision`,
which posts to the Foundry thread; `execute_approval` and the policy branch of
`create_approval` call `execute_remediation`, which reads the `incidents` container
and the topology graph in its pre-flight check; its verification posts to the
thread, where dispatch, approvals and chats write too; its stale monitor writes
new incidents. The policy branch asks the policy engine, which counts the
executor's records and reads the topology graph. The browser's chat goes through a
web-ui instance to any worker of the gateway, and so does its event stream.

The hard behaviours, each at its line, are the `hazards` of `PROJECT.json`. In one
paragraph: documents are read, held across other calls and written back whole under
an etag; replies of writes that took effect get lost; some exceptions are swallowed;
checks and acts are separate calls; background tasks die with their worker; retries
repeat what was done; what one process remembers another is asked for.

## 2. The models

Conventions. An activity (a request, a delivery, a call) has an id from a constant
set, a `stage` that says which call it makes next, and a copy of what it read. Each
call to Cosmos, Foundry or ARM is one step; what a handler does between two calls
belongs to the step of one of them. A conditional replace compares etags, which
count the writes of a document. A reply that is lost after its write took effect
is an action of its own, and so is the death of a worker. Definitions named as
*Mutant* in a comment are deliberately wrong variants of the definition after
them, not part of any specification; they serve to confirm that the properties are
able to fail.

### `Approvals`

`approval[p]` is the document of a proposal with status, etag and the request that
decided it; `late` the proposals past `expires_at`; `request`, `stage` and `reply`
the running handlers; `posted` and `resumed` what has been done to the Foundry thread.

| Actions | Code |
|---|---|
| `CreateApproval`, `AutoApprove` | `create_approval`: pending document, or the policy branch, which writes none |
| `Expire` | the clock passing `expires_at` (`_is_expired`); the status changes only when a decision is attempted |
| `ReadForDecision`, `Judge` | endpoints approve/reject, checks of `process_approval_decision` in the order of the code |
| `WriteDecision`, `WriteDecisionUnheard`, `WriteExpired`, `WriteFails` | `replace_item` with its etag and the three things that can become of it |
| `PostResponse`, `CreateRun`, `ResumeFails` | `_resume_foundry_thread`, whose failures are swallowed |
| `ReadForExecution`, `GuardExecution`, `ReportExecution`, `ReportExecutionFails`, `ExecutionRaises` | `execute_approval`, its guard and its unconditional patch |
| `Crash` | the worker of a request dies |

### `Remediation`, with `RemediationContract`

Extends `Approvals`: an execution is a request in stage `executing` and carries its
`phase` in `execute_remediation`, its ARM call (`arm`), its record (`wal`,
`verdict`, `rolled_back`), its verification task (`check`, `health`) and its
rollback (`rb_wal`, `rb_arm`). `fresh` is what the pre-flight scan for newer
incidents would find. The steps of gate and executor interleave; the report of an
execution is the joint step of both. Of an operation that was sent, `arm` says how the
code comes to see it (`ArmReturns`): a success, a failure, `overdue`, when
`poller.result(timeout)` returns without raising because the time is up and the
operation still runs, or `lost`, when the poller raises and the operation may go on. The
code tells only a return from an exception, hence `OutcomeStatus`; a rollback's
operation (`rb_arm`, `RollbackReturns`) is seen in the same way. `CosmosFaults` says
whether the executor's Cosmos calls may fail: they are all swallowed by `_write_wal`,
so the constant separates what holds always from what holds while Cosmos answers.

`WalTellsTruth` is what a record may be read as. A complete one is of an operation that
was sent and that nobody has seen fail: it has succeeded, or it was still running when
its time was up. A failed one is of an operation that nobody has seen succeed.

`RemediationContract` is the abstract specification: a proposal gets at most one
decision; an execution acts only under a decision in favour; what it did is judged
at most once and undone only when judged `DEGRADED` and reversible. The only thing
ever taken back is a policy's decision on which nobody has acted. `KeepsContract` is
the refinement, with decisions read off the document and the activation records.

### `Incidents`, with `AlertLifecycle`

`incident[a]` is the record that alert `a` opened (status, `duplicate_count`,
`correlated_alerts`, `status_history`, etag, rank by `created_at`). A delivery
(`post`) queries for a record of the same rule and resource (`Layer1`), then for an
open record of the resource (`Layer2`), and joins one under optimistic concurrency
(`Join`, `Conflict`, `Reread`, at most `MaxRetries` rounds) or creates its own
(`Create`). `JoinUnheard` is a join that took effect but whose exception makes
`check_dedup` return nothing, so that the alert is dispatched as well.
`Ask`, `Move` and `MoveFails` are `transition_alert_state`. `Age` moves a record out of
the five-minute window, oldest first. `opened` is a history variable: the open
records of the resource at the moment the delivery came in.

Records appear both as documents of the container and as copies in `seen`, so
stale writes are possible in the model; the etag is all that prevents them.

`AlertLifecycle` is the abstract specification, with no word of queries, copies, etags
or rounds: a delivery is counted by at most one record, once, of its own resource,
and as a duplicate only by one of its own rule; it opens a record only when all that
were open as it came in are closed; it is kept from the orchestrator only if a record
has it; a status moves along the transitions and never back. `KeepsLifecycle` is the
refinement: of a record `Kept` keeps the status and what it counts, and `Fate` reads
off a delivery's stage and reply what has become of it. A join that took effect
unheard is taken by a record and dispatched as well, so the abstract delivery goes on
from `taken`. That the record which takes a delivery is open is not promised, see
`joined_closed_incident` below.

### `WarRoom`, with `RoomLog`

`room` is the document, `call`, `stage`, `seen`, `attempt`, `reply` the requests,
`at`, `queue`, `shown` the event streams. None of the handlers awaits anything between
its Cosmos calls, so a worker runs one at a time (`Start`); the workers interleave.
`life` counts the creations of the document and stands for `created_at`. Heartbeats
write the document (and so move the etag), but `last_seen_at` itself is left out.
The upper limit on the length of a note changes no state and is left out too.

`RoomLog` is the abstract specification, with no word of copies, etags, retries or
workers: calls take effect one after the other, each on the room as the one before
left it, on behalf of what was asked and never after the call is over. An operator
enters once, a note goes to the end of the notes, and who is told that it is stored is
told by the step that stores it. `KeepsLog` is the refinement: `Held` is what the
document holds, `Asked`, `Over` and `Stored` read off the requests what was asked, who
is through and whose note was acknowledged. Three things are not promised, because the
code does not keep them: that a note is stored once (a retry after a lost reply stores
it again), that a join answered ok took effect, and that the room is opened once.

### `FoundryThread`

`messages` is the thread, `run[a]` the run that activity `a` started, `since[a]` how
much of the thread it sees. An activity is the dispatch of the incident, an
approval, a verification result (`Injections`) or an operator's message (`Chats`). An
injection reads the count (`ReadCount`, or `ReadFails`: a read that fails is taken for
0 and noted in the history variable `unread`), lists the active runs, cancels them one
by one, sleeps a second if it cancelled any (`Wake`; `WakeEarly` when the service
took longer), posts, runs and counts. Approvals post and run, chats post, run and
poll until their own run has ended, then take the thread's latest answer.
`Refused` is the service refusing a message or a run while one is active;
`ListFails`, `CancelFails` and `FailsOrDies` are the calls that fail and the workers
that die, noted in `faulted`. `Complete`, `Fail` and `Cancelled` are the service's.

### `ChatStream`, with `Conversation`

One browser and one thread with its turns. `server[t]` is the worker that took the
message, `cache[w]` the turn whose answer worker `w` has in `_RESPONSE_CACHE`. `conn`
is the connection of the browser to a web-ui instance with its numbering and
what is on the wire, `stray` are connections the browser has left while the
instance still polls for them, `buffer[i]` the ring buffer of an instance. `source`
is the browser's `EventSource` with the last number and the last event id.

| Actions | Code |
|---|---|
| `Send`, `Answer`, `AnswerFails`, `PostLost` | `handleSend`, `create_chat_thread`; the post may be lost while the gateway goes on, and several may be outstanding (`waiting`) |
| `TokenArrives` | `getAccessToken().then(setSseAuthToken)`: at any time before the next run, also when the turn is over or the browser waits for the next answer, another source is opened |
| `Poll`, `TimeUp` | the loop of the stream route, and the check after it. A poll may begin before the deadline and end after it (`late`): `Pushed` then is the answer *and* that time is up |
| `StrayPoll`, `StrayTimeUp`, `StrayAborts` | the same for a connection that the browser has left |
| `Reconnect`, `Refuse` | a connection breaks at any time and is resumed at any instance; or the new one is answered with an HTTP error, and the `EventSource` is closed for good |
| `ReceiveText`, `ReceiveDone` | the listeners of `useSSE`; `done` closes the source and unlocks the input |
| `Expire` | a whole buffer is gone |

A buffer drops its oldest events when it is full (`Buffered`); each event expires 30
minutes after its push, so a browser that resumes may find the oldest ones gone, or
all of them (`Reconnect`, `Expire`). Three history variables say what was met on the
way. `torn`: some buffer has lost a part of what it was given and kept the rest.
`overrun`: a poll that found a silence ended past its deadline, which gives the buffer
a `done` alone and after it that time is up. `revived`: a token came when the turn
of its stream was over, or while the next answer was waited for.

`Conversation` is the abstract specification, what the operator sees: one message is
answered at a time, texts are added to the last turn only and only until it ends,
a turn ends once, with an error and no text, or after a text, unless an agent was
silent. Once it has been `disturbed`, texts may come after the end of a turn, and an
end without a text or despite one; what remains is that they go to the last turn and
that a turn ends once. `KeepsConversation` is the refinement, with `revived` as the
disturbance; workers, connections, buffers and numbers have no counterpart.

### `PolicyCap`

`Fetch` reads the policies once; `PassGuards` and `FailGuards` try one of those left
(tag filter, blast radius and cap follow one another without an await, so they are
one step), `Healthy` and `Unhealthy` are the health gate after it. `Stamp` fixes the
`executed_at` by which an execution is counted, `Execute` writes its record or fails
to. `Midnight` and `Administer` are the environment. `peak` is a history variable,
the most proposals that were at once between the cap check and their record.

### `TopologyGraph` and `TopologySync`

`TopologyGraph` starts with an arbitrary graph and one query in it,
`get_blast_radius` or `get_path`. Each read of a document is a step, and `Upsert`
replaces documents between the reads. `steady` and `seen` are history
variables: the edges that were there all the time, and at any time, since the query
began. `hop` is `hop_counts`; `forward` and `backward` hold the predecessors as the
paths they give. `Ball` is the reference definition of distance, a recursive function
that adds the neighbours once per hop; `RadiusIsDistance` compares the hop counts of
a finished search with it, from below over the steady edges and from above over all
edges ever seen.

`TopologySync` is the loop that keeps the graph: each worker sleeps for the
interval, queries Resource Graph for what changed in the window, fetches those
rows and upserts them one by one, while resources change and other workers do the
same. A change is named by the time it happened. `Restart` is a new worker with its
bootstrap.

## 3. What TLC checks

| Run | Instance | Distinct states | Shows |
|---|---|---|---|
| `approvals` | 2 proposals, one in production; 3 requests | 472 000 | accepted decisions stand and are never reversed, executions are authorised, threads hear only of the stored decision |
| `remediation` | 1 proposal with a reversible action, 2 requests, any Cosmos call of the executor may fail; nothing after the first alert | 773 000 | mandate, what a record of the log may be read as, justified rollbacks, refinement of the contract |
| `remediation_live` | the same from an approved proposal, Cosmos answers, with fairness | 8 000 | nothing is sent unlogged; what is sent is judged; what stays pending is alerted |
| `incidents` | 3 deliveries of 2 alerts on one machine, 1 transition, 2 rounds | 2 080 000 | no join lost, legal histories, no redundant incident, no alert swallowed, refinement of the alert life cycle |
| `war_room` | 3 requests, 2 operators, 2 workers, 1 stream, queue of 1 | 178 000 | no operator twice, acknowledged notes are stored, streams follow the room, refinement of the room's log |
| `thread` | dispatch, 2 verification results, 1 chat | 1 088 000 | no message left unread, no old answer given to a chat |
| `chat_stream` | 2 messages, 2 workers, 2 instances, 2 mishaps (broken or refused connections, tokens, late polls), with fairness | 1 451 000 | each turn ends with a text of its own, a source shows one text and old answers come only from another worker, each but for the history named in it; the input is unlocked unless the source was refused; refinement of the conversation |
| `policy` | 3 proposals, 2 policies with caps of 1 and 2, 2 days | 919 000 | caps are exceeded by no more than were under way at once |
| `topology_graph` | every graph of 5 resources over 5 kinds of links, depths 2 and 3, 2 rounds, 1 replacement | 2 000 000 | hop counts are distances, a path that is found is one |
| `topology_sync` | 2 workers, 2 resources, 8 units of time, 1 fault | 1 130 000 | a change arrives within an interval and two synchronisations |

Why the bounds are enough to be interesting. Three requests are the least with which two
decide and a third runs or expires what they decided; a lost update needs two writers,
and the third sees its consequences. In `remediation` one request approves and the other
executes, with all that the monitor, other incidents and crashes do meanwhile; two
executions at once are in `executed_twice`, and the proofs cover any number. The run
stops at the first alert of the stale monitor (`NoAlertYet`): an alert is an incident,
which the pre-flight check sees as it sees the other incidents, so nothing new comes
after it; the alerts themselves are in `remediation_live`. In `incidents` two alerts of
different rules on one machine reach both layers, three deliveries make one conflict
with two writers, and two rounds include a first and a last one (the code has three). A
queue of one overflows at the second note. In `thread` the run of the dispatch is there
to be cancelled, one injection can cancel another's run and the chat can be refused, or
overtaken, by both; an approval behaves like a chat that has given up, so `Responses` is
empty in the run (the proofs have any number). In `chat_stream` the second message is
what an old answer, an old event or an old number can be taken for; a ring buffer holds
5 events (the code: 1000), so that the connections of two turns, with those left behind,
overflow it. Two mishaps are the least for a poll that is late and a connection resumed
afterwards, or a connection left behind and another that breaks. Two posts are
outstanding at once only when a late token reopens the first message's stream while the
second is waited for and a third is sent; that is left to the proofs, which have any
number of messages. `chat_stream` calls `i1` the instance of the first stream and stops
when the last turn is over, the input free and nothing under way to the browser
(`FirstInstance`, `NotOver`). Three proposals are two beyond the smaller cap. Five
resources make paths of up to four edges, a diamond, and a search whose sides meet in
either direction; in `topology_sync` the clock allows three intervals and the window
exceeds the interval by more than the duration (the code: 16 and 15 minutes). Etags,
ranks and numbers of events are unbounded naturals in the modules and need no bound in
the runs, since every request makes finitely many writes. Requests, proposals,
injections, workers or resources that are alike are symmetric in the safety runs; the
liveness runs use no symmetry (`chat_stream` calls `w1` the worker of the first message
instead, a constraint on a value that never changes once it is set).

Deadlock is not checked: each instance has finitely many requests, and when all are
answered the system has nothing left to do.

**Fairness** is assumed in `remediation_live` and `chat_stream` only. In the first, weak
fairness of an executor's and of a task's steps (the event loop runs what is ready, and
every ARM poller has a timeout), and of each alert and of the sweep: the monitor is an
endless loop started by every worker (`main.py:629`), and dead workers are replaced. In
the second, weak fairness of the two deadlines, 120 seconds in the proxy for each post
(`PostLost(t)`) and in the stream route (`TimeUp`), and of the browser receiving what is
on the wire of an open connection. Nothing makes a request arrive, an operator decide,
an agent answer, a worker answer a poll or stay alive.

### Where code and documentation disagree

Two runs have a counterexample:

| Run | What happens | What is said |
|---|---|---|
| `executed_twice` | two execute requests pass the guard before either patches the document; both send the operation. A document that says so refuses later requests (`NothingSentLate`), but the patch that makes it say so may fail | "409 if ... executed" (`main.py:1842`), and the check for duplicate pending records in the roadmap design |
| `joined_closed_incident` | the retry after a conflict does not look at the status again and joins a closed incident; it is the only way (`OnlyRetriesJoinClosed`) | `dedup.py:7` |

The modules state six more of the kind, in a section of their own at the end; put
into the named configuration, each is refuted:

| Definition | Configuration | What happens | What is said |
|---|---|---|---|
| `OnlyPendingIsDecided` | `MCApprovals.cfg` | a decision arriving late on a decided proposal replaces its document by an expired one: the expiry branch precedes the status check | "Only "pending" records can be decided" (`approvals.py:229`) |
| `WriteAheadHolds` | `MCRemediation.cfg` | the pending record cannot be written, the error is swallowed, the operation is sent | REMEDI-011, `ROADMAP.md:854` |
| `MissedIsVerified` | `Remediation_live.cfg` | the record is created with `verification_result: None`, which is defined, so the sweep's `NOT IS_DEFINED` never matches (`SweepFindsNothing`) | `remediation_executor.py:934-938` |
| `CreatedOnce` | `MCWarRoom.cfg` | two first joins; the second upsert replaces the room of the first; nothing else does (`RoomLivesOn`) | `war_room.py:88` |
| `LoopIsCapped` | `MCFoundryThread.cfg` with `MaxCount = 1` | the count is read before the re-diagnosis and incremented after it, so concurrent results pass; and the increment addresses the incident by the wrong partition key, so none arrives (`remediation_executor.py:460`, `cosmos.tf:60`); a count that cannot be read is taken for 0 (`:394`); see `LateResultsDropped`, `NothingCounted` | LOOP-004, `35-1-verification-feedback-loop-SUMMARY.md:32` |
| `AnswersThisTurn` | `MCChatStream.cfg` | the poll reaches another worker, whose cache still has the answer to an earlier message | "single process" (`chat.py:28`), of up to ten |

Others were met on the way and have no definition, because no interleaving is needed
to see them or nothing precise enough is said:

- A failed post to the thread after an approval is logged and never retried
  (`approvals.py:328`); REMEDI-005 has the thread resumed.
- Rejecting a production proposal needs a scope confirmation that
  `reject_proposal` never passes on (`main.py:1809`).
- An execution that the pre-flight check aborts is marked executed (`main.py:1903`);
  a policy's is neither executed nor left for operators (`approvals.py:129`).
- A record that is `complete`, and a report of success, may be of an operation that has
  not ended: `poller.result(timeout)` returns when the time is up without raising
  (`remediation_executor.py:233`), and a failure after it is not recorded. `:844` takes
  the outcome for a success. `WalTellsTruth` is what holds.
- An operation that failed, was lost sight of or is still running is verified like
  any other, and rolled back when its resource is found unhealthy then
  (`remediation_executor.py:570`).
- `_rollback` returns its id also after a failure, and the record is then flagged
  `rolled_back` (`remediation_executor.py:582`).
- The health before an execution is the literal "Unknown" (`:548`), so
  `RESOLVED` is never the verdict (`NeverResolved`) and nothing is resolved
  automatically.
- Identical alerts that arrive together open a record each: the queries and the
  create are separate calls (`dedup_integration.py:72-123`), against
  `ROADMAP.md:201`, "10 identical alerts" to a single record. `NoRedundantIncident`
  is what does hold: without overlap there is one.
- A duplicate is answered with a null `thread_id`, which the response model refuses
  (`main.py:1169`, `dedup_integration.py:82`).
- A join that could not be written is answered ok (`war_room.py:143`); a note whose
  write took effect unheard is appended twice (`:195`); notes reach only browsers
  connected to the same worker (`:341`), against `ROADMAP.md:1122`.
- Patches of incidents by the gateway use the incident id as partition key where the
  container is partitioned by `resource_id` (`cosmos.tf:60`), and are swallowed.
- A runbook step that needs approval is skipped and the next ones run
  (`runbook_executor.py:510`); its approval record lacks `thread_id`, the container's
  partition key, so `Approvals` does not count it among the proposals.
- The daily cap is a bound on sequential proposals only: proposals evaluated at the
  same time all pass at the limit, against `ROADMAP.md:1081`. `CapHolds` is
  what does hold.
- "Conservative: any exception = guard failure" (`policy_engine.py:151`): but
  `get_blast_radius` swallows a failed read (`topology.py:522`) and
  returns a radius that is too small, which passes the guard and the pre-flight
  check.
- `get_path` promises the shortest path (`topology.py:579`). Its search from the target
  follows the same direction of the edges as that from the source, so the
  second part of a path it finds has edges that point back, a path made of
  forward edges of more than three hops is not found, and the levels
  are not compared, so a longer path may be returned. `PathIsWalk` is what holds.
- The window of a synchronisation exceeds the interval by a minute "to avoid missing
  changes at the boundary" (`topology.py:295`): the interval is counted from the
  end of the last synchronisation, so this suffices only while one takes less than
  a minute. A failed one loses its changes until the next restart, and a resource
  that is deleted stays in the graph. The lag promised at `main.py:568` is exceeded
  by the duration of two synchronisations.
- A forced health check that reaches a threshold of failures raises no incident, and
  neither does the poll after it (`agent_health_endpoints.py:89`).
- The detector of shadowed security rules compares neither protocol nor destination
  before it says a rule "has no effect" (`network_topology_service.py:793`), and a
  failed query is cached as an empty part of a topology for 15 minutes.
- A ring buffer that has lost its oldest events, by expiry or at its capacity
  (`sse-buffer.ts:42-45`, `:57-59`), replays a later text without the `done` that came
  before it, so that one source shows two texts. It takes two connections that
  break and a delay of minutes, or a thousand events; `OneTextPerSource` and
  `StaleOnlyElsewhere` therefore speak of buffers that are whole or empty.
- The token is said to be "passed to useSSE as a stable value" (`ChatDrawer.tsx:91`), but
  it is asked for with each run, and the stream is reopened whenever it changes
  (`use-sse.ts:103`). One that comes between a text and its `done`, or after both, opens
  a source that shows the answer again; one that comes while the next message is
  waited for shows the old answer in the new turn and unlocks the input. `NoSilentEnd`,
  `StaleOnlyElsewhere` and `Conversation` speak of what holds until then (`revived`).
- The check for the time after the polling loop (`route.ts:187`) is reached after an
  answer as well: when the last poll ends past the deadline, the answer is followed
  by "Agent response timed out" and a second `done`. The browser has closed its
  source by then, but the buffer keeps them; after an agent's silence a connection
  that is resumed can show the first of them and then the text it has polled for, two texts
  of one source (`overrun`).
- An `EventSource` whose connection is answered with an HTTP error closes for good, and
  `use-sse.ts:97-101` marks it as reconnecting and does no more: the input stays locked,
  although `route.ts:186` ends a stream "so the spinner clears". `SpinnerClears`
  excepts exactly this (`refused`).
- `transition_alert_state` has no caller in the gateway; it is modelled as the
  module offers it, since the deduplication relies on its statuses.

## 4. What is proved

TLAPS checks every step of the proofs in eight modules. All constants
are arbitrary; the assumptions are those the modules name (ids that differ from
`None`, a positive number of rounds, finite sets where cardinalities are taken,
the window of a synchronisation longer than an interval and its duration).

**`RemediationProofs`.** Part one is about the gate. The properties are not inductive
alone: that only one decision goes through follows from what a running request
*knows*. `ApprovalInv` says that a copy with the current etag is the current
document (`SnapshotIsDocument`), that a request about to decide saw `pending`
(`StagesFollowKinds`), and that a document has a decider exactly when it is decided
(`DeciderOnRecord`). Each action has a lemma that it preserves the invariant. From
it: `TypeCorrect`, `DecisionStands`, `ExecutionAuthorised`, `ResumeOfDecision`, and the
action property `DecisionFinal`.

Part two is about the composition. Every step of it is a step of the gate or leaves
the gate alone (`NextIsGateStep`), so `ApprovalInv` carries over. `RemediationInv`
adds that an execution past its pre-flight check has a mandate, and that phase, ARM
call, record and task move in step. From it: `RemediationTypes`, `ArmAuthorised`,
`WalIsTrue` (a record says what the poller saw, whichever of the four outcomes that
was), `RollbacksJustified`; `LoggedBeforeSent` under the hypothesis
`~CosmosFaults`, which is needed (see the divergences); and `ContractKept`, that
every step maps to a step of `RemediationContract` or to none.

Three more theorems say how far the divergences reach. `NothingSentLate`: a settled
document (executed, expired, rejected) stays settled, because a decision is written
only over a `pending` copy with the current etag and a policy falls back only
where there was no document; so a request that arrives after it will read it and is
refused. `SweepFindsNothing` and `NeverResolved` are about branches that are never
taken.

**`IncidentsProofs`.** `IncidentInv` rests on `Copies` (a copy whose etag matches is
the record), `Writes` (a delivery writes at most once), `Valid` (a checked transition
is valid for the copy held) and `Opened` (a delivery about to create knows that what
was open when it came in has been closed since). One lemma gives the
effect of any step on a record, the others lift it to the conjuncts. From it:
`IncidentTypes`, `NoJoinLost`, `HistoryTrue`, `OneIncidentAtATime`, the action
property `ClosedForGood`, and, with the fact that only writers are answered as
joined, `NoAlertSwallowed`. A second invariant, `CopiesAreOwn` (what a delivery holds is
a copy of a record of its resource, and of its rule if it collapses), gives two more.
`OnlyRetriesJoinClosed`: a first round joins a record that was open when it was
read, whose etag has not moved, so a closed record takes an alert in a retry only.
`LifecycleKept`: every step maps to a step of `AlertLifecycle` or to none, with one
lemma per abstract action (`TakeStep`, `OpenStep`, `ComeInStep`, `MoveStep`,
`LeaveStep`) and one for the steps it does not see (`HiddenStep`).

**`WarRoomProofs`.** `RoomInv`: a copy whose etag is the room's is the room
(`CopiesAreOfRoom`), a join about to write holds a copy its operator is not in
(`WritersHold`), and the events of a stream embed in the annotations (`StreamsFollow`);
that a worker runs one call at a time is not needed as an invariant, since
write and broadcast are one step for that reason. From it: `RoomTypeCorrect`,
`NoDuplicateParticipants`, `AnswersStay`, `StreamsAreInOrder` and the action
property `ListsOnlyGrow`. `LogKept` is the refinement of `RoomLog`: a write maps to
`Enter`, `Note` or `HandOver` (`WriteTakesEffect`, from `WriteFacts`: a copy with the
current etag is the room), a creation to `Open` (`RoomOpens`), the start of a request to
`Ask` (`AskStep`) and every other step of a request, a crash included, to `End`
(`QuietStep`); beside `RoomInv` it needs `Askers`, that only joins create and that nobody
is answered early. What the others say they say until the room is created anew;
`RoomLivesOn` adds that this ends with the first joins: once the room is there and no
join that found none is still on its way, nothing creates it again.

**`FoundryThreadProofs`.** That no message stays unread is a matter of who is still to
come. `ThreadInv` says that at most one run is active and that it has seen every message
(`OneActive`, `ActiveSeesAll`, because nobody can post meanwhile), that a run being
cancelled has a canceller who is on the way (`CancellersWait`), and that a message has
been seen by a run that stands, or an activity is pending that will start one or find
one active (`ReadOrPending`). An activity that is refused leaves an active run behind,
which has seen everything or has a canceller. From it: `ThreadTypeCorrect`,
`MessagesAreRead`, `RepliesAreFresh` (a chat that replied has a run that is over, so no
later message is its own). Of the counter of re-diagnoses: `LateResultsDropped` (past
the cap go only those that read it before it was reached, and those that could not read
it) and `NothingCounted` (with the partition key of the deployed container it stays 0).

**`PolicyCapProofs`.** `PolicyInv` counts what is under way together with what is
recorded (`LoadIsCapped`), since a proposal takes its place when it passes the cap
and not when it is recorded, and the same for days gone by (`DaysAreCapped`).
From it: `PolicyTypeCorrect`, `CapIsKept`, and `FullDayIsOver`: once the records of the
day have reached the cap and nothing that passed it is under way, nothing passes it
until midnight.

**`ChatStreamProofs`.** First, what a replay is: `ReplayInOrder` says of every buffer
that `Since`, a recursive function, returns the events after the last number, each once,
in their order. Then the invariant `ChatInv`, which has these parts. `TurnsInv` and
`ScreenInv`: whatever there is belongs to messages that have been sent, and the last
turn is open exactly while the spinner turns. `PromptInv`, until a stream is revived:
the browser waits for the last message, or streams, or its input is free, and while it
streams no answer is outstanding and the worker that took the message has the answer to
it. `NumbersInv`: 0 is nobody's number, and no event answers a message to come.
`FirstInv` and `SeenInv`, likewise until then: a source that has seen no number can only
be sent what its own connection polled; one that has seen a number has shown a text of
this turn. `WholeInv`: in buffers that are whole or empty and were given no late
silence, and on the wire, a text with a number above 1 has a `done` before it, which
closes the source first. What a poll pushes, with or without that time is up, is
described once (`PushShape`) and used for the browser's connection and for those left
behind. From it: `StreamTypes`, `TurnsEndWithText`, `SourceShowsOneText`,
`StaleFromElsewhere`, and `ConversationKept`, that every step maps to a step of
`Conversation` or to none. `WholeInv` is the part that is not inductive for a buffer
that loses some of its events, or that is given a `done` alone and then another pair:
hence `torn` and `overrun`, and the divergences named above.

**`TopologyGraphProofs`.** For the blast radius the classic invariant of breadth-first
search: hop counts in the queue ascend and span one hop at most (`QueueOrdered`,
`HeadIsNear`), steady edges out of what was read are relaxed (`Relaxed`), and whatever was
counted has an edge from a document read one hop nearer (`HopsAreReal`). That these
local facts make hop counts distances is an induction over the distance
(`NearIsCounted`, `CountedIsNear`), after the lemma that `Ball` is what its recursion
says (`BallUnfolds`). For the path: both sides hold simple paths within disjoint sets of
nodes (`ForwardPaths`, `BackwardPaths`, `Apart`). From it: `GraphTypeCorrect`,
`RadiusCorrect`, `AnswersArePaths`, and `RadiusExact`: in a behaviour without failing
reads and replacements, which leave `steady` equal to `seen` and all counted nodes
read, the affected resources are exactly those within `max_depth` hops and their hop
counts are the distances in the graph.

**`TopologySyncProofs`.** `SyncInv`: workers keep their hours (`OnTime`), a row out of
date belongs to a synchronisation that began before the change
(`OldRowsBeganBefore`), and for each change that has not arrived some worker is to
bring it in time (`SomeoneBrings`). A worker that writes an old row over a new one
will therefore query again, with a window that still has the change. From it:
`SyncTypeCorrect`, `GraphIsUpToDate`.

Inductions over data (`ReplayInOrder`, `BallUnfolds`, `RadiusCorrect`) use no induction
theorem with an operator parameter: the least counterexample comes from `WFMin` of
the library's well-founded relations, applied to the set of counterexamples
(`SetInduction`).

**Only model-checked.** Liveness (`SentIsVerified`, `PendingIsAlerted`,
`SpinnerClears`): fairness and `ENABLED` are out of the prover's reach. Every other
property of a passing run is stated by a theorem. The two refuted properties
(`executed_twice`, `joined_closed_incident`) have their counterexamples from TLC.

## 5. Assumptions

- A Cosmos item write is atomic and a conditional replace compares the etag. Part
  of the code writes `match_condition="IfMatch"` where the library documents an
  enumeration; the models take the intent. Reads see the latest write (one region,
  session or stronger consistency); queries are single steps.
- ARM and Resource Health are external: an operation ends in any of the ways `ArmReturns`
  lists, and a resource is found in any state of health after it.
- A Foundry thread with an active run refuses messages and runs, which is why the
  code cancels first; a run sees the messages that were there when it started; an
  answer is appended as its run completes. A cancellation that takes longer than
  the second the code waits counts as a fault.
- Runs of one thread that chats start end in the order they began. A buffered event
  expires 30 minutes after its push, and a connection lasts two: a whole buffer is gone
  only when nobody has been connected. The gateway's poll answers `completed` or that
  there is nothing yet, the only statuses it writes.
- Resource Graph lists a change as soon as it happened, and a synchronisation of
  the topology takes at most `MaxDuration`.
- A worker dies between two steps, never within one; a dead worker's activities
  are gone.
- Blast radius, tags and health of a resource are free choices wherever they
  are guards.

## 6. Not modelled

The OneLake event log and the audit trail (written, never read back by these
components); the noise reducer, whose causal suppression cannot match because
nothing stores the field it queries; classification of domains and mapping of
payloads, which are field by field. Of the policy administration, changes to a cap
and its other fields. Of the chat, the approval of MCP calls of sub-runs, which the
answer path never reaches, the trace stream, on which nothing is pushed, and the
second chat of `vm_chat.py`. Of the topology, the derivation of relationships from
a row. Of the network services, everything: handlers that never await, over one
snapshot. The session budget has no caller, the runbook executor simulates its
steps. Most of the repository by size is agents' read-only tools and several
dozen posture services that query Azure and store or list the answer: they have no
state that two steps could bring out of order. The other components are marked "no"
in the inventory.

## 7. Plan

Done: `Approvals`, `Remediation` on top of it, `RemediationContract` as their
abstraction, `Incidents`, `WarRoom`, `FoundryThread`, `ChatStream` and `Conversation`,
`AlertLifecycle`, `RoomLog`, `PolicyCap`, `TopologyGraph`, `TopologySync`, with proofs
of all. Next, in this order:

1. `TeamsEscalation`: overlapping polls and the reminder map.
2. Composition of `PolicyCap` with `Approvals`' policy branch, and of `FoundryThread`
   with the verdicts of `Remediation`.
3. `NetworkRules`: the evaluation of security rules and the detector of shadowed
   rules against a reference definition over packets.
4. `AgentHealth`: thresholds, forced checks, several workers.
